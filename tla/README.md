# TLA+ verification of industrial-safety-monitoring

The repository is a FastAPI backend (Python 3.11, asyncio) with a React dashboard.
It watches cameras, detects missing protective equipment, fire, dangerous postures
and people in forbidden zones, alerts supervisors, escalates what nobody
acknowledges and keeps the records. This directory holds TLA+ models of the parts
of it that keep state across steps, the TLC runs that check them on small instances
and the theorems TLAPS proves about them for every instance. Paths are relative to
`src/`.

- Part 1: inventory: the components, their state, how they interact
- Part 2: the modules and how they correspond to the code
- Part 3: the runs: what each checks, bounds, fairness
- Part 4: the proofs
- Part 5: where the code disagrees with its own documentation
- Part 6: what is not modelled, and what would come next

Check a run with `tlc -config <cfg> <module>` and a proof module with
`tlapm <module>`; `PROJECT.json` lists the runs, the mutants each property
catches, the source lines behind every definition, the hazards and the theorems.

## 1. Inventory

### How the parts interact

```
 camera ──> CameraProcess (one child process per camera) ──> queues ──> StreamManager's loops ──> registry rows,
   POST/DELETE/restart /cameras ──> StreamManager ──────────┘            (nothing starts them)     HealthMonitor

 camera ──> InferencePipeline ──results queue──> EventWriter ──> violation_events
             │   one executor call per frame: light enhancement, detector, tracker,
             │   zones, heatmap, pose, proximity, fire   (FramePath, FireAlert, Enhancement)
             └── worker thread of PipelineRuntime; publishes to AppState, which
                 /health, /status and the live WebSocket read ──> browser (Dashboard)

 alerts ──> AlertWorker queue ──> AlertThrottle ──> e-mail / WhatsApp senders
 HTTP or a violation ──> agent graph ──> report, alert, agent_runs, compliance
 violation ──> report debouncer ──> report queue ──> language model ──> PDF and row
 violations ──> BatchWriter buffer ──> violation_events        (alternative writer)
 HTTP ──> escalation trigger/acknowledge ─┐
 APScheduler, every 60 s ──> check job ───┴──> alert_escalations
 HTTP ──> zones ──> reload of ZoneAlertEngine
 HTTP ──> permits, attendance, workers and faces, sites, shifts, keys, recipients,
          organizations and billing, webhooks, chat, enhancement ──> their tables
 frames ──> drift statistics ──> daily check;  registry ──> canary ──> promote / roll back
 operator at a terminal ──> calibration file ──> ProximityEngine at its start
```

Interaction is by awaited calls on one event loop (or, for the inference path,
on a second loop in a worker thread), by bounded queues, by files and by tables: a
request has one database session that commits when its handler returns
(`backend/database.py`, `get_session`). Nothing takes row locks, so what a session
read can be stale when it writes.

### Components with state of their own

| component | state | operations | what is hard | what makes it correct |
|---|---|---|---|---|
| inference runtime (`backend/pipeline.py`, `inference/pipeline.py`, `event_writer.py`, `state.py`) | thread, tasks, result queue, writer position, AppState | start, stop, frame loop, queue a result, persist violations and snapshots, SHAP initialisation | cancellation at any await, failed writes, back-pressure, publishing after a stop | violations stored once and in order; the queue drops the oldest; a stop ends; nothing of a dead pipeline is shown |
| frame path (`inference/pipeline.py`, `zones.py`, `tracker.py`, `heatmap.py`) | zones in three copies, tracks, two heatmaps | process a frame, add, remove and reload zones | a stage that raises; a reload that fails half way | every listed zone is watched; a quiet zone cools |
| pose and proximity (`alerts/pose_alert_engine.py`, `inference/proximity_engine.py`) | sample histories, cooldowns, debounce per pair | evaluate a frame | gaps between samples; two levels sharing one debounce | nobody stands near a machine in silence; fatigue is sustained |
| fire alerts (`alerts/fire_alert_engine.py`) | state, quiet count, last alert time | evaluate, reset | frame sequences that alternate; a clock that starts near 0 | no early all-clear; a fire that shows is reported within the interval |
| light enhancement (`inference/light_enhancer.py`, `routes/enhancement_route.py`) | two instances with their histories | enhance, toggle, status, reset | the route's instance is not the pipeline's | |
| zone alert engine (`alerts/zone_alert_engine.py`, `routes/zones_route.py`) | rows, engine's zones, debounce map | create, delete, reload, evaluate, restart | the row is committed before the reload, which may fail; the engine's zones are memory | a zone that was answered 201 and that the engine can load guards, but after a restart |
| escalation (`routes/escalation_route.py`, job in `main.py`) | `alert_escalations` | trigger, check job, acknowledge | sessions that interleave between SELECT and write; half-done transactions; `LIMIT 100` | one level at a time, after its window, once; nothing stays open for ever below the last level unless older rows crowd it out |
| alert delivery (`alerts/alert_worker.py`, `throttle.py`) | queue, job, hourly lists, window map | enqueue, dispatch, retry, record, start, stop | time passing inside a dispatch; one channel of two failing; an alert that arrives though its send fails; a full queue | nothing arrives within the cap and the window of what is known to be sent; the queue moves |
| senders (`alerts/email_sender.py`, `whatsapp_sender.py`) | configuration, tries | send, with two levels of retries | a message that arrives though its try raises | |
| batched writer (`performance/batch_writer.py`) | deque, counters | enqueue, flush loop, `force_flush`, stop | overlapping flushes, failure and cancellation with the batch in hand, a commit that takes effect and raises, full buffer | a record is stored or lost for good, and repeated only by such commits; the writer keeps trying |
| permits (`routes/permit_route.py`) | `permits_to_work` | request, approve, cancel, close, scan, list | an approval's SELECT and UPDATE; three time comparisons and NULLs | list and gate agree; a settled permit is final; access ends |
| camera fleet (`routes/cameras_route.py`, `cameras/stream_manager.py`, `camera_process.py`) | registry rows, `_processes`, children | add, remove, restart, a child's connection loop | requests overlapping while a thread starts or stops a child; lost cameras | one child per camera; none out of reach; removal and giving up end it |
| camera registry and loops (`cameras/registry.py`, `stream_manager.py`) | rows, queues, accumulated statistics | create, update, delete, bulk, drain, health, flush | counts during a flush; limits checked before an await | |
| camera health (`cameras/health_monitor.py`) | event window, metrics, alert times | record, compute, alert, clean up | cooldown and window at the start of the clock | |
| attendance (`routes/attendance_route.py`) | attendance rows | check in, check out, headcount, muster | two requests of one worker at once; midnight | a muster misses nobody; the counts agree |
| workers and faces (`routes/workers_route.py`, `identity/*`) | rows, embeddings in memory, rate limits | create, enrol, load, identify, upsert, anonymise, delete, bulk | memory changed before the row | |
| risk score (`identity/risk_scorer.py`) | violations of a window | score, level, trend | decay, halves and window at day boundaries | a quiet worker's risk fades |
| administration tables (`sites_route.py`, `shifts_route.py`, `apikeys_route.py`, `alert_config_route.py`, `industry_ppe_route.py`) | their tables, recipients in memory | create, update, delete, rotate, seed, assign | look, then write in another's gap | |
| organizations and billing (`organizations_route.py`, `billing_route.py`) | organization, subscription | create, subscribe, plan, cancel, webhook | reports from Razorpay late, twice, out of order | |
| calibration (`calibration/*`) | session, file, temporary file | click, compute, save, load | an interruption in the middle of a save | a calibrated camera stays calibrated |
| deployment and canary (`mlops/*`) | registry stages, rows, router, counters | register, start, evaluate, promote, roll back | counters shared between canaries; any statement failing | judged on its own frames only |
| drift (`monitoring/*`) | one day's accumulator, daily rows, reference | record, flush, roll over, check | midnight between taking and writing, or inside a check | a check judges a day that is over, on that day's frames |
| incident and weekly reports (`reports/*`) | debounce map, queue, rows, PDFs | trigger, worker, generate, store | recorded before it is generated; any step failing | |
| violation agent (`agent/*`) | tasks, runs, rate limits | trigger, eight nodes, timeout | a failed node's defaults going on | what failed does not take the alert with it |
| chatbot (`rag/chatbot.py`, `routes/chat.py`, `llm/manager.py`) | last documents, rate limits | ask, provider chain | two questions in flight share a field | answers cite their own documents |
| knowledge base (`rag/ingestor.py`, `rag/ingest/*`, `retriever.py`) | collections | ingest, rerun, retrieve | breaking off half way | |
| webhooks (`webhooks/dispatcher.py`, `routes/webhooks_route.py`) | registrations, statistics | register, delete, dispatch, retry, test | a retry of what arrived; a row deleted meanwhile | what is reported is what was tried |
| live stream (`routes/stream.py`, `performance/ws_optimizer.py`) | connection set with a lock; subscriptions | connect, disconnect, broadcast | clients going between accept and register or inside a broadcast | no seat too many and none lost |
| cache (`cache/redis_cache.py`) | zones, embeddings, canary state, marks | get, set, invalidate, mark | Redis away, answers lost, another encoding | |
| dashboard (`frontend/src/hooks`, `api/client.ts`) | sockets, timers, the log's lists, the heatmap | connect, retry, acknowledge, filter, poll | late close events; answers read before an acknowledgement | one feed; acknowledgements stay shown |

An empty last column means that the component is modelled for its
operations and no property was found that says more than one of its statements; its
actions run in the composed runs. The remaining components (retraining;
explanations, drawing and redaction; authentication and tenants; audit, detections
and export; demo mode, load test and scripts) keep no state of that kind; Part 6 and
`PROJECT.json` give the reason for each.

### Which behaviours are hard

`PROJECT.json` lists 40 hazards with their lines. They fall into these groups:

* **a session reads, another commits, the first writes**: escalation check
  and trigger (`escalation_route.py:166`, `:87`), approval (`permit_route.py:304`),
  check-out and check-in (`attendance_route.py:155`, `:67`), acknowledgements against
  polls (`useViolations.ts:141`);
* **something is in hand across an await**: a batch during its INSERT
  (`batch_writer.py:284`), a frame taken from the queue (`event_writer.py:203`), a
  child that a thread is starting or stopping (`stream_manager.py:304`), the retrieved
  documents (`chatbot.py:271`), a day's statistics (`inference_logger.py:99`), a
  canary's counters (`canary_router.py:281`), a socket between accept and register
  (`stream.py:62`);
* **cancellation and failure in the middle**: a writer that dies of one failed write
  (`event_writer.py:226`), a check that fails between UPDATE and INSERT
  (`escalation_route.py:164`), a reload that raises half way
  (`inference/pipeline.py:448`), a zone committed and not reloaded
  (`zones_route.py:185`), an agent node that fails (`nodes.py:284`, `:473`), one channel
  of two (`alert_worker.py:310`), a commit that raises (`batch_writer.py:335`), a save
  that is interrupted (`calibrator.py:494`), a restart of the backend
  (`zone_alert_engine.py:176`);
* **limits**: the result queue (`inference/pipeline.py:589`), the deque
  (`batch_writer.py:355`), the alert queue (`alert_worker.py:265`), `LIMIT 100`
  (`escalation_route.py:134`), the hourly cap (`throttle.py:140`);
* **time and retries**: windows compared at their boundary
  (`escalation_route.py:160`, `risk_scorer.py:322`, `permit_route.py:191`), a debounce
  two levels share (`proximity_engine.py:355`), gaps between samples
  (`pose_alert_engine.py:324`), attempts that arrived and timed out
  (`dispatcher.py:330`), late close events (`client.ts:347`).

Two hazards have no property: two triggers or two check-ins that both insert
(`escalation_route.py:87`, `attendance_route.py:67`) and the night shift
(`attendance_route.py:131`). Of a write by id that overwrites what was committed meanwhile
(`permit_route.py:304`, `escalation_route.py:166`), `SettledIsFinal` covers only what
remains true. The code does what these hazards fear, and Part 5 says so.

## 2. Modules

| module | models | main constants |
|---|---|---|
| `InferenceRuntime` | worker thread, frame loop, event writer, AppState | queue size, violating frames, snapshot interval, failures |
| `FramePath`, composing `ZoneRegistry`, `Heat` (twice), `PoseHazards`, `Proximity` | one frame through all stages, zones changing in between | scenes, places, zones files, windows |
| `FireAlert` | `FireAlertEngine` | clearing frames, alert interval |
| `Escalation` | `alert_escalations` under trigger, check job, acknowledge | violations, clients, levels and windows, scan limit |
| `Delivery` | abstract: what a buffering writer promises per record | records |
| `BatchWriter` | `BatchWriter`; refines `Delivery` | batch and buffer size, callers, failures, columns of the table |
| `Permit` | permit endpoints over `permits_to_work` | permits, zones, supervisors, longest validity |
| `AlertDelivery` | `AlertWorker` and `AlertThrottle` composed | recipients, channels, cap, window, attempts, queue size |
| `CameraFleet` | camera endpoints, `StreamManager`, child processes composed | cameras, callers, attempts |
| `ZoneAlerts` | zones API and `ZoneAlertEngine` | zone definitions, sightings, dwell |
| `Attendance` | check-in, check-out, headcount, muster | workers, sites, overlapping requests |
| `RiskScore` | `compute_worker_risk` | days, thresholds |
| `WorkerIdentity`, `Records` | workers and faces; administration tables, organizations and subscriptions | calls in flight, table sizes |
| `CameraRegistry` | registry and the manager's loops; the health monitor's events and alerts | cameras, limits, cooldown |
| `Calibration`, `Enhancement` | the calibration tool and its file; light enhancement | cameras and measurements; luminances |
| `Rollout`, `Drift` | canary deployment; drift statistics | versions, minimum of frames; days, flushers |
| `Reports`, `Agent` | incident and weekly reports; the violation agent | queue and debounce; runs, scores, thresholds |
| `Chat`, `Knowledge` | chatbot with its provider chain; ingestion and retrieval | questions in flight; files, batches |
| `Senders` | webhook dispatcher and its routes; e-mail and WhatsApp | hooks, posts, tries |
| `LiveStream`, `Cache` | registry of WebSockets and the optimised manager; Redis cache | sockets, seats; life times |
| `Dashboard` | live feed, violation log and polled heatmap of the browser | retries, sockets, rows, filters |
| `InferenceRuntimeProofs`, `BatchWriterProofs`, `AlertDeliveryProofs`, `CameraFleetProofs` | theorems about the module of that name | as theirs |
| `FrameProofs` | theorems about `FramePath` and what it composes | as theirs |
| `SiteProofs` | theorems about `ZoneAlerts`, `Attendance`, `RiskScore`, `Calibration`, `Permit`, `FireAlert`, `Escalation` | as theirs |
| `PlatformProofs` | theorems about `Rollout`, `Drift`, `Agent`, `Dashboard`, `Senders`, `LiveStream` | as theirs |
| `RecursionFacts` | lemmas the other proofs share: induction, recursive functions, sums over finite sets, quotients | |
| `MCResponse`, `MCSite`, `MCPlatform` | put the parts of a run together, with the values a cfg cannot write and, in `MCResponse`, the fairness of the parts | |
| `MCFrame` | the scenes of a frame run; the other runs take such values from their module | |

Definitions whose comment says "Mutant" or "a variant" are plausible bugs of the
definition they are named after. No specification uses them: they are put in the
place of the real one to see that a property notices.

Conventions: an action runs from one await of the code to the next, so everything
the code does in between is one step. A variable that a comment calls history is
read by properties only. Time is counted in ticks and kept as an age that saturates
where no comparison of the code tells further apart.

### InferenceRuntime

`worker` is where `PipelineRuntime._run` stands, `loop` where
`InferencePipeline._run` stands, `writer` where `start_event_writer` stands;
`queue` is the pipeline's `asyncio.Queue`, `app` is what AppState shows. A
frame is its position among the results queued since the first start. Points that
matter:

* `QueueResult` is the two-step relief of a full queue (`get_nowait`, then `put`),
  which no other task can interleave with;
* `TakeResult` decides from the frame and the count what is awaited next:
  violations first, then the snapshot;
* `ShutDown` cancels the writer. In Python 3.11 (`runtime.txt`) `asyncio.wait_for`
  can swallow a cancellation that meets it between the completion of its inner
  `get` and its own wake-up; `CancelMayBeLost` allows that outcome;
* `LoopCrashes` is any exception of `_run`; it is logged and `_running` is left as
  it was (`inference/pipeline.py:604`).

Reads that time out, malformed and skipped frames only make the loop read again
and are not steps.

### FramePath and what it composes

`Frame(dt, shot)` is `_process_frame`: `dt` ticks after the last frame the camera
shows a `shot`, which says what the models (external) return and which stages raise. A
detector that raises gives a frame without boxes; any other stage that raises is
skipped and the rest goes on. `Rezone` stands for the requests between frames.
`ZoneRegistry` keeps the zones three times, as pipeline, tracker and heatmap do;
`ReloadZones` clears, loads, and after an exception registers the old zones again, which
is one step because the method never awaits. `Heat` is the heatmap as an
accumulator that decays and is shown relative to the maximum of a rolling window; it is
instantiated for violations and for fire. `PoseHazards` keeps samples with their ages;
`Proximity` the age of each pair's last alert.

### Escalation

`matrix` is the committed table, a row's id its index. The check selects the `ScanLimit`
oldest open rows, those of the last level among them, and handles the others. A trigger
is two steps (`TriggerSelect`, `TriggerInsert`), a check is `CheckSelect` and then
`CheckCommit` or `CheckRollback`; what the check selected is `due`, and may be stale at
the commit. An acknowledgement is one guarded UPDATE. APScheduler runs one instance of
the job at a time; with several replicas of the backend each runs its own, which
`ARCHITECTURE_NOTES.md:72` and `DECISIONS.md:87` state and the model leaves out.

### FireAlert

A frame is whether fire and whether smoke passed its confidence threshold.
`SeeFire`, `SeeSmoke`, `SeeNothing` are the three branches of `evaluate`; `Reset` is
`reset`, which keeps the last alert time. `now` is the monotonic clock in ticks.
History: `quiet`, the quiet frames in a row, and `unreported`, when fire was seen since the
last report.

### BatchWriter and Delivery

A flush takes the whole buffer (`TakeAll`) and later commits or fails. `batch[f]` is
what flusher `f` has in hand: the background loop, a caller of `force_flush`, or `stop`.
`table` counts the rows of each record: a commit may take effect and raise, and the
code, which cannot tell, puts the records back; `repeats` is history and counts such
commits. `AddedColumns` says whether the table has the column `recorded_at` that the
INSERT names: without it (`Fits`) every flush raises. A failed flush puts the oldest
`BatchMax` records of the batch back on the left of a bounded deque, which pushes others
out on the right. `Stop` cancels the loop wherever it is; a cancelled flush may or may
not have committed. `Delivery` states the promise per record: *new → waiting → stored or
lost*, each once. The refinement maps a record to its place: table, buffer or batch, or
nowhere.

### Permit

A row has a status, a zone, the start and the end of its validity, both possibly
NULL, relative to now. `ApproveSelect` reads the status, `ApproveUpdate`
writes by id only; other requests commit in between. `Allowed` is the gate scan's
query, `ListedActive` what the list shows: the code has one comparison in SQL and
another in Python, and the model keeps both.

### AlertDelivery

One worker takes one job at a time and dispatches it to all recipients
concurrently: filter and throttle (`Refuse`, `FilterRaises`, `Admit`), then each
channel with retries, then the record (`Finish`). `hourly` and `window` are the
throttle's state as ages. A try that raises may have reached the recipient, its answer
lost; the worker records only what a sender said it sent. History: `sent`, the alerts of
which a sender said so, `last`, when one arrived, said or not, and in the dispatch
whether it `arrived`. `Tick` may happen between any two steps, so a dispatch can take
arbitrarily long. A CRITICAL job bypasses the window and is recorded at the check as well
as at the end, as in the code. The module is about one run of the backend: a restart
empties the throttle, as it empties the queue, and the hour begins anew.

### CameraFleet

A request is a coroutine that moves through stages, one per await: `insert` (the
row), `add`, `spawn` (a thread starts the child), `register`, `remove`, `stop` (a
thread ends the child). `processes` is `StreamManager._processes`, `child` the child
processes ever started, each loading, opening, reading or gone. `Disconnect`
counts failed attempts and gives up at the limit, `Connect` resets the count,
`Errs` is an exception other than `ConnectionError`, which is not counted.
`ServerRestarts` is an orderly shutdown and start: memory and daemon children go,
rows stay, and nothing starts the cameras again.

### The parts of `MCSite`

* `ZoneAlerts`: `CreateZone` commits the row, `Reload` or `ReloadFails` follows in the
  same request; other requests and frames come in between. `Evaluate(seen)` is
  `evaluate` on what one frame shows. `Restart` empties the engine, and nothing loads it
  until the next POST. History: `told`, and `unguarded`, who stood in an answered zone
  without its equipment, with the `Excuse` of the engine if it has one: the row does not
  parse, or the zones have not been loaded since a restart. Nothing in the repository
  calls `evaluate`: the module says what the engine does when called.
* `Attendance`: each check-in and check-out is a read and a write, and two requests of
  one worker overlap. `present` is history: who has checked in today and has not begun
  to check out since. `Midnight` starts a new UTC day, and every query is of the
  present day.
* `RiskScore`: a worker's violations by age in days. Scores are counted in seventieths,
  so that the decay is exact.
* `WorkerIdentity`: rows, and the recogniser's memory, which the code changes before the
  row; the registry's operations need a table class that the repository lacks, and with
  `WorkerTables` they are modelled as if it were there.
* `Records`: sites, shifts, assignments, API keys, recipients, PPE profiles: each
  request that looks before it writes is two steps. In a part of its own, organization
  and subscription rows, with Razorpay's reports late, twice and out of order.
* `CameraRegistry`: `RegistryTables` says whether the classes that the code imports exist.
  The loops are those `StreamManager.start` would begin. The health monitor is a part of
  its own.
* `Calibration`: the operator clicks, computes, verifies and saves; a save writes a
  temporary file and renames it; `Interrupted`, the end of the program, may come between
  any two steps. Nothing is flushed before the rename (`calibrator.py:494`), so a loss of
  power is not covered.
* `Enhancement`: the instance that frames go through and the one that the routes show.

### The parts of `MCPlatform`

* `Rollout`: an operator's requests and the evaluation loop are tasks with a program
  counter, `task`; registry, rows, router and counters change in separate steps, and every
  call may fail. `Restart` clears the router and the tasks.
* `Drift`: `acc` is the accumulator, `flushing[f]` the summary an overlapping flush has
  taken; `happened` is history: what was really processed, by day. The daily check reads
  the date (`CheckReads`), awaits the row, judges it and reads the date again for the
  report (`CheckSelects`), and stores (`SaveResult`): a midnight may fall in between, so
  a result has the day it judged and the day it is filed under.
* `Reports`: incident reports (debounce, queue, worker) and, with variables of their
  own, weekly reports.
* `Agent`: a run is at one of eight nodes; its state is what the graph passes on. A node
  that raises leaves its defaults, as the `except` branches do; `CutShort` is the timeout.
* `Chat`: a question is refused by the rate limit, retrieving, answering, or answered;
  `_last_docs` is one variable for all questions. Providers are tried in order.
* `Knowledge`: the ingestor writes under ids, the scripts without.
* `Senders`: two levels of retries around a client that may deliver and raise. In a part
  of its own, the webhook dispatcher: a post works on the registration it was given,
  `Attempt` arrives or not and is answered or not, independently.
* `LiveStream`: the registry's lock is a variable, a socket's handler a program counter.
  The optimised manager, which no route uses, is a part of its own.
* `Cache`: every operation fails soft; a command may take effect and its answer be lost.
* `Dashboard`: three parts. `feed`: sockets with ready state, timers and refs, every
  callback one step; `lost` is history: the sockets that lost their place to a late close
  event of another. `log`: react-query (external) keeps a list for each filter, with at most one
  request under way, and mutations with their own steps. `invalidateQueries` marks all
  lists and asks again for the one on the screen; a request of a list that has no data
  yet is not cancelled for that, and `kept` says that its answer is older than the
  mutation. `heat`: requests that overlap.

## 3. Runs

| run | module | distinct states | shows |
|---|---|---|---|
| `inference` | `InferenceRuntime` | 20,939 | order, back-pressure, cleanliness after a stop; a stop ends and violations reach the table but for named causes |
| `response` | `MCResponse` | 186,120 | escalation: levels one at a time, after their window, once, and nothing below the last level open for ever unless crowded out by the scan limit; permits: list and gate agree, settled is final, access ends; fire: no early all-clear, a fire that shows is reported within the interval, the emergency ends; cameras: one child each, none orphaned, removal and giving up end it |
| `frame` | `MCFrame` | 120,085 | listed zones are watched, quiet zones cool, whoever is close to a machine is told, fatigue is sustained |
| `batch` | `BatchWriter` | 295,693 | nothing twice but for commits that raised, refinement of `Delivery`, nothing stays in the buffer |
| `delivery` | `AlertDelivery` | 494,718 | nothing arrives within the cap or the window of what was sent, a full queue moves |
| `site` | `MCSite` | 1,831,699 | ten parts: zones guard, musters are complete, risk fades, calibrations survive |
| `platform` | `MCPlatform` | 3,315,630 | fifteen parts: canaries and drift are judged on their own data, danger is raised, deliveries add up, seats are kept, the dashboard shows what is so |
| `chat_sources` | `Chat` | counterexample | an answer that cites another question's documents |
| `agent_repeat` | `Agent` | counterexample | a repeat offender who is not treated as one |
| `zones_restart` | `MCSite` | counterexample | after a restart a worker in a zone that was answered is not reported |
| `batch_schema` | `BatchWriter` | counterexample | no record is ever written into the table as it is created |
| `alert_lost_answer` | `AlertDelivery` | counterexample | two alerts of one subject arrive within the window |

In `response`, `site` and `platform` the first state chooses one part (in `frame`, one
scene), and only that one moves: the parts share no state, so their states add up. The parts of
`site` and `platform` that no property speaks of (`WorkerIdentity`, `Records`,
`CameraRegistry`, `Enhancement`, `Reports`, `Knowledge`, `Cache`, the e-mail and WhatsApp
part of `Senders`, the optimised manager, the heatmap of the dashboard) are run for
their actions: each is taken, and nothing is evaluated outside its domain. What one
could state of them is either one statement of the code or false of it (Part 5).

### Bounds and why they are enough

* **inference**: a queue of 2 is full after two results, so 5 frames fill
  it, overflow it and drain it; three of five frames carry violations and a snapshot is
  due every second one, so every combination of violation and snapshot in a frame
  occurs; 2 starts give one restart. `MaxFrames` and `MaxStarts` bound the run only.
* **frame**: two places and zones that cover one or both; zones files that are empty,
  raise at once, raise after some definitions, or define a zone twice; every stage fails
  in some shot; gaps of 1 or 2 ticks between frames against windows of 2 and 3, so that
  histories have holes; two workers near one machine.
* **response**, the fire engine: 3 clearing frames and an interval of 2 ticks in 7 ticks hold two
  emergencies with a clearing in between and the start of the clock.
* **response**, escalation: two clients on two violations are enough for the trigger race and
  for two overdue rows in one check; three levels with windows 1, 2 and 0 (the last
  level's is 0 in the code) are the smallest ladder with a middle level;
  `MaxTriggers` 3 lets one violation be triggered twice. `ScanLimit` is 2 for the code's
  100, so that two open rows of the last level fill the SELECT and starve a third.
* **batch**: a buffer one larger than a batch, so that a failed batch is partly
  dropped, and five records, so that a returned batch meets newer records in a
  full deque. Every record may be committed once by a commit that raises (`MaxRepeats`
  bounds the run only). `AddedColumns` gives the table its missing column; `batch_schema`
  takes it away, and lets no database fail.
* **response**, permits: two permits and two supervisors: two approvals of one permit, and
  one of each; validity of up to 2 ticks and starts up to 1 ahead.
* **delivery**: one recipient with two channels who wants everything, one with a
  single channel who wants CRITICAL only; a cap of 2 and an hour of 3 ticks, with a
  window shorter than the hour; two attempts; a queue of one job. `alert_lost_answer`
  needs one attempt, and `last` for one recipient (`Watched`); `delivery` leaves it out.
* **response**, cameras: two callers on two cameras: every pair of overlapping requests on one
  camera, while the other goes its own way. A camera id is inserted once, so a
  camera has at most one child.
* **site**: two tracks and a dwell of 3 ticks over zones that overlap, are redefined or
  fail to load, with any number of restarts; two workers, two sites and two requests in
  flight over two days and 4 attendance rows; the code's seven days of history with up
  to 4 violations; two measurements of two cameras that share a file; two requests in
  flight for every table, and one camera more than the registry's limit.
* **platform**: two deployments of one version with two operators beside the loop, and
  a minimum of 2 frames; two days of two frames and two overlapping flushes; a queue of 2
  and a debounce of 1; two agent runs of one client at a rate of 1; two questions; three
  tries of two posts; three sockets for two seats; three browser sockets and 2 retries (10
  in the code); one row under two filters with two mutations, which is what a request
  that is kept needs (the theorem has any number); two polls.

### Properties

*Inference.* `CleanWhenOff`: with the thread dead no task is alive and AppState
shows nothing of it. `StoredInOrder`: a frame's violations are committed at most
once, in frame order, across restarts. `QueueIsNewest`: the queue is the unbroken
run of the newest results. `StopTerminates`: a requested stop ends the thread,
except when `wait_for` swallowed the cancellation. `ViolationsReachDb`: a queued
violation is committed, unless back-pressure drops it before the writer takes it,
a failed write killed the writer, or a stop intervenes.

*Frame.* `ZonesWatched`: every zone the pipeline lists is in tracker and heatmap with
the same polygon, after any adds, removals and reloads, failed ones included.
`QuietZonesCool`: no zone stays "high" or "critical" on old violations alone.
`CloseIsTold`: a pair that is close was told of within the debounce, and one that was
critical for a whole debounce was told of as CRITICAL. `FatigueIsSustained`: a fatigue
alert means that nobody has seen the head up for longer than the persistence time.

*Fire.* `ClearOnlyAfterQuiet`: no all-clear before enough quiet frames in a row, nor with
smoke, however frames alternate and wherever a reset falls. `FireGetsReported`: of a fire
that shows, everything seen since the last report is younger than the alert interval,
across clearings, resets, and the start of the clock. `EmergencyEnds`: once nothing is
seen any more the engine returns to normal.

*Escalation.* `HasPredecessor`: a level above the first exists only after the level
below expired. `OneSuccessorEach`: an expired row has exactly one successor; a failed
check loses no level. `WindowRespected`: no row is escalated before its window.
`OpenIsHandled`: an open row below the last level does not stay open for ever, unless as
many older rows of the last level as a SELECT returns stay open (`CrowdedOut`).

*Batch.* `WrittenOnce`: a record has no more rows, written or still to come, than one and
one for each of its commits that took effect and raised. `Delivers`: the refinement.
`KeepsTrying`: while the writer runs, what is in the buffer is taken into an INSERT or
pushed out, as often as an INSERT fails. `EventuallyWritten`, which `batch_schema` refutes:
with a database that does not fail, no record waits for ever.

*Permit.* `ListAgreesWithScan`: the list shows a permit as active exactly while the
gate lets its holder in. `SettledIsFinal`: cancelled or closed is final once no
approval that read it as pending is under way, which is as much as the code
gives. `AccessEnds`: every permit stops opening the gate.

*Delivery.* `HourlyCap` and `WindowRespected`: no alert arrives, answered or not, at a
recipient to whom the cap of alerts, or one of the same subject and severity, is known to
have been sent within the hour, or the window. They speak of arrivals and of answers, not
of the throttle's own lists. `OnePerWindow`, which `alert_lost_answer` refutes: no alert
arrives within the window of one that arrived. `QueueMoves`: a full queue drains.

*Cameras.* `OneChildPerCamera`, `NoOrphans`: a live child is registered or held by a
request. `RemovalEnds`: a child that is registered when a removal begins ends, also
when another request takes it out of the registry first. `GivesUp`: the child of an
unreachable camera ends.

*Site.* `AnsweredZonesGuard`: once POST /zones has answered 201, a worker whom the last
frame showed in the zone without its equipment was reported within the dwell threshold,
however creations, deletions, failed reloads, resets and restarts interleave; but for a
zone whose row the engine skips, and between a restart and the first POST after it.
`ZonesSurviveRestart`, which `zones_restart` refutes, has no such gap.
`MusterMissesNobody`: everyone who checked in today and has not begun to check out is in
the muster, and the counts of three endpoints agree. `StaysCalibrated`: whoever loads
a calibration that was reported as saved gets a whole one, however a later session was
interrupted. `RiskFades`: a day without violations raises neither score nor level,
after three the trend is not "worsening", after the history the worker is LOW and stable.

*Platform.* `LoopJudgesMeasured`: the loop settles a deployment only on enough frames of
its own canary. `RetrainHasADay`: a check that asks for retraining had enough detections
of the one day it judged, and that day was over; a midnight inside the check files the
result under a later date, which the property allows. `DangerIsRaised`: a stored run of
level HIGH or CRITICAL was at the alert node, one at the threshold at the report node.
`DeliveriesAddUp`: a failed post was tried as often as allowed, a delivered one arrived,
and the statistics are the sum of what happened. `StreamSeats`: never more sockets than
seats, and every registered socket has a handler that will take it out. `ShownIsSo`: the
browser keeps no socket live but its feed and those that lost their place to a late close
event of another, and as long as none did, it says "connected" only while its feed is
there to say when it ends; and what was
acknowledged is shown so once nothing is under way, but in an answer that the library
kept.

### Fairness and why the code justifies it

`MCResponse` states the fairness of its four parts, the other modules their own.

| module | fairness | justified by |
|---|---|---|
| InferenceRuntime | weak on the writer and the worker | the event loop runs every ready task; model loading and database writes return or raise. Nothing forces a stop, a frame or a restart |
| Escalation | weak on time and on starting a check, strong on its commit | the job fires every 60 s; the database does not fail every check |
| FireAlert | weak on quiet frames only | while nothing is seen, frames go on being evaluated |
| BatchWriter | weak on the start, on the loop and on the database's answer, be it a failure | the loop sleeps and wakes; a statement returns or raises. Nothing says that one ever succeeds; callers of `force_flush` need never come |
| Permit | weak on time | |
| AlertDelivery | weak on taking, dispatching and finishing a job | senders return: SMTP has a timeout (`email_sender.py:359`), the Twilio client is taken to answer or raise |
| CameraFleet | weak on each request that has begun and on each child | connection attempts return. Attempts that raise something other than `ConnectionError` for ever, which the child repeats for ever, are excluded |

`frame`, `site` and `platform` check safety only and state no fairness.

Deadlock is checked except in `inference`, `response`, `batch`, `site`, `platform` and
the counterexample runs other than `alert_lost_answer`: there a pipeline may be stopped
for good, all alerts may be settled, a stopped writer stays stopped, and the parts of
`site` and `platform` come to rest once their last day, call or question is over.

## 4. Proofs

TLAPS proves these for every value of the constants that meets the named
assumptions of the module. Each invariant is proved as *Init ⇒ IInv*,
*IInv ∧ [Next] ⇒ IInv′*, with one step per action, and *IInv ⇒ Inv*; the last, temporal
step puts the three together. An action property follows from the invariant and one
step.

Every safety property of every run, invariant or action property, is a theorem, and so
is the refinement of `Delivery`.

| module | theorems | for any | assumptions |
|---|---|---|---|
| `InferenceRuntimeProofs` | `TypeCorrect`, `StoredAlwaysInOrder`, `QueueAlwaysNewest`, `AlwaysCleanWhenOff` | queue size, snapshot interval, frames, restarts | `RuntimeAssumption` |
| `FrameProofs` | `ZonesAlwaysWatched` | zones, zones files | `ZoneFilesAssumption` |
| | `QuietZonesAlwaysCool` | places, polygons, height of a bump, window | `HeatAssumption`, `PlacesAssumption`, `ShotsAssumption` |
| | `CloseIsAlwaysTold` | pairs, debounce, gaps, failing stages | `DebounceAssumption` |
| | `FatigueIsAlwaysSustained` | history, persistence, gaps, samples | `PoseAssumption` |
| `SiteProofs` | `EscalationTypesHold`, `PredecessorAlways`, `WindowAlwaysRespected`, `SuccessorAlways` | ladder and windows, scan limit, violations, clients | `LevelsAssumption`, `BoundsAssumption`, `NoRequestAssumption` |
| | `FireTypesHold`, `AllClearIsSafe`, `FireAlwaysReported` | clearing count and interval | `FireAssumption` |
| | `PermitTypesHold`, `ListAlwaysAgrees`, `SettledStays` | permits, zones, approvals | `PermitAssumption` |
| | `AnsweredZonesAlwaysGuard` | zone definitions, sightings, dwell, restarts | `ZoneAlertsAssumption` |
| | `MusterNeverMisses` | workers, sites, requests, rows | `AttendanceAssumption` |
| | `AlwaysStaysCalibrated` | cameras, measurements | `CalibrationAssumption` |
| | `RiskAlwaysFades` | severity levels, history, thresholds | `RiskAssumption` |
| `PlatformProofs` | `LoopAlwaysJudgesMeasured` | operators, versions, deployments, minimum | `RolloutAssumption` |
| | `RetrainAlwaysHasADay` | days, frames, flushers | `DriftAssumption` |
| | `DangerIsAlwaysRaised` | runs, scores, threshold | `AgentAssumption` |
| | `DeliveriesAlwaysAddUp` | webhooks, dispatches, tries | `WebhooksAssumption` |
| | `SeatsAlways` | sockets and seats | `StreamAssumption` |
| | `ShownIsAlwaysSo` | sockets, retries, rows, filters, mutations | `FilterAssumption` |
| `BatchWriterProofs` | `TypeCorrect`, `AlwaysWrittenOnce`, `ImplementsDelivery` | batch and buffer size, callers, records | `WriterAssumption`, `CallersAssumption` |
| `AlertDeliveryProofs` | `TypeCorrect`, `AlwaysHourlyCap`, `AlwaysWindowRespected` | recipients, channels, severities, cap, hour, window, attempts, queue | `DeliveryAssumption` |
| `CameraFleetProofs` | `TypeCorrect`, `OneChildAlways`, `NeverOrphaned` | cameras, callers, attempts | `FleetAssumption` |

The assumptions give the constants their types and ranges, and keep the values that
stand for NULL or "nobody" apart from the others. Two say more about the code:
`HeatAssumption` has a window of at least three frames, because the model's decay of one
half per frame needs two frames to fall under the 40 percent where "high" begins, as the
code's 0.998 falls under it within its window of 500; `PlacesAssumption` and
`ShotsAssumption` say that a frame has finitely many places and detections.

### Why the invariants need strengthening

* **Inference.** Order of the commits is not inductive alone: `CommitsBehind` says that
  what is committed is older than what the writer holds, which is older than everything
  queued; `Phases` ties the progress of the shutdown to which tasks can be alive,
  and gives cleanliness; `CountsAgree` keeps the counters in range.
* **Zones** (`WatchedInv`). Ids are distinct in the pipeline's list, and all three lists
  hold zones that were declared. A reload is then followed through both folds, the
  removals and the registrations: `PutAllIs` says that afterwards the zones of the
  loaded list are present under their last definition, `WithoutIs` that the removals
  touch nothing else, and the rollback of a failed reload puts the pipeline's own list
  back over whatever was loaded.
* **Heatmap** (`HeatInv`). A place that has been quiet for *n* frames is at most
  1/2ⁿ of the maximum of *n* frames ago, for the last three. With a whole quiet window
  these are in the history that the scale is the greatest value of, so the place
  is at most a quarter of the scale, and a mean of such places is under "high". The mean
  is a sum over a finite set (`SumBounded`) and a division (`Quotient`).
* **Proximity** (`NearInv`). The engine's stamp and what was last told of a pair have the same
  age; a pair in the warning or the critical range has an open stamp, one younger than the
  debounce; and of a critical pair either the last telling was a CRITICAL one, or the run
  in the critical range is younger than the stamp.
* **Fatigue** (`FatigueInv`). Every unbroken run of drooping samples that reaches up to the
  newest is younger than the last upright head (`RunsAreYounger`), so the time the
  engine takes from such a run is time in which the head was down.
* **Escalation** (`LevelsInv`, `SuccessorsInv`). `DueWaited` says what the check still
  knows of the rows it selected, however stale they are: they are below the last level
  and have waited their window; `AgesSaturate` makes a waited row stay waited.
  `SuccessorAlways` adds `DueNotEscalated` (a selected row is not expired before the check
  commits) and counts: one commit expires as many rows of a level as it inserts rows of
  the next, shown by a bijection between the two (`GrowTogether`).
* **Fire** (`FireInv`). The engine's own count never runs ahead of the quiet frames; what is
  unreported was seen after the engine's last alert, whose age is what its guard asks for
  (`SeenSinceAlert`).
* **Zones that guard** (`ZonesInv`). Every row that is active, loads and was answered is
  in the engine, if the zones were loaded since the last start: the first reload brings
  back all of them at once, and from then on only a removal takes a zone out, and that
  takes the answer back. Ids that are answered, or whose POST has yet to reload, have
  their row already, so no later row gives one of them another definition. What a
  worker's caller was told is never older than the engine's stamp.
* **Attendance** (`AttendanceInv`). Whoever is present has an open row of today that no
  check-out under way is about to close (`Untouched`), and a check-out under way holds a row
  of its own worker. That muster, headcount and log count the same is a bijection
  between their sets (`CountsAgree`).
* **Risk** (`RiskInv`). No row is younger than the last violation. A day without one
  moves every row to where it weighs at most as much as before: `SumCovered` compares the
  two sums through the injection that sends a row to its place of the day before.
* **Calibration** (`CalibrationInv`). A session about to rename has a whole temporary file,
  and a session that says it saved, or ever said so, has a whole file: only a rename
  replaces it.
* **Canary** (`RolloutInv`). The loop is at a node where it settles a deployment only if it has
  found enough canary rows of that one, and rows only grow, whatever the other tasks
  and the router do in between; the router and the tasks mean deployments that exist.
* **Drift** (`DriftInv`). What the accumulator, the flushes under way and the stored rows
  hold of a day is at most what happened on it, which only grows; a check under way is of
  a day that is over, and when it has judged that day drifted, the day had enough.
* **Agent** (`AgentInv`). A run past the report node that was worth a report, or past the
  alert node and worth an alert, has that node in its trace, failed nodes included
  (`WentThrough`).
* **Webhooks** (`HooksInv`, of `Senders`). The tries of a post and their arrivals are in
  order (`InOrder`); each of the three statistics is the size of a set: the posts that
  arrived, those that were given up, the tries after a first one.
* **Stream** (`SeatsInv`). The lock is held by at most one handler, which is the one
  between the look at the limit and the entry; the seat that it saw is still free.
* **Dashboard** (`FeedInv`, `LogInv`). For the feed: every socket but the current
  one and the `lost` ones is already closed by the client and no longer heard, or is
  closing, and as long as none is lost the current one is not closed. For the log, filter by
  filter: what is shown or under way holds every row of a confirmed acknowledgement, unless
  it is marked invalid or was kept, and a confirmed row is in the table.
* **Batch.** `Owned`: every accepted record waits in at most one place, the buffer or
  the batch of one flusher, so that a commit adds at most one row of it; `Accepted`:
  nothing that was never accepted is anywhere. For the refinement a record counts as
  stored as soon as it has a row, put back or not; `Progress` says what a step can do to
  the stored and the waiting records (stored stays stored, what is lost does not come
  back); a step of the writer is then a step of `Delivery` or a stutter, record by
  record.
* **Permit** (`PermitInv`). `ApprovedWindow`: what an approval wrote, a start that has come
  and an end that is not NULL, is still there while the permit is active; without it the
  list's and the gate's treatment of NULL differ.
* **Delivery.** The cap is kept by the throttle's memory, the promise is about what was
  sent. `Covers` relates them: the memory has everything that is known to be sent to the
  recipient, but for the dispatch under way that is not recorded yet; `Order` keeps both
  by age; `Counted` and `Spaced` say how many may be in an hour and how close; `Shape`
  says at which points of a dispatch these hold. An alert reaches its recipient inside a
  dispatch that was admitted and has not been answered yet (`ReachesFacts`), and there the
  memory leaves room.
* **Cameras.** Both rest on the one INSERT per id: `RowFirst` (no row, no child and
  nobody about to start one), `StartsAlone` (one addition per camera is under way),
  `StartsFirst` (it starts the first child), `HoldsItsOwn`, and `AdditionsDoNotStop`
  (an addition never finds a child to replace).

### How the proofs speak about recursive data

The library's induction theorems take the statement as an operator, which the
installed provers cannot instantiate. `RecursionFacts` states induction over 0..n and over
the subsets of a finite set for a *set* of the values where the statement holds, and
derives what the proofs need: that a recursive function over 1..n exists and is
unique (`Recursion`; a zones file is loaded, registered and removed by such functions),
and that the sum over a finite set, which the community modules define with a CHOOSE,
takes its members in any order (`AnyOrder`), is additive (`SumWith`), bounded
(`SumBounded`), monotone (`SumOfPart`) and comparable through an injection (`SumCovered`).
What a definition must look like for this: recursion is written with functions
whose domain is an interval, or with sums; no module declares a RECURSIVE operator.

### What failed proofs showed

* The scores of `RiskScore` were CASE expressions with overlapping guards, which TLC reads in
  order and TLA+ does not: a score over both thresholds could be either level. They
  are now the intervals of `_SEVERITY_WEIGHTS` and a nested IF, as in the code.
* In `Dashboard` the step of the log read as an alternative where a conjunct was meant
  (the precedence of two operators on one line).
* `QuietZonesCool` needs the window to be longer than the decay needs, which is
  `HeatAssumption`; a zone without a place in the frame has no risk at all, which the
  property now says.

### Only model-checked

All liveness: `StopTerminates`, `ViolationsReachDb`, `OpenIsHandled`, `EmergencyEnds`,
`KeepsTrying`, `AccessEnds`, `QueueMoves`, `RemovalEnds`, `GivesUp`. It needs ENABLED
and fairness, which are beyond the prover. So are the parts of `site` and
`platform` that no property speaks of.

## 5. Where the code and its documentation disagree

### Shown by a run

* **`chat_sources`**: `ask` keeps the retrieved documents in a field of the one chatbot
  (`rag/chatbot.py:241`), awaits the language model, and makes its sources from the field
  afterwards (`:271`). A question asked meanwhile has replaced them. "RAG answer with cited
  sources" (`routes/chat.py:88`).
* **`agent_repeat`**: the node subscripts a Pydantic model (`agent/nodes.py:284`); that
  raises, the node keeps an empty history, and no run sees a repeat offender. "score 8
  + repeat → CRITICAL" (`nodes.py:328`).

* **`zones_restart`**: the engine's zones are memory, and nothing in the lifespan of
  `main.py` loads them: after a restart no zone is watched until somebody posts another one
  (which loads them all). "Call at startup and after any zone update via API."
  (`zone_alert_engine.py:176`).
* **`batch_schema`**: the INSERT names `recorded_at` (`batch_writer.py:330`), which
  `violation_events` (`database.py:270-286`) does not have: every flush raises and puts its
  records back. "Write all buffered violations in one multi-row INSERT."
  (`batch_writer.py:275`). The `batch` run and the theorems are for either table.
* **`alert_lost_answer`**: the senders return False for whatever their library raised, a
  time-out after the server took the message included, and the worker records only what was
  sent (`alert_worker.py:310`): the next alert of the same key arrives as well. "Per-alert
  window: one alert per (recipient, zone, track, severity_bucket) per THROTTLE_MINUTES"
  (`throttle.py:133-134`).

### Met while modelling, without a run

The models do what the code does in all of these, unless stated otherwise.

*Inference and frame path*

* `GET /health` promises "HTTP 503 when the pipeline is stopped or crashed"
  (`routes/health.py:54`); a crashed frame loop is only logged and leaves `_running` set
  (`inference/pipeline.py:604`).
* A swallowed cancellation makes the worker wait for a writer that was never cancelled;
  `stop` gives up after 20 s, although it says "wait for a clean shutdown"
  (`backend/pipeline.py:87`). A failed write ends the event writer for good
  (`event_writer.py:226`). `StopTerminates` and `ViolationsReachDb` name these exceptions.
* Violations of one frame beyond `MAX_BATCH_SIZE` are cut off (`event_writer.py:58`). A
  read that times out leaves its thread inside `cap.read` (`inference/pipeline.py:543`). A
  route's call can be submitted to a loop that closes before it runs it
  (`backend/pipeline.py:223`).
* A zones file whose later definition raises leaves the zones loaded before it, though the
  pipeline says "running without zones" at its start and "rolling back" on a reload
  (`inference/pipeline.py:368`, `:447`).
* The pose engine's track id is the index of the pose, 0, and ByteTrack's ids start at 1,
  so `combined_alert` is never set (`pose_alert_engine.py:506`); `ReachingDetector` never
  gets zones.
* `FireDetector.detect` returns before its heatmap's tick on frames without boxes
  (`fire_detector.py:323`). A frame without boxes never reaches ByteTrack, so lost tracks
  do not age.
* `/enhancement/toggle` toggles the module's enhancer, the pipeline has another
  (`enhancement_route.py:36`, `inference/pipeline.py:315`); with enhancement configured off
  `/enhancement/status` raises. `_apply_gamma` darkens where its docstring says brighten
  (`light_enhancer.py:191-224`).
* The monotonic clock starts at 0 on some hosts, so an alert time of 0 holds alerts back in
  the first minutes after boot (`fire_alert_engine.py:117`, and in the health monitor).

*Zones, escalation, alerts*

* `dwell_threshold_s` is a debounce, no dwell time (`zone_alert_engine.py:398`). Nothing
  calls `evaluate`. A reload never removes a zone (`:212`) and DELETE /zones never reaches
  the engine. POST /zones answers 201 for a row that the engine skips when it loads
  (`:215`): such a zone never guards.
* The escalation check reads the 100 oldest open rows (`escalation_route.py:134`), the
  last-level ones it then skips among them; once that many stay unacknowledged no newer
  alert is escalated, which `OpenIsHandled` names as `CrowdedOut`; the comment says "Get
  all open escalations" (`:126`). It updates by id
  only (`:166`), so an acknowledgement committed after its SELECT is overwritten and the
  next level notified; "If not acknowledged → L2" (`:7`). Two concurrent triggers open two
  chains (`:87-90`), although triggering is tested as idempotent
  (`tests/test_enterprise.py:371`, sequentially).
* `should_send` records a bypassing CRITICAL alert (`throttle.py:149`) and the worker records
  it again (`alert_worker.py:311`): a delivered one uses two places of the hourly cap.
* WhatsApp sends, with their retries, are synchronous inside the event loop; an alert logged
  as failed may have been delivered several times, once for each try and channel.

*Batched writer.* A commit that takes effect and raises is re-queued and inserted again
(`batch_writer.py:348`); `WrittenOnce` counts it. A re-queue that pushes records out
does not count them (`:355`); `force_flush` returns the total, not the "number of
records written" (`:375`).

*Permits.* The approval updates by id only (`permit_route.py:304`): a permit cancelled, or
approved and closed, in between becomes active; "Approve a pending permit." (`:277`).
"Expired permit triggers alert" (`:16`); no code does.

*Cameras*

* A DELETE that arrives while a POST is still starting the child finds nothing to stop; the
  child runs for a disabled row until a second DELETE, although "All changes take effect
  immediately in the stream manager." (`cameras/registry.py:15`). The restart endpoint passes
  the running process where a configuration is expected (`cameras_route.py:266-271`). A
  removed id cannot be added again. A camera whose child gave up stays 'active'. A hard kill
  of the backend would leave the children behind; the model's restarts are orderly.
* `backend.database` lacks `CameraRegistry` and `CameraStats`: every operation of the
  registry and `StreamManager.start` raise ImportError. `_sanitize_camera_id`
  (`registry.py:187`) turns every valid id into "_". The statistics loop loses frames that
  come during its flush and resets after failed ones. The limit of cameras is checked
  before an await. A health event of a disabled camera makes it active.
* OFFLINE is never derived, because `last_seen` is set to now when it is computed
  (`health_monitor.py:380`); a camera with no events is "degraded"; the cooldown
  starts after the awaited enqueue, so two quick errors both alert.

*People and records*

* Attendance counts the present UTC day only: a night shift vanishes from headcount and
  muster and cannot check out (`attendance_route.py:131`); two check-ins can both insert
  (`:85`). `MusterMissesNobody` starts afresh at midnight, as the queries do.
* `worker_registry` imports a `WorkerProfile` that does not exist. The recogniser's memory is
  changed before the row is inserted, so a create refused with 409 leaves its face on the
  existing worker; loading never removes a face, and anonymising or deleting leaves it in
  memory; "Call at startup" has no caller; an upsert made from `get_worker_profile` wipes
  the stored embedding.
* `update_all_risk_scores` has no caller and SQL neither database accepts; its HR alert's
  cooldown compares with a time written a moment earlier.
* `shift_assignments` has no unique key, so "upsert" duplicates; two seeds at once
  duplicate PPE profiles though "idempotent"; two rotations of one API key make two
  successors; overlapping refreshes can leave the older list of recipients; a race of two
  site creations answers 500 instead of 409.
* The billing webhook looks organizations up by `razorpay_subscription_id`, a column nothing
  writes (`billing_route.py:368` against `:329-333`), so a paying organization stays
  pending_payment. A changed plan keeps the old limits; late webhooks overwrite a
  cancelled status.
* `ProximityEngine.load_calibration` (`proximity_engine.py:199`) swaps the arguments of
  `CameraCalibration.load` (`calibrator.py:504`): ValueError at the pipeline's start, though
  "The pipeline will use this calibration automatically." (`calibrate_camera.py:296`).
  Cameras whose ids differ in a forbidden character share a file, and two operators of
  one camera its temporary file (the model has one operator at a time).

*Models, reports, agent*

* Rolling back a second deployment of a version already promoted archives the Production
  model, though "Production model continues unaffected" (`deployment_manager.py:345`).
  Settling canary A stops the router of a newer canary B. A test with fewer than 30
  production frames skips the significance test. The tables lack columns that the SQL of
  `mlops/` and `monitoring/` names; the models take the statements against the columns
  they name. Nothing starts the evaluation loop or records metrics.
* A check during which midnight passes files its result under a date two days after the
  day it judged (`drift_reporter.py:107`, `:385`). `retrain_triggered` is stored even when
  retraining is disabled. A restart's flush
  overwrites the day's row with the later frames only.
* Incident reports: `enqueue` has no caller; a report is recorded as made before it is
  generated, so one that fails is debounced (`reports/trigger.py:196`). Weekly reports: the row
  is keyed by today, so a second week's report of one day keeps the first week's dates;
  `_email_report` asks the configuration for a `db_factory` it lacks, so no e-mail is sent.
* `run_agent` makes a semaphore per run (`runner.py:111`), so "Manages concurrent agent runs
  with a semaphore" (`:5`) caps nothing; the stored `final_status` is always "RUNNING"; a run
  that times out keeps its report and alert but has no row.

*Chat, webhooks, streams, cache*

* `model_used` names the first configured key, not the provider that answered. The ingest
  trigger always answers 503. The chatbot and the ingestor use different collections; the
  scripts duplicate when rerun.
* JIRA webhooks get the custom payload; testing a hook not subscribed to violation.high
  reports "Event not subscribed"; `dispatch_to_all` has no caller.
* `_send_to_one` of the optimised manager registers a socket again that was disconnected
  meanwhile.
* A SET NX whose answer is lost is retried and answers "duplicate", though nobody was told
  "new"; sanitised keys collide ("cam 1", "cam_1").

*Dashboard*

* Settling an acknowledgement keeps a request of a newly chosen filter that has no data yet
  (each filter is a query, `useViolations.ts:63`, `ViolationLog.tsx:80-88`); if the server
  answered it before, the list shows the row as open until the next poll, though the
  comment says "Invalidate queries to refetch fresh data" (`:163`). `ShownIsSo` excepts
  such an answer as `kept`.
* `close` does nothing to a socket that the server is closing already (`client.ts:383`), so
  its `onClose` comes late, nulls the reference to the newer socket
  (`useWebSocket.ts:118`), and nothing closes that one any more, unmounting included:
  "Proper cleanup on unmount (prevent memory leaks)" (`:6`). `ShownIsSo` allows the sockets
  that were `lost` so, and no others.
* A socket that the client closes keeps its ping interval for ever (`client.ts:347` returns
  before `clearInterval`; "Memory leak prevention (ping interval cleanup)", `:10`).
* The optimistic update is made under `['violations']`, the lists live under
  `['violations', params]`: it changes nothing (`useViolations.ts:148` against `:10`). The
  AbortController of `useHeatmap` is never passed to the request (`useHeatmap.ts:71`).
* `FireAlertOverlay` listens on a reference nobody assigns, so the overlay never shows.

Nothing in `main.py` starts `AlertWorker`, `BatchWriter`, `StreamManager`'s loops or
`HealthMonitor`; these models say what the classes do once started.

## 6. Not modelled, and what would come next

Left out inside modelled components: what detectors, trackers and explainers compute
in a frame; `PipelineRuntime.call`; the start and stop of `StreamManager`; the contents of
messages, images, QR codes, prompts and metrics; read-only endpoints; schema
creation; a database that commits and then reports a failure, except in `BatchWriter`; a
restart of the backend in the middle of an alert's hour; several replicas of the backend.

Left out as components:

| component | why |
|---|---|
| Retraining (`retraining/`) | calls of Colab and Roboflow and one promotion by file copies, without a caller. Its copies are not atomic: a stop between two leaves a torn or unrecorded production model, which the next promotion backs up |
| Explanations, drawing, redaction | arithmetic on pixels without a decision other parts depend on; the life of the SHAP task is in `InferenceRuntime` |
| Authentication and tenants | checks of one request; the only state is the rate limiter's count |
| Audit, detections, export | listings and single guarded statements |
| Demo mode, load test, scripts | generated data and tools |
| Forms and panels of the frontend | each sends one request and shows its answer |

The order in which the parts were taken, by what a supervisor relies on:

1. `InferenceRuntime`, `Escalation`, `FireAlert`: violations stored, climbed, never silent
2. `BatchWriter` with `Delivery`, `Permit`, `AlertDelivery`, `CameraFleet`
3. `FramePath` with the four modules it composes, `ZoneAlerts`, `Attendance`,
   `RiskScore`, `Calibration`
4. `Rollout`, `Drift`, `Agent`, `Chat`, `Senders`, `LiveStream`, `Dashboard`
5. the other parts of `site` and `platform`: their actions

The safety properties of 1 to 4 are proved; 5 is run only.

Next would be: an abstract specification of the inference path from frame to table and
of the alert path from job to recipient, each proved to be implemented as `Delivery` is
by `BatchWriter`; a variant of `Delivery` that counts repeats, implemented by the
batched writer and the webhook dispatcher; types of the modules that have no type
theorem yet; a promotion of the retrained model with a crash between its copies; two
replicas of the escalation job.
