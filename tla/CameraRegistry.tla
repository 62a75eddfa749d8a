--------------------------- MODULE CameraRegistry ---------------------------
(***************************************************************************)
(* The registry of cameras (cameras/registry.py) and the three loops of    *)
(* the StreamManager that StreamManager.start would begin: draining frames,*)
(* handling health events, flushing statistics (cameras/stream_manager.py).*)
(* In this repository start has no caller, and the registry imports table  *)
(* classes that backend.database does not define: with RegistryTables      *)
(* FALSE every operation of it raises, and start with it.                  *)
(***************************************************************************)
EXTENDS Naturals, Sequences, FiniteSets, SequencesExt, FiniteSetsExt

CONSTANTS
  RegistryTables,   \* whether backend.database has CameraRegistry and CameraStats
  RegCameras,
  MaxCameras,       \* MAX_CAMERAS
  Creators,         \* concurrent create_camera calls
  FrameQueue,       \* capacity of a child's frame queue
  MaxHealth,        \* bound on unread health events of a child
  MaxFrames,        \* bound on the frames of a camera
  MaxReconnects     \* bound on reconnect_count

VARIABLES
  regRow,      \* camera_registry: status and reconnect_count of a camera
  creating,    \* create_camera calls between two awaits
  loops,       \* which loops run
  fleetProc,   \* _processes
  frameQ,      \* unread frames of each child ...
  healthQ,     \* ... and health events
  frameStats,         \* _stats: frames accumulated for a camera
  statsFlush,    \* a flush_camera_stats the stats loop awaits
  hourly,      \* camera_stats: total_frames, all stored for one id
  handling,    \* the health event whose update is awaited
  made         \* frames made by each child
registryVars == <<regRow, creating, loops, fleetProc, frameQ, healthQ, frameStats, statsFlush, hourly, handling, made>>

(* _sanitize_camera_id replaces what matches the pattern of a valid id:    *)
(* every camera that can be registered becomes "_".                        *)
SafeId(c) == "_"

NoCamera == [status |-> "none", reconnects |-> 0]
Nobody == [at |-> "none"]
AllLoops == {"drain", "health", "stats"}

RegistryInit ==
  /\ regRow = [c \in RegCameras |-> NoCamera]
  /\ creating = [k \in Creators |-> Nobody]
  /\ loops = {} /\ fleetProc = {}
  /\ frameQ = [c \in RegCameras |-> 0]
  /\ healthQ = [c \in RegCameras |-> <<>>]
  /\ frameStats = [c \in {} |-> 0]
  /\ statsFlush = Nobody /\ handling = Nobody
  /\ hourly = 0
  /\ made = [c \in RegCameras |-> 0]

loopVars == <<loops, fleetProc, frameQ, healthQ, frameStats, statsFlush, hourly, handling, made>>

-----------------------------------------------------------------------------
(* create_camera: the limit, counted without the disabled ones, and the id *)
(* are looked up first; the insert follows, and the database refuses only  *)
(* a second row of the same id.                                            *)
CountCameras(k, c) ==
  /\ RegistryTables /\ creating[k] = Nobody
  /\ Cardinality({d \in RegCameras : regRow[d].status \notin {"none", "disabled"}}) < MaxCameras
  /\ regRow[c].status = "none"
  /\ creating' = [creating EXCEPT ![k] = [at |-> "insert", camera |-> c]]
  /\ UNCHANGED <<regRow, loopVars>>

InsertCamera(k) ==
  /\ creating[k].at = "insert"
  /\ LET c == creating[k].camera IN
     \/ regRow[c].status = "none" /\ regRow' = [regRow EXCEPT ![c].status = "active"]
     \/ UNCHANGED regRow
  /\ creating' = [creating EXCEPT ![k] = Nobody]
  /\ UNCHANGED loopVars

(* delete_camera: soft by default *)
DeleteCamera(c) ==
  /\ RegistryTables /\ SafeId(c) \in RegCameras /\ regRow[SafeId(c)].status # "none"
  /\ \/ regRow' = [regRow EXCEPT ![SafeId(c)].status = "disabled"]
     \/ regRow' = [regRow EXCEPT ![SafeId(c)] = NoCamera]
  /\ UNCHANGED <<creating, loopVars>>

(* update_camera_status, which asks nothing of the row it updates *)
WithStatus(c, status) ==
  [d \in RegCameras |->
     IF d # SafeId(c) \/ regRow[d].status = "none" THEN regRow[d]
     ELSE [status |-> status,
           reconnects |-> regRow[d].reconnects + (IF status = "offline" THEN 1 ELSE 0)]]
CanCount == \A d \in RegCameras : regRow[d].reconnects < MaxReconnects

(* bulk_update_status: one camera after the other, of which any may fail *)
BulkUpdate(c, status) ==
  /\ RegistryTables /\ CanCount
  /\ regRow' = WithStatus(c, status)
  /\ UNCHANGED <<creating, loopVars>>

-----------------------------------------------------------------------------
(* start: the active cameras, then the loops.  Starting a child is awaited *)
(* before the next; here they start together.                              *)
StartManager ==
  /\ RegistryTables /\ loops = {} /\ fleetProc = {} /\ statsFlush = Nobody /\ handling = Nobody
  /\ fleetProc' = {c \in RegCameras : regRow[c].status = "active"}
  /\ loops' = AllLoops
  /\ UNCHANGED <<regRow, creating, frameQ, healthQ, frameStats, statsFlush, hourly, handling, made>>

(* stop: the loops are cancelled, whatever they await, and all is cleared *)
StopManager ==
  /\ loops # {}
  /\ loops' = {} /\ fleetProc' = {}
  /\ frameQ' = [c \in RegCameras |-> 0] /\ healthQ' = [c \in RegCameras |-> <<>>]
  /\ frameStats' = [c \in {} |-> 0]
  /\ statsFlush' = Nobody /\ handling' = Nobody
  /\ UNCHANGED <<regRow, creating, hourly, made>>

(* remove_camera while the loops run *)
RemoveCamera(c) ==
  /\ c \in fleetProc
  /\ fleetProc' = fleetProc \ {c}
  /\ frameQ' = [frameQ EXCEPT ![c] = 0] /\ healthQ' = [healthQ EXCEPT ![c] = <<>>]
  /\ frameStats' = [d \in DOMAIN frameStats \ {c} |-> frameStats[d]]
  /\ UNCHANGED <<regRow, creating, loops, statsFlush, hourly, handling, made>>

(* the child processes, in CameraFleet: a full frame queue loses its oldest *)
ChildFrame(c) ==
  /\ c \in fleetProc /\ made[c] < MaxFrames
  /\ made' = [made EXCEPT ![c] = @ + 1]
  /\ frameQ' = [frameQ EXCEPT ![c] = IF @ < FrameQueue THEN @ + 1 ELSE @]
  /\ UNCHANGED <<regRow, creating, loops, fleetProc, healthQ, frameStats, statsFlush, hourly, handling>>

HealthKinds == {"connected", "disconnected", "error", "frame"}
ChildHealth(c) ==
  /\ c \in fleetProc /\ Len(healthQ[c]) < MaxHealth
  /\ \E kind \in HealthKinds : healthQ' = [healthQ EXCEPT ![c] = Append(@, kind)]
  /\ UNCHANGED <<regRow, creating, loops, fleetProc, frameQ, frameStats, statsFlush, hourly, handling, made>>

-----------------------------------------------------------------------------
(* _drain_loop with _accumulate_stats: all the unread frames of a camera;  *)
(* the violations of a frame go to the database in a task of their own     *)
DrainFrames(c) ==
  /\ "drain" \in loops /\ c \in fleetProc /\ frameQ[c] > 0
  /\ frameStats' = [d \in DOMAIN frameStats \cup {c} |->
               (IF d \in DOMAIN frameStats THEN frameStats[d] ELSE 0) + (IF d = c THEN frameQ[c] ELSE 0)]
  /\ frameQ' = [frameQ EXCEPT ![c] = 0]
  /\ UNCHANGED <<regRow, creating, loops, fleetProc, healthQ, statsFlush, hourly, handling, made>>

(* _health_loop with _handle_health_event: the update is awaited, so the   *)
(* camera may be deleted before it is made, and is then active again.  A   *)
(* child found dead is offline.  (An error would also enqueue an alert,    *)
(* through an import that does not resolve.)                               *)
StatusOf(kind) == IF kind \in {"connected", "frame"} THEN "active" ELSE "offline"

TakeHealth(c) ==
  /\ "health" \in loops /\ handling = Nobody /\ c \in fleetProc
  /\ \/ /\ healthQ[c] # <<>>
        /\ handling' = [at |-> "update", camera |-> c, status |-> StatusOf(Head(healthQ[c]))]
        /\ healthQ' = [healthQ EXCEPT ![c] = Tail(@)]
     \/ handling' = [at |-> "update", camera |-> c, status |-> "offline"] /\ UNCHANGED healthQ
  /\ UNCHANGED <<regRow, creating, loops, fleetProc, frameQ, frameStats, statsFlush, hourly, made>>

(* an update that fails raises out of the loop, which ends *)
UpdateHealth ==
  /\ handling.at = "update"
  /\ \/ /\ CanCount
        /\ regRow' = WithStatus(handling.camera, handling.status) /\ UNCHANGED loops
     \/ loops' = loops \ {"health"} /\ UNCHANGED regRow
  /\ handling' = Nobody
  /\ UNCHANGED <<creating, fleetProc, frameQ, healthQ, frameStats, statsFlush, hourly, made>>

-----------------------------------------------------------------------------
(* _stats_loop: the flush of a camera is awaited; what is accumulated then *)
(* is not in it, and the reset that follows drops it.  A flush that fails  *)
(* is swallowed, and the reset follows all the same.  It also brings back  *)
(* the entry of a camera that was removed meanwhile.                       *)
FlushStarts(c) ==
  /\ "stats" \in loops /\ statsFlush = Nobody
  /\ c \in DOMAIN frameStats /\ frameStats[c] > 0
  /\ statsFlush' = [at |-> "flush", camera |-> c, frames |-> frameStats[c]]
  /\ UNCHANGED <<regRow, creating, loops, fleetProc, frameQ, healthQ, frameStats, hourly, handling, made>>

FlushEnds ==
  /\ statsFlush.at = "flush"
  /\ \E stored \in BOOLEAN :
       hourly' = IF stored THEN hourly + statsFlush.frames ELSE hourly
  /\ frameStats' = [d \in DOMAIN frameStats \cup {statsFlush.camera} |-> IF d = statsFlush.camera THEN 0 ELSE frameStats[d]]
  /\ statsFlush' = Nobody
  /\ UNCHANGED <<regRow, creating, loops, fleetProc, frameQ, healthQ, handling, made>>

RegistryNext ==
  \/ \E k \in Creators : InsertCamera(k) \/ \E c \in RegCameras : CountCameras(k, c)
  \/ \E c \in RegCameras :
       \/ \E s \in {"active", "offline", "disabled"} : BulkUpdate(c, s)
       \/ DeleteCamera(c) \/ RemoveCamera(c) \/ ChildFrame(c) \/ ChildHealth(c)
       \/ DrainFrames(c) \/ TakeHealth(c) \/ FlushStarts(c)
  \/ StartManager \/ StopManager \/ UpdateHealth \/ FlushEnds

-----------------------------------------------------------------------------
(***************************************************************************)
(* CameraHealthMonitor (cameras/health_monitor.py): the sliding window of  *)
(* events of a camera, the metrics derived from it and the alerts with     *)
(* their cooldown.  Nothing outside backend/cameras calls it, so who does  *)
(* is external.  Levels are whole numbers, the error rate a percentage.    *)
(***************************************************************************)

CONSTANTS
  MonitorCameras,
  MonitorEvents,    \* the events that occur: records of type, fps and msg
  EventLimit,       \* maxlen of the deque
  Window, AlertCooldown, Retention,
  MinFps, MaxErrorRate, MaxReconnectsSeen,
  HasAlertWorker,   \* alert_worker given and escalation on
  UpSince,          \* the monotonic clock starts with the host, not at 0
  LastMonitorTick

VARIABLES
  monitorClock,
  events,       \* _events
  lastAlert,    \* _last_alert: camera and type -> time
  healthOf,      \* _metrics_cache: the status derived last
  alertTasks,   \* _trigger_alert tasks that wait for the alert worker
  alertsSent
monitorVars == <<monitorClock, events, lastAlert, healthOf, alertTasks, alertsSent>>

MonitorInit ==
  /\ monitorClock = UpSince
  /\ events = [c \in MonitorCameras |-> <<>>]
  /\ lastAlert = [x \in {} |-> 0]
  /\ healthOf = [c \in {} |-> "healthy"]
  /\ alertTasks = {}
  /\ alertsSent = 0

Recent(log) == SelectSeq(log, LAMBDA e : e.at >= monitorClock - Window)
CountOf(log, types) == Len(SelectSeq(log, LAMBDA e : e.type \in types))

(* _compute_metrics and derive_status.  last_seen is the time of this very *)
(* computation, so that no camera is ever found offline; and a camera      *)
(* without events is not unknown, but slow.                                *)
Derived(log) ==
  LET recent == Recent(log)
      frames == SelectSeq(recent, LAMBDA e : e.type = "frame")
      fpsSum == FoldSeq(LAMBDA e, sum : e.fps + sum, 0, frames)
      errors == CountOf(recent, {"error", "disconnected"})
  IN
  CASE errors * 100 > MaxErrorRate * Len(recent) -> "unhealthy"
    [] OTHER ->
       IF frames = <<>> \/ 2 * fpsSum < MinFps * Len(frames) THEN "degraded"
       ELSE IF CountOf(recent, {"reconnect"}) > MaxReconnectsSeen THEN "degraded" ELSE "healthy"

(* _should_alert: no alert of the same type was sent of late.  One not yet *)
(* sent counts as sent at time 0, which is near when the host has just     *)
(* come up.                                                                *)
LastAlertOf(c, type) == IF <<c, type>> \in DOMAIN lastAlert THEN lastAlert[<<c, type>>] ELSE 0
ShouldAlertFor(c, e) ==
  /\ monitorClock - LastAlertOf(c, e.type) >= AlertCooldown
  /\ \/ e.type = "error" /\ e.msg
     \/ e.type = "disconnected"
     \/ e.type = "low_fps" /\ e.fps > 0 /\ 2 * e.fps < MinFps

(* record_event: the event, the metrics and the task of an alert *)
RecordEvent(c) ==
  /\ \E e \in MonitorEvents :
       LET log == Append(events[c], [type |-> e.type, fps |-> e.fps, msg |-> e.msg, at |-> monitorClock])
           kept == IF Len(log) > EventLimit THEN Tail(log) ELSE log
       IN
       /\ events' = [events EXCEPT ![c] = kept]
       /\ healthOf' = [d \in DOMAIN healthOf \cup {c} |-> IF d = c THEN Derived(kept) ELSE healthOf[d]]
       /\ alertTasks' = IF ShouldAlertFor(c, e) /\ HasAlertWorker
                        THEN alertTasks \cup {[camera |-> c, type |-> e.type, n |-> Min(0 .. 2 \ {t.n : t \in alertTasks})]}
                        ELSE alertTasks
  /\ UNCHANGED <<monitorClock, lastAlert, alertsSent>>

(* _trigger_alert after its enqueue: the cooldown begins only now, so that *)
(* two events in quick succession have both become tasks.  A full queue    *)
(* or an error leaves no trace.                                            *)
AlertEnqueued(t) ==
  /\ alertTasks' = alertTasks \ {t}
  /\ \/ /\ lastAlert' = [x \in DOMAIN lastAlert \cup {<<t.camera, t.type>>} |->
                           IF x = <<t.camera, t.type>> THEN monitorClock ELSE lastAlert[x]]
        /\ alertsSent' = alertsSent + 1
     \/ UNCHANGED <<lastAlert, alertsSent>>
  /\ UNCHANGED <<monitorClock, events, healthOf>>

(* get_camera_health computes what the cache does not have *)
GetCameraHealth(c) ==
  /\ c \notin DOMAIN healthOf
  /\ healthOf' = [d \in DOMAIN healthOf \cup {c} |-> IF d = c THEN Derived(events[c]) ELSE healthOf[d]]
  /\ UNCHANGED <<monitorClock, events, lastAlert, alertTasks, alertsSent>>

ForgetAlerts(cams) == lastAlert' = [x \in {y \in DOMAIN lastAlert : y[1] \notin cams} |-> lastAlert[x]]
ForgetMetrics(cams) == healthOf' = [c \in DOMAIN healthOf \ cams |-> healthOf[c]]

ResetCamera(c) ==
  /\ events' = [events EXCEPT ![c] = <<>>]
  /\ ForgetAlerts({c}) /\ ForgetMetrics({c})
  /\ UNCHANGED <<monitorClock, alertTasks, alertsSent>>

(* stop keeps the cooldowns *)
StopMonitor ==
  /\ events' = [c \in MonitorCameras |-> <<>>]
  /\ ForgetMetrics(MonitorCameras)
  /\ UNCHANGED <<monitorClock, lastAlert, alertTasks, alertsSent>>

CleanupOldData ==
  LET left == [c \in MonitorCameras |-> SelectSeq(events[c], LAMBDA e : e.at + Retention >= monitorClock)]
      empty == {c \in MonitorCameras : left[c] = <<>>}
  IN
  /\ events' = left
  /\ ForgetAlerts(empty) /\ ForgetMetrics(empty)
  /\ UNCHANGED <<monitorClock, alertTasks, alertsSent>>

MonitorTick ==
  /\ monitorClock < LastMonitorTick /\ monitorClock' = monitorClock + 1
  /\ UNCHANGED <<events, lastAlert, healthOf, alertTasks, alertsSent>>

MonitorRoom == Cardinality(alertTasks) < 2 /\ alertsSent < 2

MonitorNext ==
  \/ \E c \in MonitorCameras :
       \/ MonitorRoom /\ RecordEvent(c)
       \/ GetCameraHealth(c) \/ ResetCamera(c)
  \/ \E t \in alertTasks : AlertEnqueued(t)
  \/ StopMonitor \/ CleanupOldData \/ MonitorTick
=============================================================================
