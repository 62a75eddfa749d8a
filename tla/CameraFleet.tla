---------------------------- MODULE CameraFleet ----------------------------
(***************************************************************************)
(* Adding, removing and restarting cameras at runtime: the endpoints of    *)
(* backend/routes/cameras_route.py, the StreamManager they call            *)
(* (backend/cameras/stream_manager.py) and the child process of each       *)
(* camera (backend/cameras/camera_process.py).                             *)
(*                                                                         *)
(* Endpoints are coroutines that interleave wherever they await the        *)
(* database or the thread that starts or stops a child.  The manager's     *)
(* own loops are left out: nothing calls StreamManager.start, so frames    *)
(* and health events stay in the children's bounded queues.                *)
(***************************************************************************)
EXTENDS Naturals, Sequences, FiniteSets

CONSTANTS
  Cameras,
  Callers,      \* concurrent requests
  MaxAttempts   \* CAMERA_RECONNECT_MAX_ATTEMPTS

ASSUME FleetAssumption == MaxAttempts \in Nat \ {0}

NoChild == 0
Stages == {"insert", "add", "spawn", "register", "remove", "stop"}
Phases == {"loading", "opening", "reading", "gone"}

VARIABLES
  camRow,    \* status of the camera in camera_registry, "none" without a row
  processes, \* _processes: the child registered for a camera, or NoChild
  child,     \* every child process started so far
  request    \* the request each caller has in progress, or Done

fleetVars == <<camRow, processes, child, request>>

Child == [camera : Cameras, phase : Phases, failed : 0..(MaxAttempts - 1)]
Done == [op |-> "none"]
Request == [op : {"add", "remove", "restart"}, camera : Cameras, stage : Stages, child : Nat]

FleetInit ==
  /\ camRow = [c \in Cameras |-> "none"]
  /\ processes = [c \in Cameras |-> NoChild]
  /\ child = << >>
  /\ request = [k \in Callers |-> Done]

At(k, stage) == request[k] # Done /\ request[k].stage = stage
Begin(k, op, c, stage, i) ==
  request' = [request EXCEPT ![k] = [op |-> op, camera |-> c, stage |-> stage, child |-> i]]
Continue(k, stage, i) ==
  request' = [request EXCEPT ![k].stage = stage, ![k].child = i]
Finish(k) == request' = [request EXCEPT ![k] = Done]

Ended(i) == [child EXCEPT ![i].phase = "gone"]

-----------------------------------------------------------------------------
(* POST /cameras.  A camera whose row is not disabled is answered 409.     *)
AddSelect(k, c) ==
  /\ request[k] = Done
  /\ camRow[c] # "active"
  /\ Begin(k, "add", c, "insert", NoChild)
  /\ UNCHANGED <<camRow, processes, child>>

\* Mutant: the INSERT revives a row that is already there.
AddInsert_Upsert(k) ==
  /\ At(k, "insert")
  /\ camRow' = [camRow EXCEPT ![request[k].camera] = "active"]
  /\ Continue(k, "add", NoChild)
  /\ UNCHANGED <<processes, child>>

(* camera_id is UNIQUE, and a disabled row counts. *)
AddInsert(k) ==
  /\ At(k, "insert")
  /\ camRow[request[k].camera] = "none"
  /\ camRow' = [camRow EXCEPT ![request[k].camera] = "active"]
  /\ Continue(k, "add", NoChild)
  /\ UNCHANGED <<processes, child>>

InsertFails(k) ==
  /\ At(k, "insert")
  /\ Finish(k)
  /\ UNCHANGED <<camRow, processes, child>>

-----------------------------------------------------------------------------
(* DELETE /cameras/{camera_id}: the row first, then the child.  A row that *)
(* is disabled already is disabled again.                                  *)
RemoveUpdate(k, c) ==
  /\ request[k] = Done
  /\ camRow[c] # "none"
  /\ camRow' = [camRow EXCEPT ![c] = "disabled"]
  /\ Begin(k, "remove", c, "remove", NoChild)
  /\ UNCHANGED <<processes, child>>

(* StreamManager.remove_camera up to its await. *)
Remove(k) ==
  /\ At(k, "remove")
  /\ LET c == request[k].camera
     IN  /\ processes' = [processes EXCEPT ![c] = NoChild]
         /\ IF processes[c] = NoChild THEN Finish(k) ELSE Continue(k, "stop", processes[c])
  /\ UNCHANGED <<camRow, child>>

(* POST /cameras/{camera_id}/restart, up to the await of remove_camera. *)
Restart(k, c) ==
  /\ request[k] = Done
  /\ processes[c] # NoChild
  /\ processes' = [processes EXCEPT ![c] = NoChild]
  /\ Begin(k, "restart", c, "stop", processes[c])
  /\ UNCHANGED <<camRow, child>>

\* Mutant: the caller goes on without the child having been stopped.
StopChild_Skipped(k) ==
  /\ At(k, "stop")
  /\ IF request[k].op = "remove" THEN Finish(k) ELSE Continue(k, "add", NoChild)
  /\ UNCHANGED <<camRow, processes, child>>

(* CameraProcess.stop in its thread: the child ends by itself, or is       *)
(* terminated when it takes too long.                                      *)
StopChild(k) ==
  /\ At(k, "stop")
  /\ child' = Ended(request[k].child)
  /\ IF request[k].op = "remove" THEN Finish(k) ELSE Continue(k, "add", NoChild)
  /\ UNCHANGED <<camRow, processes>>

-----------------------------------------------------------------------------
(* StreamManager.add_camera: a camera that is registered is stopped first. *)
Add(k) ==
  /\ At(k, "add")
  /\ LET c == request[k].camera
     IN  /\ processes' = [processes EXCEPT ![c] = NoChild]
         /\ IF processes[c] = NoChild THEN Continue(k, "spawn", NoChild)
                                      ELSE Continue(k, "stop", processes[c])
  /\ UNCHANGED <<camRow, child>>

(* _start_camera: the thread starts the child, then the loop registers it. *)
Spawn(k) ==
  /\ At(k, "spawn")
  /\ request[k].op = "add"
  /\ child' = Append(child, [camera |-> request[k].camera, phase |-> "loading", failed |-> 0])
  /\ Continue(k, "register", Len(child'))
  /\ UNCHANGED <<camRow, processes>>

(* A restart always ends here: it passes the CameraProcess it found where  *)
(* a CameraConfig is expected, and a CameraProcess has no zone_id.         *)
SpawnFails(k) ==
  /\ At(k, "spawn")
  /\ Finish(k)
  /\ UNCHANGED <<camRow, processes, child>>

\* Mutant: a camera that was removed meanwhile is not registered.
Register_UnlessDisabled(k) ==
  /\ At(k, "register")
  /\ LET c == request[k].camera
     IN  processes' = IF camRow[c] = "disabled" THEN processes
                      ELSE [processes EXCEPT ![c] = request[k].child]
  /\ Finish(k)
  /\ UNCHANGED <<camRow, child>>

Register(k) ==
  /\ At(k, "register")
  /\ processes' = [processes EXCEPT ![request[k].camera] = request[k].child]
  /\ Finish(k)
  /\ UNCHANGED <<camRow, child>>

-----------------------------------------------------------------------------
(* _camera_worker.  What it does once connected is abstracted to reading,  *)
(* and a child is gone once its worker has returned.                       *)
Load(i) ==
  /\ child[i].phase = "loading"
  /\ \/ child' = [child EXCEPT ![i].phase = "opening"]
     \/ child' = Ended(i)
  /\ UNCHANGED <<camRow, processes, request>>

Connect(i) ==
  /\ child[i].phase = "opening"
  /\ child' = [child EXCEPT ![i].phase = "reading", ![i].failed = 0]
  /\ UNCHANGED <<camRow, processes, request>>

\* Mutant: the child starts over instead of giving up.
Disconnect_StartsOver(i) ==
  /\ child[i].phase \in {"opening", "reading"}
  /\ child' = [child EXCEPT ![i].phase = "opening", ![i].failed = (@ + 1) % MaxAttempts]
  /\ UNCHANGED <<camRow, processes, request>>

Disconnect(i) ==
  /\ child[i].phase \in {"opening", "reading"}
  /\ child' = IF child[i].failed + 1 >= MaxAttempts THEN Ended(i)
              ELSE [child EXCEPT ![i].phase = "opening", ![i].failed = @ + 1]
  /\ UNCHANGED <<camRow, processes, request>>

(* Any other exception is not counted, and the child connects again. *)
Errs(i) ==
  /\ child[i].phase = "reading"
  /\ child' = [child EXCEPT ![i].phase = "opening"]
  /\ UNCHANGED <<camRow, processes, request>>

(* The backend shuts down in order and starts again: its memory, its       *)
(* requests and its daemon children are gone, the registry stays, and      *)
(* nothing starts the cameras again.                                       *)
ServerRestarts ==
  /\ processes' = [c \in Cameras |-> NoChild]
  /\ child' = [i \in DOMAIN child |-> [child[i] EXCEPT !.phase = "gone"]]
  /\ request' = [k \in Callers |-> Done]
  /\ UNCHANGED camRow

-----------------------------------------------------------------------------
Proceed(k) ==
  \/ AddInsert(k) \/ InsertFails(k) \/ Remove(k) \/ StopChild(k)
  \/ Add(k) \/ Spawn(k) \/ SpawnFails(k) \/ Register(k)

Run(i) == Load(i) \/ Connect(i) \/ Disconnect(i) \/ Errs(i)

FleetNext ==
  \/ \E k \in Callers, c \in Cameras : AddSelect(k, c) \/ RemoveUpdate(k, c) \/ Restart(k, c)
  \/ \E k \in Callers : Proceed(k)
  \/ \E i \in DOMAIN child : Run(i)
  \/ ServerRestarts

FleetSpec == FleetInit /\ [][FleetNext]_fleetVars

-----------------------------------------------------------------------------
(* Requests and children are well formed, a stage that needs a             *)
(* child names one, and a registered child is of the camera it is under.   *)
FleetTypeOK ==
  /\ camRow \in [Cameras -> {"none", "active", "disabled"}]
  /\ processes \in [Cameras -> {NoChild} \cup DOMAIN child]
  /\ child \in Seq(Child)
  /\ request \in [Callers -> {Done} \cup Request]
  /\ \A c \in Cameras : processes[c] # NoChild => child[processes[c]].camera = c
  /\ \A k \in Callers : \A stage \in {"register", "stop"} :
       At(k, stage) => request[k].child \in DOMAIN child

Alive(i) == child[i].phase # "gone"

(* Two child processes never read the same camera, whatever additions,     *)
(* removals and restarts overlap: the UNIQUE row lets one request start    *)
(* it, and add_camera stops what is registered.                            *)
OneChildPerCamera ==
  \A i, j \in DOMAIN child : Alive(i) /\ Alive(j) /\ child[i].camera = child[j].camera => i = j

(* No child process runs out of reach: it is registered, so that a DELETE  *)
(* or a restart finds it, or a request that is starting or stopping it     *)
(* still holds it.                                                         *)
NoOrphans ==
  \A i \in DOMAIN child : Alive(i) =>
    \/ processes[child[i].camera] = i
    \/ \E k \in Callers : (At(k, "register") \/ At(k, "stop")) /\ request[k].child = i

BeingRemoved(i) == \E k \in Callers : At(k, "remove") /\ processes[request[k].camera] = i

(* A child that is registered when a removal of its camera begins comes to *)
(* an end, also when another request takes it out of the registry first.   *)
RemovalEnds ==
  \A i \in 1..Cardinality(Cameras) :
    (i \in DOMAIN child /\ BeingRemoved(i)) ~> (i \in DOMAIN child /\ ~Alive(i))

(* A child whose camera cannot be reached any more gives up: its worker    *)
(* returns, as the attempts since its last connection run out              *)
(* (camera_process.py:248).                                                *)
GivesUp ==
  \A i \in 1..Cardinality(Cameras) :
    <>[](i \in DOMAIN child /\ child[i].phase # "reading") => <>(i \in DOMAIN child /\ ~Alive(i))
=============================================================================
