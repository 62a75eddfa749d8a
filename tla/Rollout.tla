------------------------------ MODULE Rollout ------------------------------
(***************************************************************************)
(* Canary deployment of a model (mlops/): the registry's stages (MLflow),  *)
(* the table model_deployments, the router that sends a share of the       *)
(* tracks to the canary, and the loop that judges it.  An operator's       *)
(* request and the loop are tasks of one event loop: a step of the model   *)
(* runs from one await to the next.  Every call of the registry and every  *)
(* statement may fail.  The router and the tasks are in memory only.  The  *)
(* statements are taken against the columns they name, some of which the   *)
(* tables that database.py creates do not have.                            *)
(***************************************************************************)
EXTENDS Naturals, Sequences, FiniteSets

CONSTANTS
  Operators,        \* slots for operators' requests
  Loop,            \* the evaluation loop, a task of its own
  NumVersions, MaxDeployments,
  MinFrames,       \* CANARY_MIN_FRAMES
  AutoPromote      \* AUTO_PROMOTE_CANARY

ASSUME RolloutAssumption ==
  Loop \notin Operators /\ MaxDeployments \in Nat /\ MinFrames \in Nat

Versions == 1..NumVersions
Deployments == 1..MaxDeployments
Tasks == Operators \cup {Loop}

VARIABLES
  registry,    \* stage of each version, "absent" before it is registered
  deployments,        \* model_deployments: version and stage
  router,      \* the CanaryState: on, deployment, frames of the canary
  canaryRows,     \* rows of canary_metrics for the canary of each deployment
  inflight,    \* deployment of a frame that is being inferred, 0 for none
  task         \* what each task is waiting for
rolloutVars == <<registry, deployments, router, canaryRows, inflight, task>>

NoTask == [at |-> "idle", on |-> 0]
Off == [on |-> FALSE, dep |-> 0, frames |-> 0]

RolloutInit ==
  /\ registry = [v \in Versions |-> "absent"]
  /\ deployments = <<>>
  /\ router = Off
  /\ canaryRows = [d \in Deployments |-> 0]
  /\ inflight = 0
  /\ task = [t \in Tasks |-> NoTask]

IsCanary(d) == d \in DOMAIN deployments /\ deployments[d].stage = "canary"
Goto(t, where, what) == task' = [task EXCEPT ![t] = [at |-> where, on |-> what]]
Done(t) == task' = [task EXCEPT ![t] = NoTask]
SetStage(d, stage) == deployments' = [deployments EXCEPT ![d].stage = stage]

-----------------------------------------------------------------------------
(* register_model: versions are numbered as they come; a failure after the *)
(* registration leaves the version in no stage.                            *)
RegisterModel(v) ==
  /\ registry[v] = "absent"
  /\ \A w \in Versions : w < v => registry[w] # "absent"
  /\ \E stage \in {"Staging", "Archived", "None"} : registry' = [registry EXCEPT ![v] = stage]
  /\ UNCHANGED <<deployments, router, canaryRows, inflight, task>>

(* get_latest_versions answers with one version of a stage, the newest *)
StagingModels ==
  {v \in Versions : registry[v] = "Staging" /\ \A w \in Versions : w > v => registry[w] # "Staging"}

PromoteToProduction(v) ==
  registry' = [w \in Versions |-> IF w = v THEN "Production"
                                  ELSE IF registry[w] = "Production" THEN "Archived" ELSE registry[w]]
ArchiveModel(v) == registry' = [registry EXCEPT ![v] = "Archived"]

-----------------------------------------------------------------------------
(* start_canary_deployment: nothing asks whether a canary is running.  The *)
(* router accepts every version and id the table gives, so the branch that *)
(* deletes the row again is never taken.                                   *)
StartReads(t, v) ==
  /\ task[t].at = "idle" /\ t \in Operators
  /\ v \in StagingModels
  /\ Goto(t, "insert", v)
  /\ UNCHANGED <<registry, deployments, router, canaryRows, inflight>>

StartInserts(t) ==
  /\ task[t].at = "insert"
  /\ \/ /\ Len(deployments) < MaxDeployments
        /\ deployments' = Append(deployments, [version |-> task[t].on, stage |-> "canary"])
        /\ Goto(t, "route", Len(deployments) + 1)
     \/ UNCHANGED deployments /\ Done(t)
  /\ UNCHANGED <<registry, router, canaryRows, inflight>>

StartRoutes(t) ==
  /\ task[t].at = "route"
  /\ router' = [on |-> TRUE, dep |-> task[t].on, frames |-> 0]
  /\ Done(t)
  /\ UNCHANGED <<registry, deployments, canaryRows, inflight>>

-----------------------------------------------------------------------------
(* promote_canary *)
PromoteReads(t, d) ==
  /\ Goto(t, IF IsCanary(d) THEN "registry" ELSE "idle", IF IsCanary(d) THEN d ELSE 0)
  /\ UNCHANGED <<registry, deployments, router, canaryRows, inflight>>

PromoteRegisters(t) ==
  /\ task[t].at = "registry"
  /\ \/ PromoteToProduction(deployments[task[t].on].version) /\ Goto(t, "promoted", task[t].on)
     \/ UNCHANGED registry /\ Done(t)
  /\ UNCHANGED <<deployments, router, canaryRows, inflight>>

(* a failed UPDATE returns before the router is stopped *)
PromoteWrites(t) ==
  /\ task[t].at = "promoted"
  /\ \/ SetStage(task[t].on, "production") /\ router' = Off
     \/ UNCHANGED <<deployments, router>>
  /\ Done(t)
  /\ UNCHANGED <<registry, canaryRows, inflight>>

(* rollback_canary: whatever canary is running is stopped; the registry's  *)
(* answer is not looked at                                                 *)
RollbackReads(t, d) ==
  /\ Goto(t, IF IsCanary(d) THEN "stop" ELSE "idle", IF IsCanary(d) THEN d ELSE 0)
  /\ UNCHANGED <<registry, deployments, router, canaryRows, inflight>>

RollbackStops(t) ==
  /\ task[t].at = "stop"
  /\ router' = Off
  /\ ArchiveModel(deployments[task[t].on].version) \/ UNCHANGED registry
  /\ Goto(t, "stopped", task[t].on)
  /\ UNCHANGED <<deployments, canaryRows, inflight>>

RollbackWrites(t) ==
  /\ task[t].at = "stopped"
  /\ SetStage(task[t].on, "archived") \/ UNCHANGED deployments
  /\ Done(t)
  /\ UNCHANGED <<registry, router, canaryRows, inflight>>

-----------------------------------------------------------------------------
(* a variant without the check of the frames, for comparison *)
Verdicts_Eager(d) == {"EXTEND", "ROLLBACK", "PROMOTE"}

(* evaluate_canary: with too few frames, or rows of only one of the two    *)
(* models, the verdict is EXTEND; confidence and latency decide the rest   *)
Verdicts(d) == IF canaryRows[d] < MinFrames THEN {"EXTEND"} ELSE {"EXTEND", "ROLLBACK", "PROMOTE"}

(* run_canary_evaluation_loop: from the router's status to the verdict,    *)
(* and from the verdict to the request it makes                            *)
LoopLooks ==
  /\ task[Loop].at = "idle"
  /\ router.on /\ router.frames >= MinFrames
  /\ Goto(Loop, "evaluate", router.dep)
  /\ UNCHANGED <<registry, deployments, router, canaryRows, inflight>>

LoopJudges ==
  /\ task[Loop].at = "evaluate"
  /\ \E verdict \in Verdicts(task[Loop].on) :
       IF verdict = "ROLLBACK" THEN Goto(Loop, "rollback", task[Loop].on)
       ELSE IF verdict = "PROMOTE" /\ AutoPromote THEN Goto(Loop, "promote", task[Loop].on)
       ELSE Done(Loop)
  /\ UNCHANGED <<registry, deployments, router, canaryRows, inflight>>

LoopActs ==
  \/ task[Loop].at = "rollback" /\ RollbackReads(Loop, task[Loop].on)
  \/ task[Loop].at = "promote" /\ PromoteReads(Loop, task[Loop].on)

Request(t, d) ==
  /\ task[t].at = "idle"
  /\ PromoteReads(t, d) \/ RollbackReads(t, d)

-----------------------------------------------------------------------------
(* route sends a frame to the canary; record counts it for whichever       *)
(* canary runs when the inference ends; record_canary_metric keeps a       *)
(* sample, under the deployment the frame was routed for                   *)
Route ==
  /\ router.on /\ inflight = 0
  /\ inflight' = router.dep
  /\ UNCHANGED <<registry, deployments, router, canaryRows, task>>

Record ==
  /\ inflight # 0
  /\ router' = IF router.on /\ router.frames < MinFrames
               THEN [router EXCEPT !.frames = @ + 1] ELSE router
  /\ \/ canaryRows[inflight] < MinFrames /\ canaryRows' = [canaryRows EXCEPT ![inflight] = @ + 1]
     \/ UNCHANGED canaryRows
  /\ inflight' = 0
  /\ UNCHANGED <<registry, deployments, task>>

Restart ==
  /\ router' = Off /\ inflight' = 0
  /\ task' = [t \in Tasks |-> NoTask]
  /\ UNCHANGED <<registry, deployments, canaryRows>>

RolloutNext ==
  \/ \E v \in Versions : RegisterModel(v)
  \/ \E t \in Operators :
       \/ \E v \in Versions : StartReads(t, v)
       \/ StartInserts(t) \/ StartRoutes(t)
       \/ \E d \in DOMAIN deployments : Request(t, d)
  \/ LoopLooks \/ LoopJudges \/ LoopActs
  \/ \E t \in Tasks : PromoteRegisters(t) \/ PromoteWrites(t) \/ RollbackStops(t) \/ RollbackWrites(t)
  \/ Route \/ Record \/ Restart

RolloutSpec == RolloutInit /\ [][RolloutNext]_rolloutVars

-----------------------------------------------------------------------------
(* The loop settles a deployment (writes its row as promoted or rolled     *)
(* back) only on enough frames of that deployment's own canary, whatever   *)
(* other canaries were started, counted late or stopped meanwhile:         *)
(* canary_evaluator.py:291 against deployment_manager.py:450.              *)
LoopJudgesMeasured ==
  [][\A d \in DOMAIN deployments :
       task[Loop].at \in {"promoted", "stopped"} /\ task[Loop].on = d /\ deployments'[d] # deployments[d]
         => canaryRows[d] >= MinFrames]_rolloutVars
=============================================================================
