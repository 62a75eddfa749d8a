--------------------------- MODULE PlatformProofs ---------------------------
(***************************************************************************)
(* Proofs about the services around the pipeline, for every value of the   *)
(* constants: the canary loop (Rollout), drift monitoring (Drift), the     *)
(* violation agent (Agent), the dashboard (Dashboard), outbound webhooks   *)
(* (Senders) and the video streams (LiveStream).                           *)
(***************************************************************************)
EXTENDS Rollout, Drift, Agent, Dashboard, Senders, LiveStream, FiniteSetTheorems, SequenceTheorems, TLAPS

-----------------------------------------------------------------------------
(* Rollout.  The nodes of the loop that lie behind its verdict, and what   *)
(* makes the verdict's deployment one whose canary has been measured: rows *)
(* of canary_metrics are never taken away, and only the loop itself takes  *)
(* its task to these nodes.                                                *)
Judged == {"rollback", "promote", "registry", "promoted", "stop", "stopped"}
RolloutWaits == {"idle", "insert", "route", "evaluate"} \cup Judged

RolloutInv ==
  /\ deployments \in Seq([version : Nat, stage : {"canary", "production", "archived"}])
  /\ Len(deployments) <= MaxDeployments
  /\ router \in [on : BOOLEAN, dep : Nat, frames : Nat]
  /\ router.on => router.dep \in Deployments
  /\ canaryRows \in [Deployments -> Nat]
  /\ inflight \in Deployments \cup {0}
  /\ task \in [Tasks -> [at : RolloutWaits, on : Nat]]
  /\ \A t \in Tasks : task[t].at \notin {"idle", "insert"} => task[t].on \in Deployments
  /\ task[Loop].at \in Judged => canaryRows[task[Loop].on] >= MinFrames
  /\ task[Loop].at \in {"idle", "evaluate"} \cup Judged

LEMMA RolloutStarts == RolloutInit => RolloutInv
  BY RolloutAssumption DEF RolloutInit, RolloutInv, Off, NoTask, Tasks, RolloutWaits, Judged

(* A task moves on to where its request leads it; the rest stays. *)
LEMMA TaskGoes ==
  ASSUME RolloutInv, NEW t \in Tasks, NEW where \in RolloutWaits, NEW what \in Nat, Goto(t, where, what),
         UNCHANGED <<router, canaryRows, inflight>>,
         deployments' \in Seq([version : Nat, stage : {"canary", "production", "archived"}]),
         Len(deployments') <= MaxDeployments,
         where \notin {"idle", "insert"} => what \in Deployments,
         t = Loop => /\ where \in {"idle", "evaluate"} \cup Judged
                     /\ where \in Judged => canaryRows[what] >= MinFrames
  PROVE  RolloutInv'
<1>1. /\ task' \in [Tasks -> [at : RolloutWaits, on : Nat]]
      /\ \A x \in Tasks : task'[x] = IF x = t THEN [at |-> where, on |-> what] ELSE task[x]
  BY DEF RolloutInv, Goto
<1>2. Loop \in Tasks
  BY DEF Tasks
<1> QED
  BY <1>1, <1>2 DEF RolloutInv

(* A task that is done, and whatever its last step changed elsewhere. *)
LEMMA TaskEnds ==
  ASSUME RolloutInv, NEW t \in Tasks, Done(t),
         deployments' \in Seq([version : Nat, stage : {"canary", "production", "archived"}]),
         Len(deployments') <= MaxDeployments,
         router' \in [on : BOOLEAN, dep : Nat, frames : Nat],
         router'.on => router'.dep \in Deployments,
         UNCHANGED <<canaryRows, inflight>>
  PROVE  RolloutInv'
<1>1. /\ task' \in [Tasks -> [at : RolloutWaits, on : Nat]]
      /\ \A x \in Tasks : task'[x] = IF x = t THEN [at |-> "idle", on |-> 0] ELSE task[x]
  BY DEF RolloutInv, Done, NoTask, RolloutWaits
<1>2. Loop \in Tasks
  BY DEF Tasks
<1> QED
  BY <1>1, <1>2 DEF RolloutInv, Judged

LEMMA StageSet ==
  ASSUME RolloutInv, NEW d \in Nat, NEW stage \in {"canary", "production", "archived"}, SetStage(d, stage)
  PROVE  /\ deployments' \in Seq([version : Nat, stage : {"canary", "production", "archived"}])
         /\ Len(deployments') <= MaxDeployments
<1> DEFINE R == [version : Nat, stage : {"canary", "production", "archived"}]
<1>1. deployments \in Seq(R) /\ DOMAIN deployments = 1..Len(deployments) /\ Len(deployments) \in Nat
  BY DEF RolloutInv
<1>2. /\ deployments' = [i \in 1..Len(deployments) |->
                           IF i = d THEN [deployments[i] EXCEPT !.stage = stage] ELSE deployments[i]]
  BY <1>1 DEF SetStage
<1>3. \A i \in 1..Len(deployments) : deployments[i] \in R /\ [deployments[i] EXCEPT !.stage = stage] \in R
  <2> SUFFICES ASSUME NEW i \in 1..Len(deployments) PROVE deployments[i] \in R /\ [deployments[i] EXCEPT !.stage = stage] \in R
    OBVIOUS
  <2>1. deployments[i] \in R
    BY <1>1, ElementOfSeq
  <2> QED
    BY <2>1
<1>4. deployments' \in Seq(R)
  BY <1>1, <1>2, <1>3
<1>5. Len(deployments') = Len(deployments)
  BY <1>1, <1>2, <1>4
<1> QED
  BY <1>4, <1>5 DEF RolloutInv

LEMMA StartKeeps ==
  ASSUME RolloutInv, NEW t \in Operators,
         (\E v \in Versions : StartReads(t, v)) \/ StartInserts(t) \/ StartRoutes(t)
  PROVE  RolloutInv'
<1>1. t \in Tasks /\ t # Loop /\ task[t].on \in Nat
  BY RolloutAssumption DEF Tasks, RolloutInv
<1>2. CASE \E v \in Versions : StartReads(t, v)
  <2>1. PICK v \in Versions : StartReads(t, v)
    BY <1>2
  <2>2. v \in Nat /\ "insert" \in RolloutWaits
    BY DEF Versions, RolloutWaits
  <2> QED
    BY <1>1, <2>1, <2>2, TaskGoes DEF StartReads, RolloutInv
<1>3. CASE StartInserts(t)
  <2>1. CASE UNCHANGED deployments /\ Done(t)
    BY <1>1, <1>3, <2>1, TaskEnds DEF StartInserts, RolloutInv
  <2>2. CASE /\ Len(deployments) < MaxDeployments
             /\ deployments' = Append(deployments, [version |-> task[t].on, stage |-> "canary"])
             /\ Goto(t, "route", Len(deployments) + 1)
    <3>1. /\ deployments' \in Seq([version : Nat, stage : {"canary", "production", "archived"}])
          /\ Len(deployments') <= MaxDeployments
      BY <1>1, <2>2, RolloutAssumption DEF RolloutInv
    <3>2. Len(deployments) + 1 \in Deployments /\ Len(deployments) + 1 \in Nat /\ "route" \in RolloutWaits
      BY <2>2, RolloutAssumption DEF RolloutInv, Deployments, RolloutWaits
    <3>3. UNCHANGED <<router, canaryRows, inflight>>
      BY <1>3 DEF StartInserts
    <3> QED
      BY <1>1, <2>2, <3>1, <3>2, <3>3, TaskGoes
  <2> QED
    BY <1>3, <2>1, <2>2 DEF StartInserts
<1>4. CASE StartRoutes(t)
  <2>1. task[t].on \in Deployments
    BY <1>1, <1>4 DEF StartRoutes, RolloutInv
  <2>2. router' \in [on : BOOLEAN, dep : Nat, frames : Nat] /\ router'.dep \in Deployments
    BY <1>1, <1>4, <2>1 DEF StartRoutes
  <2> QED
    BY <1>1, <1>4, <2>2, TaskEnds DEF StartRoutes, RolloutInv
<1> QED
  BY <1>2, <1>3, <1>4

(* An operator's request starts for any deployment, the loop's only for    *)
(* the one it has judged.                                                  *)
LEMMA ReadsKeep ==
  ASSUME RolloutInv, NEW t \in Tasks, NEW d \in Deployments, PromoteReads(t, d) \/ RollbackReads(t, d),
         t = Loop => canaryRows[d] >= MinFrames
  PROVE  RolloutInv'
<1> DEFINE away == IsCanary(d)
           where == IF PromoteReads(t, d) /\ away THEN "registry" ELSE IF away THEN "stop" ELSE "idle"
           what == IF away THEN d ELSE 0
<1>1. Goto(t, where, what) /\ UNCHANGED <<deployments, router, canaryRows, inflight>>
  BY DEF PromoteReads, RollbackReads
<1>2. /\ where \in RolloutWaits /\ what \in Nat
      /\ where \notin {"idle", "insert"} => what = d
      /\ where \in Judged => what = d
      /\ where \in {"idle", "evaluate"} \cup Judged
  BY DEF RolloutWaits, Judged, Deployments
<1> HIDE DEF where, what
<1> QED
  BY <1>1, <1>2, TaskGoes DEF RolloutInv

LEMMA SettlingKeeps ==
  ASSUME RolloutInv, NEW t \in Tasks,
         PromoteRegisters(t) \/ PromoteWrites(t) \/ RollbackStops(t) \/ RollbackWrites(t)
  PROVE  RolloutInv'
<1>1. /\ task[t].on \in Nat /\ task[t].at \in Judged /\ task[t].on \in Deployments
      /\ t = Loop => canaryRows[task[t].on] >= MinFrames
  BY DEF RolloutInv, PromoteRegisters, PromoteWrites, RollbackStops, RollbackWrites, Judged
<1>2. Off \in [on : BOOLEAN, dep : Nat, frames : Nat] /\ ~Off.on
  BY DEF Off
<1>3. "promoted" \in RolloutWaits /\ "stopped" \in RolloutWaits /\ {"promoted", "stopped"} \subseteq Judged
  BY DEF RolloutWaits, Judged
<1>4. CASE PromoteRegisters(t)
  <2>1. CASE Done(t)
    BY <1>4, <2>1, TaskEnds DEF PromoteRegisters, RolloutInv
  <2>2. CASE Goto(t, "promoted", task[t].on)
    BY <1>1, <1>3, <1>4, <2>2, TaskGoes DEF PromoteRegisters, RolloutInv
  <2> QED
    BY <1>4, <2>1, <2>2 DEF PromoteRegisters
<1>5. CASE PromoteWrites(t)
  <2>1. /\ deployments' \in Seq([version : Nat, stage : {"canary", "production", "archived"}])
        /\ Len(deployments') <= MaxDeployments
    BY <1>1, <1>5, StageSet DEF PromoteWrites, RolloutInv
  <2> QED
    BY <1>2, <1>5, <2>1, TaskEnds DEF PromoteWrites, RolloutInv
<1>6. CASE RollbackStops(t)
  <2>1. /\ task' = [task EXCEPT ![t] = [at |-> "stopped", on |-> task[t].on]]
        /\ UNCHANGED <<deployments, canaryRows, inflight>> /\ router' = Off
    BY <1>6 DEF RollbackStops, Goto
  <2>2. /\ task' \in [Tasks -> [at : RolloutWaits, on : Nat]]
        /\ \A x \in Tasks : task'[x] = IF x = t THEN [at |-> "stopped", on |-> task[t].on] ELSE task[x]
    BY <1>1, <1>3, <2>1 DEF RolloutInv
  <2>3. Loop \in Tasks
    BY DEF Tasks
  <2> QED
    BY <1>1, <1>2, <1>3, <2>1, <2>2, <2>3 DEF RolloutInv
<1>7. CASE RollbackWrites(t)
  <2>1. /\ deployments' \in Seq([version : Nat, stage : {"canary", "production", "archived"}])
        /\ Len(deployments') <= MaxDeployments
    BY <1>1, <1>7, StageSet DEF RollbackWrites, RolloutInv
  <2> QED
    BY <1>7, <2>1, TaskEnds DEF RollbackWrites, RolloutInv
<1> QED
  BY <1>4, <1>5, <1>6, <1>7

LEMMA LoopKeeps == ASSUME RolloutInv, LoopLooks \/ LoopJudges \/ LoopActs PROVE RolloutInv'
<1>1. Loop \in Tasks /\ task[Loop].on \in Nat /\ router.dep \in Nat
  BY DEF Tasks, RolloutInv
<1>2. CASE LoopLooks
  <2>1. router.dep \in Deployments /\ "evaluate" \in RolloutWaits /\ "evaluate" \notin Judged
    BY <1>2 DEF LoopLooks, RolloutInv, RolloutWaits, Judged
  <2> QED
    BY <1>1, <1>2, <2>1, TaskGoes DEF LoopLooks, RolloutInv
<1>3. CASE LoopJudges
  <2>1. task[Loop].at = "evaluate" /\ task[Loop].on \in Deployments
    BY <1>1, <1>3 DEF LoopJudges, RolloutInv
  <2>2. PICK verdict \in Verdicts(task[Loop].on) :
          IF verdict = "ROLLBACK" THEN Goto(Loop, "rollback", task[Loop].on)
          ELSE IF verdict = "PROMOTE" /\ AutoPromote THEN Goto(Loop, "promote", task[Loop].on)
          ELSE Done(Loop)
    BY <1>3 DEF LoopJudges
  <2>3. verdict # "EXTEND" => canaryRows[task[Loop].on] >= MinFrames
    BY <2>1, <2>2, RolloutAssumption DEF Verdicts, RolloutInv
  <2>4. UNCHANGED <<deployments, router, canaryRows, inflight>>
    BY <1>3 DEF LoopJudges
  <2>5. {"rollback", "promote"} \subseteq RolloutWaits \cap Judged
    BY DEF RolloutWaits, Judged
  <2>6. CASE Done(Loop)
    BY <1>1, <2>4, <2>6, TaskEnds DEF RolloutInv
  <2>7. CASE verdict = "ROLLBACK" /\ Goto(Loop, "rollback", task[Loop].on)
    BY <1>1, <2>1, <2>3, <2>4, <2>5, <2>7, TaskGoes DEF RolloutInv
  <2>8. CASE verdict = "PROMOTE" /\ Goto(Loop, "promote", task[Loop].on)
    BY <1>1, <2>1, <2>3, <2>4, <2>5, <2>8, TaskGoes DEF RolloutInv
  <2> QED
    BY <2>2, <2>6, <2>7, <2>8
<1>4. CASE LoopActs
  <2>1. task[Loop].on \in Deployments /\ canaryRows[task[Loop].on] >= MinFrames
    BY <1>1, <1>4 DEF LoopActs, RolloutInv, Judged
  <2> QED
    BY <1>1, <1>4, <2>1, ReadsKeep DEF LoopActs
<1> QED
  BY <1>2, <1>3, <1>4

(* Frames are counted for whichever canary runs, and their rows only grow. *)
LEMMA FramesKeep == ASSUME RolloutInv, Route \/ Record PROVE RolloutInv'
<1>1. CASE Route
  BY <1>1 DEF Route, RolloutInv
<1>2. CASE Record
  <2>1. inflight \in Deployments /\ inflight' = 0 /\ UNCHANGED <<deployments, task>>
    BY <1>2 DEF Record, RolloutInv
  <2>2. canaryRows' \in [Deployments -> Nat] /\ \A d \in Deployments : canaryRows'[d] >= canaryRows[d]
    <3>1. canaryRows' = canaryRows \/ canaryRows' = [canaryRows EXCEPT ![inflight] = @ + 1]
      BY <1>2 DEF Record
    <3>2. canaryRows \in [Deployments -> Nat]
      BY DEF RolloutInv
    <3> QED
      BY <2>1, <3>1, <3>2
  <2>3. router' \in [on : BOOLEAN, dep : Nat, frames : Nat] /\ router'.on = router.on /\ router'.dep = router.dep
    <3>1. router' = router \/ router' = [router EXCEPT !.frames = @ + 1]
      BY <1>2 DEF Record
    <3>2. router \in [on : BOOLEAN, dep : Nat, frames : Nat]
      BY DEF RolloutInv
    <3> QED
      BY <3>1, <3>2
  <2>4. task[Loop].at \in Judged => canaryRows'[task[Loop].on] >= MinFrames
    <3>1. Loop \in Tasks /\ (task[Loop].at \in Judged => task[Loop].on \in Deployments)
      BY DEF Tasks, RolloutInv, Judged
    <3> QED
      BY <2>2, <3>1, RolloutAssumption DEF RolloutInv
  <2> QED
    BY <2>1, <2>2, <2>3, <2>4 DEF RolloutInv
<1> QED
  BY <1>1, <1>2

LEMMA RolloutStep == RolloutInv /\ [RolloutNext]_rolloutVars => RolloutInv'
<1> SUFFICES ASSUME RolloutInv, [RolloutNext]_rolloutVars PROVE RolloutInv'
  OBVIOUS
<1>1. CASE UNCHANGED <<deployments, router, canaryRows, inflight, task>>
  BY <1>1 DEF RolloutInv
<1>2. ASSUME NEW v \in Versions, RegisterModel(v) PROVE RolloutInv'
  BY <1>1, <1>2 DEF RegisterModel
<1>3. ASSUME NEW t \in Operators, (\E v \in Versions : StartReads(t, v)) \/ StartInserts(t) \/ StartRoutes(t)
      PROVE  RolloutInv'
  BY <1>3, StartKeeps
<1>4. ASSUME NEW t \in Operators, NEW d \in DOMAIN deployments, Request(t, d) PROVE RolloutInv'
  <2>1. t \in Tasks /\ t # Loop /\ d \in Deployments
    BY RolloutAssumption DEF Tasks, RolloutInv, Deployments
  <2> QED
    BY <1>4, <2>1, ReadsKeep DEF Request
<1>5. CASE LoopLooks \/ LoopJudges \/ LoopActs
  BY <1>5, LoopKeeps
<1>6. ASSUME NEW t \in Tasks, PromoteRegisters(t) \/ PromoteWrites(t) \/ RollbackStops(t) \/ RollbackWrites(t)
      PROVE  RolloutInv'
  BY <1>6, SettlingKeeps
<1>7. CASE Route \/ Record
  BY <1>7, FramesKeep
<1>8. CASE Restart
  BY <1>8 DEF Restart, RolloutInv, Off, NoTask, Tasks, RolloutWaits, Judged
<1>9. CASE UNCHANGED rolloutVars
  BY <1>1, <1>9 DEF rolloutVars
<1> QED
  BY <1>2, <1>3, <1>4, <1>5, <1>6, <1>7, <1>8, <1>9 DEF RolloutNext

(* The loop settles no deployment on frames of another one's canary, for   *)
(* any number of operators, versions and deployments                       *)
(* (canary_evaluator.py:291, deployment_manager.py:450).                   *)
THEOREM LoopAlwaysJudgesMeasured == RolloutSpec => LoopJudgesMeasured
<1>1. RolloutInv /\ [RolloutNext]_rolloutVars =>
        [\A d \in DOMAIN deployments :
           task[Loop].at \in {"promoted", "stopped"} /\ task[Loop].on = d /\ deployments'[d] # deployments[d]
             => canaryRows[d] >= MinFrames]_rolloutVars
  BY DEF RolloutInv, Judged
<1> QED
  BY RolloutStarts, RolloutStep, <1>1, PTL DEF RolloutSpec, LoopJudgesMeasured

-----------------------------------------------------------------------------
(* Drift.  Whatever counts frames of a day (the accumulator, a summary on  *)
(* its way to the table, the row) counts at most those that happened on    *)
(* that day, which only grow in number.  A check under way has asked for a *)
(* day that is over, and what it holds was judged on that day's row.       *)
Stats == [frames : Nat, seen : Nat]
AtMostHappened(stats, d) == stats \in Stats /\ stats.seen <= happened[d].seen

HadEnough(d) == happened[d].seen >= Enough
CheckInv ==
  /\ check.at # "idle" => check.of \in Days /\ check.of < day
  /\ check.at = "judged" => check.of < check.on /\ (check.drifted => HadEnough(check.of))
ResultsInv == \A r \in results : r.of \in Days /\ (r.retrain => r.of < r.on /\ HadEnough(r.of))

DriftInv ==
  /\ day \in 0..(LastFrameDay + 1)
  /\ happened \in [Days -> Stats]
  /\ acc \in [date : 0..(LastFrameDay + 1), stats : Stats]
  /\ acc.date \in Days => AtMostHappened(acc.stats, acc.date)
  /\ flushing \in [Flushers -> {NoSummary} \cup [date : Days, stats : Stats]]
  /\ \A f \in Flushers : flushing[f] # NoSummary => AtMostHappened(flushing[f].stats, flushing[f].date)
  /\ daily \in [Days -> [stored : BOOLEAN, stats : Stats]]
  /\ \A d \in Days : AtMostHappened(daily[d].stats, d)
  /\ CheckInv /\ ResultsInv

LEMMA DriftStarts == DriftInit => DriftInv
  BY DriftAssumption DEF DriftInit, DriftInv, Empty, NoSummary, NoRow, Days, Stats, AtMostHappened, CheckInv, NoCheck, ResultsInv

LEMMA CountedMore ==
  ASSUME NEW s \in Stats, NEW seen \in BOOLEAN
  PROVE  /\ Counted(s, seen) \in Stats
         /\ Counted(s, seen).seen = s.seen + (IF seen THEN 1 ELSE 0)
         /\ Counted(s, seen).seen >= s.seen
  BY DEF Counted, Stats

LEMMA EmptyStats == Empty \in Stats /\ Empty.seen = 0
  BY DEF Empty, Stats

(* The check says "drifted" only on as many detections as it asks for. *)
LEMMA EnoughSeen ==
  ASSUME NEW stats \in Stats, NEW conf, NEW class, NEW ks, Detects(stats, conf, class, ks)
  PROVE  stats.seen >= Enough
<1>1. stats.seen \in Nat
  BY DEF Stats
<1>2. \E x \in {stats.seen, MaxSamples} : \A y \in {stats.seen, MaxSamples} : x <= y
  BY <1>1, DriftAssumption
<1>3. SamplesOf(stats) \in {stats.seen, MaxSamples} /\ SamplesOf(stats) <= stats.seen
  BY <1>2 DEF SamplesOf, Min
<1> QED
  BY <1>1, <1>3, DriftAssumption DEF Detects

LEMMA RecordFrameKeeps == ASSUME DriftInv, NEW seen \in BOOLEAN, RecordFrame(seen) PROVE DriftInv'
<1>1. /\ day \in Days /\ happened' = [happened EXCEPT ![day] = Counted(happened[day], seen)]
      /\ acc' = Accumulated(seen) /\ UNCHANGED <<day, flushing, daily, check, results>>
  BY DEF RecordFrame
<1>2. /\ happened' \in [Days -> Stats]
      /\ \A d \in Days : happened[d].seen \in Nat /\ happened'[d].seen \in Nat /\ happened'[d].seen >= happened[d].seen
      /\ happened'[day] = Counted(happened[day], seen)
  <2>1. \A d \in Days : happened[d] \in Stats
    BY DEF DriftInv
  <2>2. /\ Counted(happened[day], seen) \in Stats
        /\ Counted(happened[day], seen).seen >= happened[day].seen
    BY <1>1, <2>1, CountedMore
  <2>3. happened' \in [Days -> Stats] /\ \A d \in Days : happened'[d] = IF d = day THEN Counted(happened[day], seen) ELSE happened[d]
    BY <1>1, <2>2 DEF DriftInv
  <2>4. \A d \in Days : happened[d].seen \in Nat /\ happened'[d].seen \in Nat
    BY <2>1, <2>3 DEF Stats
  <2> QED
    BY <1>1, <2>2, <2>3, <2>4
<1>3. ASSUME NEW stats, NEW d \in Days, AtMostHappened(stats, d) PROVE AtMostHappened(stats, d)'
  BY <1>2, <1>3 DEF AtMostHappened, Stats
<1>4. acc' \in [date : 0..(LastFrameDay + 1), stats : Stats] /\ acc'.date = day /\ AtMostHappened(acc.stats, acc.date)'
  <2>1. happened[day] \in Stats /\ happened'[day].seen = happened[day].seen + (IF seen THEN 1 ELSE 0)
    BY <1>1, <1>2, CountedMore DEF DriftInv
  <2>2. CASE acc.date # day
    <3>1. acc' = [date |-> day, stats |-> Counted(Empty, seen)]
      BY <1>1, <2>2 DEF Accumulated
    <3>2. Counted(Empty, seen) \in Stats /\ Counted(Empty, seen).seen = 0 + (IF seen THEN 1 ELSE 0)
      BY CountedMore, EmptyStats
    <3>3. happened[day].seen \in Nat
      BY <2>1 DEF Stats
    <3> QED
      BY <1>1, <2>1, <3>1, <3>2, <3>3 DEF AtMostHappened, DriftInv
  <2>3. CASE acc.date = day
    <3>1. acc.stats \in Stats /\ acc.stats.seen <= happened[day].seen /\ acc \in [date : 0..(LastFrameDay + 1), stats : Stats]
      BY <1>1, <2>3 DEF DriftInv, AtMostHappened
    <3>2. acc' = [acc EXCEPT !.stats = Counted(acc.stats, seen)]
      BY <1>1, <2>3 DEF Accumulated
    <3>3. Counted(acc.stats, seen) \in Stats /\ Counted(acc.stats, seen).seen = acc.stats.seen + (IF seen THEN 1 ELSE 0)
      BY <3>1, CountedMore
    <3>4. acc' \in [date : 0..(LastFrameDay + 1), stats : Stats] /\ acc'.date = day /\ acc'.stats = Counted(acc.stats, seen)
      BY <2>3, <3>1, <3>2, <3>3
    <3>5. acc.stats.seen \in Nat /\ happened[day].seen \in Nat
      BY <2>1, <3>1 DEF Stats
    <3> QED
      BY <2>1, <3>1, <3>3, <3>4, <3>5 DEF AtMostHappened
  <2> QED
    BY <2>2, <2>3
<1>5. \A f \in Flushers : flushing'[f] # NoSummary => AtMostHappened(flushing[f].stats, flushing[f].date)'
  <2> SUFFICES ASSUME NEW f \in Flushers, flushing[f] # NoSummary PROVE AtMostHappened(flushing[f].stats, flushing[f].date)'
    BY <1>1
  <2>1. flushing[f].date \in Days /\ AtMostHappened(flushing[f].stats, flushing[f].date)
    BY DEF DriftInv
  <2> QED
    BY <1>1, <1>3, <2>1
<1>6. \A d \in Days : AtMostHappened(daily[d].stats, d)'
  BY <1>1, <1>3 DEF DriftInv
<1>7. \A d \in Days : HadEnough(d) => HadEnough(d)'
  BY <1>2, DriftAssumption DEF HadEnough
<1>8. CheckInv' /\ ResultsInv'
  BY <1>1, <1>7 DEF DriftInv, CheckInv, ResultsInv
<1> QED
  BY <1>1, <1>2, <1>4, <1>5, <1>6, <1>8 DEF DriftInv

LEMMA FlushKeeps == ASSUME DriftInv, NEW f \in Flushers, TakeSummary(f) \/ FlushStats(f) PROVE DriftInv'
<1>1. UNCHANGED <<day, happened, acc, check, results>>
  BY DEF TakeSummary, FlushStats
<1>2. CASE TakeSummary(f)
  <2>1. acc \in [date : Days, stats : Stats] /\ AtMostHappened(acc.stats, acc.date)
    BY <1>2 DEF TakeSummary, DriftInv
  <2>2. /\ flushing' \in [Flushers -> {NoSummary} \cup [date : Days, stats : Stats]]
        /\ \A g \in Flushers : flushing'[g] = IF g = f THEN acc ELSE flushing[g]
    BY <1>2, <2>1 DEF TakeSummary, DriftInv
  <2>3. daily' = daily
    BY <1>2 DEF TakeSummary
  <2> QED
    BY <1>1, <2>1, <2>2, <2>3 DEF DriftInv, AtMostHappened, CheckInv, ResultsInv, HadEnough
<1>3. CASE FlushStats(f)
  <2>1. /\ flushing' \in [Flushers -> {NoSummary} \cup [date : Days, stats : Stats]]
        /\ \A g \in Flushers : flushing'[g] = IF g = f THEN NoSummary ELSE flushing[g]
    BY <1>3 DEF FlushStats, DriftInv
  <2> DEFINE s == flushing[f]
  <2>2. s \in [date : Days, stats : Stats] /\ AtMostHappened(s.stats, s.date)
    BY <1>3 DEF FlushStats, DriftInv
  <2>3. daily' = daily \/ daily' = [daily EXCEPT ![s.date] = [stored |-> TRUE, stats |-> s.stats]]
    BY <1>3 DEF FlushStats
  <2>4. /\ daily' \in [Days -> [stored : BOOLEAN, stats : Stats]]
        /\ \A d \in Days : daily'[d].stats = daily[d].stats \/ (d = s.date /\ daily'[d].stats = s.stats)
    <3> DEFINE row == [stored |-> TRUE, stats |-> s.stats]
    <3>1. row \in [stored : BOOLEAN, stats : Stats] /\ row.stats = s.stats /\ s.date \in Days
      BY <2>2
    <3>2. daily \in [Days -> [stored : BOOLEAN, stats : Stats]] /\ (daily' = daily \/ daily' = [daily EXCEPT ![s.date] = row])
      BY <2>3 DEF DriftInv
    <3> HIDE DEF row
    <3> QED
      BY <3>1, <3>2
  <2>5. \A d \in Days : AtMostHappened(daily[d].stats, d)'
    BY <1>1, <2>2, <2>4 DEF DriftInv, AtMostHappened
  <2> QED
    BY <1>1, <2>1, <2>4, <2>5 DEF DriftInv, AtMostHappened, CheckInv, ResultsInv, HadEnough
<1> QED
  BY <1>2, <1>3

(* The machine stops and starts again: an accumulator of no frames. *)
LEMMA RestartLoggerKeeps == ASSUME DriftInv, RestartLogger PROVE DriftInv'
<1>1. acc' = [date |-> day, stats |-> Empty] /\ UNCHANGED <<day, happened, daily, check, results>>
  BY DEF RestartLogger
<1>2. /\ flushing' \in [Flushers -> {NoSummary} \cup [date : Days, stats : Stats]]
      /\ \A f \in Flushers : flushing'[f] = NoSummary
  BY DEF RestartLogger
<1>3. \A d \in Days : happened[d].seen \in Nat
  BY DEF DriftInv, Stats
<1> QED
  BY <1>1, <1>2, <1>3, EmptyStats DEF DriftInv, AtMostHappened, CheckInv, ResultsInv, HadEnough

LEMMA CheckKeeps ==
  ASSUME DriftInv, CheckReads \/ CheckSelects \/ CheckSkipped \/ SaveResult
  PROVE  DriftInv'
<1>1. UNCHANGED <<day, happened, acc, flushing, daily>>
  BY DEF CheckReads, CheckSelects, CheckSkipped, SaveResult
<1>2. CheckInv' /\ ResultsInv'
  <2>1. CASE CheckReads
    <3>1. day - 1 \in Days /\ day - 1 < day
      BY <2>1, DriftAssumption DEF CheckReads, DriftInv, Days
    <3>2. check'.at = "asked" /\ check'.of = day - 1 /\ UNCHANGED <<day, happened, results>>
      BY <2>1 DEF CheckReads, NoCheck
    <3> QED
      BY <3>1, <3>2 DEF DriftInv, CheckInv, ResultsInv, HadEnough
  <2>2. CASE CheckSelects
    <3> DEFINE d == check.of
    <3>1. d \in Days /\ d < day
      BY <2>2 DEF CheckSelects, DriftInv, CheckInv
    <3>2. PICK conf, class, ks :
            check' = [at |-> "judged", of |-> d, on |-> day, drifted |-> Detects(daily[d].stats, conf, class, ks)]
      BY <2>2 DEF CheckSelects
    <3>3. daily[d].stats \in Stats /\ daily[d].stats.seen <= happened[d].seen /\ happened[d] \in Stats
      BY <3>1 DEF DriftInv, AtMostHappened
    <3>4. Detects(daily[d].stats, conf, class, ks) => daily[d].stats.seen >= Enough
      BY <3>3, EnoughSeen
    <3>5. check'.drifted => HadEnough(d)
      BY <3>2, <3>3, <3>4, DriftAssumption DEF Stats, HadEnough
    <3>6. check'.at = "judged" /\ check'.of = d /\ check'.on = day /\ UNCHANGED <<day, happened, results>>
      BY <2>2, <3>2 DEF CheckSelects
    <3> QED
      BY <3>1, <3>5, <3>6 DEF DriftInv, CheckInv, ResultsInv, HadEnough
  <2>3. CASE CheckSkipped
    BY <2>3 DEF CheckSkipped, NoCheck, DriftInv, CheckInv, ResultsInv, HadEnough
  <2>4. CASE SaveResult
    <3> DEFINE new == [on |-> check.on, of |-> check.of, drifted |-> check.drifted, retrain |-> check.drifted]
    <3>1. check' = NoCheck /\ results' \subseteq results \cup {new} /\ happened' = happened
      BY <2>4 DEF SaveResult
    <3>2. new.of \in Days /\ (new.retrain => new.of < new.on /\ HadEnough(new.of))
      BY <2>4 DEF SaveResult, DriftInv, CheckInv
    <3> HIDE DEF new
    <3> QED
      BY <3>1, <3>2 DEF DriftInv, CheckInv, ResultsInv, HadEnough, NoCheck
  <2> QED
    BY <2>1, <2>2, <2>3, <2>4
<1> QED
  BY <1>1, <1>2 DEF DriftInv, AtMostHappened

LEMMA DriftStep == DriftInv /\ [DriftNext]_driftVars => DriftInv'
<1> SUFFICES ASSUME DriftInv, [DriftNext]_driftVars PROVE DriftInv'
  OBVIOUS
<1>1. CASE UNCHANGED <<happened, acc, flushing, daily, check, results>> /\ day' \in {day, day + 1} \cap 0..(LastFrameDay + 1)
  <2>1. day \in Nat /\ day' \in Nat /\ day <= day' /\ Days \subseteq Nat
    BY <1>1 DEF DriftInv, Days
  <2>2. ResultsInv' /\ \A d \in Days : HadEnough(d)' = HadEnough(d)
    BY <1>1 DEF DriftInv, ResultsInv, HadEnough
  <2>3. ASSUME check.at # "idle" PROVE check.of \in Days /\ check.of < day'
    <3>1. check.of \in Days /\ check.of < day
      BY <2>3 DEF DriftInv, CheckInv
    <3>2. check.of \in Nat
      BY <2>1, <3>1
    <3> DEFINE c == check.of
               today_ == day'
    <3>3. c \in Nat /\ c < day /\ day \in Nat /\ today_ \in Nat /\ day <= today_
      BY <2>1, <3>1, <3>2
    <3> HIDE DEF c, today_
    <3>4. c < today_
      BY <3>3
    <3> QED
      BY <3>1, <3>4 DEF c, today_
  <2>4. CheckInv'
    BY <1>1, <2>2, <2>3 DEF DriftInv, CheckInv, HadEnough
  <2> QED
    BY <1>1, <2>2, <2>4 DEF DriftInv, AtMostHappened
<1>2. CASE IntervalOver \/ NextDay \/ SaveReference \/ CorruptReference \/ UNCHANGED driftVars
  BY <1>1, <1>2, DriftAssumption DEF IntervalOver, NextDay, SaveReference, CorruptReference, driftVars, DriftInv
<1>3. ASSUME NEW seen \in BOOLEAN, RecordFrame(seen) PROVE DriftInv'
  BY <1>3, RecordFrameKeeps
<1>4. ASSUME NEW f \in Flushers, TakeSummary(f) \/ FlushStats(f) PROVE DriftInv'
  BY <1>4, FlushKeeps
<1>5. CASE RestartLogger
  BY <1>5, RestartLoggerKeeps
<1>6. CASE CheckReads \/ CheckSelects \/ CheckSkipped \/ SaveResult
  BY <1>6, CheckKeeps
<1> QED
  BY <1>2, <1>3, <1>4, <1>5, <1>6 DEF DriftNext

(* Retraining is asked for only after a day with enough detections of its  *)
(* own, for any number of days, frames and overlapping flushes and for any *)
(* midnights within the check (inference_logger.py:99,                     *)
(* drift_reporter.py:107, :385).                                           *)
THEOREM RetrainAlwaysHasADay == DriftSpec => []RetrainHasADay
<1>1. DriftInv => RetrainHasADay
  BY DEF DriftInv, ResultsInv, RetrainHasADay, HadEnough
<1> QED
  BY DriftStarts, DriftStep, <1>1, PTL DEF DriftSpec

-----------------------------------------------------------------------------
(* Agent.  Every path of a run to the nodes behind the report, and behind  *)
(* the alert, goes through them when its score or its level demands it;    *)
(* what failed on the way does not count.                                  *)
Nodes == {"idle", "detect", "history", "score", "decide", "report", "alert", "log", "compliance", "done"}
AlertLevels == {"", "NONE", "LOW", "MEDIUM", "HIGH", "CRITICAL"}
AgentState ==
  [at : Nodes, class : Classes, repeat : BOOLEAN, score : Int, level : AlertLevels, sent : BOOLEAN,
   failed : BOOLEAN, trace : SUBSET Nodes, status : {"RUNNING", "COMPLETE", "COMPLETE_WITH_ERRORS", "TIMEOUT", "FAILED"}]

WentThrough(st) ==
  /\ st.at \in {"alert", "log", "compliance"} /\ ShouldReportRun(st) => "report" \in st.trace
  /\ st.at \in {"log", "compliance"} /\ ShouldAlert(st) => "alert" \in st.trace

AgentInv ==
  /\ run \in [Runs -> {NotRun} \cup AgentState]
  /\ \A r \in Runs : WentThrough(run[r])
  /\ DangerIsRaised

LEMMA AgentStarts == AgentInit => AgentInv
  BY DEF AgentInit, AgentInv, NotRun, WentThrough, DangerIsRaised

(* One run takes a step, and the rows stay or get one of a run that is at  *)
(* its log node.                                                           *)
LEMMA RunGoes ==
  ASSUME AgentInv, NEW r \in Runs, NEW st \in AgentState, run' = [run EXCEPT ![r] = st], WentThrough(st),
         agentRuns' = agentRuns \/ (agentRuns' = agentRuns \cup {RunRow(r)} /\ run[r].at = "log")
  PROVE  AgentInv'
<1>1. run' \in [Runs -> {NotRun} \cup AgentState] /\ \A x \in Runs : run'[x] = IF x = r THEN st ELSE run[x]
  BY DEF AgentInv
<1>2. \A x \in Runs : WentThrough(run'[x])
  BY <1>1 DEF AgentInv
<1>3. WentThrough(run[r])
  BY DEF AgentInv
<1>4. DangerIsRaised'
  BY <1>3 DEF AgentInv, DangerIsRaised, RunRow, WentThrough, ShouldAlert, ShouldReportRun
<1> QED
  BY <1>1, <1>2, <1>4 DEF AgentInv, WentThrough, ShouldAlert, ShouldReportRun

LEMMA Keeps ==
  ASSUME NEW st \in AgentState, NEW node \in Nodes
  PROVE  /\ Keep(st, node) \in AgentState
         /\ Keep(st, node).at = node /\ Keep(st, node).trace = st.trace \cup {st.at}
         /\ Keep(st, node).score = st.score /\ Keep(st, node).level = st.level
  BY DEF Keep, AgentState

LEMMA ScoreIsNumber == \A class \in Classes, repeat \in BOOLEAN : RuleScore(class, repeat) \in Int
  BY DEF RuleScore

LEMMA AgentStep == AgentInv /\ [AgentNext]_agentVars => AgentInv'
<1> SUFFICES ASSUME AgentInv, [AgentNext]_agentVars PROVE AgentInv'
  OBVIOUS
<1>1. CASE UNCHANGED <<run, agentRuns>>
  BY <1>1 DEF AgentInv, DangerIsRaised, WentThrough, ShouldAlert, ShouldReportRun
<1>2. \A r \in Runs : run[r].at # "idle" => run[r] \in AgentState
  BY DEF AgentInv, NotRun
<1>3. \A r \in Runs : WentThrough(run[r])
  BY DEF AgentInv
<1>4. ASSUME NEW c \in Clients, NEW r \in Runs, NEW class \in Classes, TriggerAgent(c, r, class) PROVE AgentInv'
  <2> DEFINE start == [at |-> "detect", class |-> class, repeat |-> FALSE, score |-> 0, level |-> "",
                       sent |-> FALSE, failed |-> FALSE, trace |-> {}, status |-> "RUNNING"]
  <2>1. UNCHANGED agentRuns /\ (UNCHANGED run \/ run' = [run EXCEPT ![r] = start])
    BY <1>4 DEF TriggerAgent
  <2>2. start \in AgentState /\ WentThrough(start)
    BY DEF AgentState, Nodes, AlertLevels, WentThrough
  <2> QED
    BY <1>1, <2>1, <2>2, RunGoes
<1>5. ASSUME NEW r \in Runs, DetectViolation(r) PROVE AgentInv'
  <2>1. run[r] \in AgentState /\ run' = [run EXCEPT ![r] = Keep(run[r], "history")] /\ UNCHANGED agentRuns
    BY <1>2, <1>5 DEF DetectViolation
  <2>2. Keep(run[r], "history") \in AgentState /\ WentThrough(Keep(run[r], "history"))
    BY <2>1, Keeps DEF Nodes, WentThrough
  <2> QED
    BY <2>1, <2>2, RunGoes
<1>6. ASSUME NEW r \in Runs, CheckWorkerHistory(r) PROVE AgentInv'
  <2> DEFINE k == Keep(run[r], "score")
             st == [k EXCEPT !.repeat = FALSE, !.failed = TRUE]
  <2>1. run[r] \in AgentState /\ run' = [run EXCEPT ![r] = st] /\ UNCHANGED agentRuns
    BY <1>2, <1>6 DEF CheckWorkerHistory
  <2>2. k \in AgentState /\ k.at = "score"
    BY <2>1, Keeps DEF Nodes
  <2> HIDE DEF k
  <2>3. st \in AgentState /\ WentThrough(st)
    BY <2>2 DEF AgentState, WentThrough
  <2> QED
    BY <2>1, <2>3, RunGoes
<1>7. ASSUME NEW r \in Runs, ScoreSeverity(r) PROVE AgentInv'
  <2>1. run[r] \in AgentState /\ UNCHANGED agentRuns
    BY <1>2, <1>7 DEF ScoreSeverity
  <2> DEFINE k == Keep(run[r], "decide")
  <2>2. PICK s \in LlmScores \cup {RuleScore(run[r].class, run[r].repeat)} :
          run' = [run EXCEPT ![r] = [k EXCEPT !.score = Clamped(s)]]
    BY <1>7 DEF ScoreSeverity
  <2>3. Clamped(s) \in Int
    <3>1. run[r].class \in Classes /\ run[r].repeat \in BOOLEAN
      BY <2>1 DEF AgentState
    <3>2. s \in Int
      BY <3>1, AgentAssumption, ScoreIsNumber
    <3> QED
      BY <3>2 DEF Clamped
  <2>4. k \in AgentState /\ k.at = "decide"
    BY <2>1, Keeps DEF Nodes
  <2> HIDE DEF k
  <2> DEFINE st == [k EXCEPT !.score = Clamped(s)]
  <2>5. st \in AgentState /\ WentThrough(st)
    BY <2>3, <2>4 DEF AgentState, WentThrough
  <2> QED
    BY <2>1, <2>2, <2>5, RunGoes
<1>8. ASSUME NEW r \in Runs, DecideAlertLevel(r) PROVE AgentInv'
  <2> DEFINE decided == [run[r] EXCEPT !.level = AlertLevel(run[r].score, run[r].repeat)]
             st == Keep(decided, RouteAfterDecide(decided))
  <2>1. run[r] \in AgentState /\ run' = [run EXCEPT ![r] = st] /\ UNCHANGED agentRuns
    BY <1>2, <1>8 DEF DecideAlertLevel
  <2>2. AlertLevel(run[r].score, run[r].repeat) \in AlertLevels
    BY DEF AlertLevel, AlertLevels
  <2>3. decided \in AgentState
    BY <2>1, <2>2 DEF AgentState
  <2> HIDE DEF decided
  <2>4. RouteAfterDecide(decided) \in {"report", "alert"} /\ (RouteAfterDecide(decided) = "alert" => ~ShouldReportRun(decided))
    BY DEF RouteAfterDecide
  <2>5. st \in AgentState /\ st.at = RouteAfterDecide(decided) /\ st.score = decided.score
    BY <2>3, <2>4, Keeps DEF Nodes
  <2>6. WentThrough(st)
    BY <2>4, <2>5 DEF WentThrough, ShouldReportRun
  <2> QED
    BY <2>1, <2>5, <2>6, RunGoes
<1>9. ASSUME NEW r \in Runs, GenerateReport(r) PROVE AgentInv'
  <2>1. run[r] \in AgentState /\ run[r].at = "report" /\ UNCHANGED agentRuns
    BY <1>2, <1>9 DEF GenerateReport
  <2>2. PICK st \in {run[r], [run[r] EXCEPT !.failed = TRUE]} : run' = [run EXCEPT ![r] = Keep(st, RouteAfterReport(st))]
    BY <1>9 DEF GenerateReport
  <2>3. st \in AgentState /\ st.at = "report"
    BY <2>1, <2>2 DEF AgentState
  <2>4. RouteAfterReport(st) \in {"alert", "log"} /\ (RouteAfterReport(st) = "log" => ~ShouldAlert(st))
    BY DEF RouteAfterReport
  <2> DEFINE next == Keep(st, RouteAfterReport(st))
  <2>5. /\ next \in AgentState /\ next.at = RouteAfterReport(st) /\ next.trace = st.trace \cup {st.at}
        /\ next.level = st.level
    BY <2>3, <2>4, Keeps DEF Nodes
  <2> HIDE DEF next
  <2>6. WentThrough(next)
    BY <2>3, <2>4, <2>5 DEF WentThrough, ShouldAlert
  <2> QED
    BY <2>1, <2>2, <2>5, <2>6, RunGoes DEF next
<1>10. ASSUME NEW r \in Runs, SendAlert(r) PROVE AgentInv'
  <2>1. run[r] \in AgentState /\ run[r].at = "alert" /\ UNCHANGED agentRuns
    BY <1>2, <1>10 DEF SendAlert
  <2> DEFINE k == Keep(run[r], "log")
  <2>2. PICK st \in {k, [k EXCEPT !.sent = TRUE], [k EXCEPT !.failed = TRUE]} : run' = [run EXCEPT ![r] = st]
    BY <1>10 DEF SendAlert
  <2>3. k \in AgentState /\ k.at = "log" /\ k.trace = run[r].trace \cup {"alert"} /\ k.score = run[r].score
    BY <2>1, Keeps DEF Nodes
  <2> HIDE DEF k
  <2>4. st \in AgentState /\ st.at = "log" /\ st.trace = run[r].trace \cup {"alert"} /\ st.score = run[r].score
    BY <2>2, <2>3 DEF AgentState
  <2>5. WentThrough(st)
    BY <1>3, <2>1, <2>4 DEF WentThrough, ShouldReportRun
  <2> QED
    BY <2>1, <2>2, <2>4, <2>5, RunGoes
<1>11. ASSUME NEW r \in Runs, LogToDatabase(r) PROVE AgentInv'
  <2> DEFINE st == Keep(run[r], "compliance")
  <2>1. run[r] \in AgentState /\ run[r].at = "log" /\ run' = [run EXCEPT ![r] = st]
    BY <1>2, <1>11 DEF LogToDatabase
  <2>2. agentRuns' = agentRuns \/ agentRuns' = agentRuns \cup {RunRow(r)}
    BY <1>11 DEF LogToDatabase
  <2>3. /\ st \in AgentState /\ st.at = "compliance" /\ st.trace = run[r].trace \cup {"log"}
        /\ st.score = run[r].score /\ st.level = run[r].level
    BY <2>1, Keeps DEF Nodes
  <2> HIDE DEF st
  <2>4. WentThrough(st)
    BY <1>3, <2>1, <2>3 DEF WentThrough, ShouldReportRun, ShouldAlert
  <2> QED
    BY <2>1, <2>2, <2>3, <2>4, RunGoes
<1>12. ASSUME NEW r \in Runs, UpdateCompliance(r) \/ CutShort(r) PROVE AgentInv'
  <2>1. run[r] \in AgentState /\ UNCHANGED agentRuns
    BY <1>2, <1>12 DEF UpdateCompliance, CutShort
  <2> DEFINE k == Keep(run[r], "done")
  <2>2. PICK status \in {"COMPLETE", "COMPLETE_WITH_ERRORS", "TIMEOUT", "FAILED"} :
          \/ run' = [run EXCEPT ![r] = [k EXCEPT !.status = status]]
          \/ run' = [run EXCEPT ![r] = [run[r] EXCEPT !.at = "done", !.status = status]]
    BY <1>12 DEF UpdateCompliance, CutShort
  <2>3. k \in AgentState /\ k.at = "done"
    BY <2>1, Keeps DEF Nodes
  <2> HIDE DEF k
  <2>4. [k EXCEPT !.status = status] \in AgentState /\ WentThrough([k EXCEPT !.status = status])
    BY <2>3 DEF AgentState, WentThrough
  <2>5. /\ [run[r] EXCEPT !.at = "done", !.status = status] \in AgentState
        /\ WentThrough([run[r] EXCEPT !.at = "done", !.status = status])
    BY <2>1 DEF AgentState, Nodes, WentThrough
  <2> QED
    BY <2>1, <2>2, <2>4, <2>5, RunGoes
<1>13. CASE Second \/ DrainAlert \/ UNCHANGED agentVars
  BY <1>1, <1>13 DEF Second, DrainAlert, agentVars
<1> QED
  BY <1>4, <1>5, <1>6, <1>7, <1>8, <1>9, <1>10, <1>11, <1>12, <1>13 DEF AgentNext

(* No stored run of a high or critical level has missed the alert node,    *)
(* and none at the threshold the report node, for any scores, thresholds   *)
(* and number of runs that overlap (agent/nodes.py, graph.py).         *)
THEOREM DangerIsAlwaysRaised == AgentSpec => []DangerIsRaised
<1>1. AgentInv => DangerIsRaised
  BY DEF AgentInv
<1> QED
  BY AgentStarts, AgentStep, <1>1, PTL DEF AgentSpec

-----------------------------------------------------------------------------
(* Dashboard, the feed.  A socket that ends was either told to by the      *)
(* client, and says nothing of it, or by the server; every socket that is  *)
(* not the current one is ending or has ended, unless it lost its place to *)
(* a late close event.                                                     *)
Socket == [ready : {"connecting", "open", "closing", "closed"}, closing : BOOLEAN, ping : BOOLEAN,
           byServer : BOOLEAN]

Ending(socket) == socket.ready \in {"closing", "closed"}
Told(socket) == Ending(socket) => socket.closing \/ socket.byServer

FeedInv ==
  /\ sockets \in Seq(Socket)
  /\ current \in 0..Len(sockets)
  /\ mounted \in BOOLEAN /\ connected \in BOOLEAN
  /\ \A s \in DOMAIN sockets : Told(sockets[s])
  /\ \A s \in DOMAIN sockets : s # current /\ s \notin lost => Ending(sockets[s])
  /\ current # 0 => sockets[current].ready # "closed" /\ ~sockets[current].closing
  /\ lost = {} /\ mounted /\ connected => current # 0
  /\ ~mounted => current = 0

LEMMA FeedShows == FeedInv => OneFeed
<1> SUFFICES ASSUME FeedInv PROVE OneFeed
  OBVIOUS
<1>1. Live \subseteq {current} \cup lost
  BY DEF FeedInv, Live, Ending
<1> QED
  BY <1>1 DEF FeedInv, OneFeed

LEMMA NewSocketIs == NewSocket \in Socket /\ NewSocket.ready = "connecting" /\ ~NewSocket.closing /\ Told(NewSocket)
  BY DEF NewSocket, Socket, Told, Ending

LEMMA FeedStarts == FeedInit => FeedInv
<1> SUFFICES ASSUME FeedInit PROVE FeedInv
  OBVIOUS
<1>1. sockets \in Seq(Socket) /\ Len(sockets) = 1 /\ DOMAIN sockets = {1} /\ sockets[1] = NewSocket
  BY NewSocketIs DEF FeedInit
<1>2. current = 1 /\ mounted = TRUE /\ connected = FALSE
  BY DEF FeedInit
<1>3. current \in 0..Len(sockets) /\ \A s \in DOMAIN sockets : s = current
  BY <1>1, <1>2
<1>4. sockets[current].ready # "closed" /\ ~sockets[current].closing /\ \A s \in DOMAIN sockets : Told(sockets[s])
  BY <1>1, <1>2, NewSocketIs
<1>5. mounted /\ mounted \in BOOLEAN /\ ~connected /\ connected \in BOOLEAN
  BY <1>2
<1> QED
  BY <1>1, <1>3, <1>4, <1>5 DEF FeedInv

LEMMA SocketSet ==
  ASSUME NEW all \in Seq(Socket), NEW s \in DOMAIN all, NEW new \in Socket
  PROVE  /\ [all EXCEPT ![s] = new] \in Seq(Socket) /\ Len([all EXCEPT ![s] = new]) = Len(all)
         /\ DOMAIN [all EXCEPT ![s] = new] = DOMAIN all
         /\ \A t \in DOMAIN all : [all EXCEPT ![s] = new][t] = IF t = s THEN new ELSE all[t]
<1>1. s \in 1..Len(all) /\ DOMAIN all = 1..Len(all)
  OBVIOUS
<1> QED
  BY <1>1, ExceptSeq

(* connect, from a list of sockets of which only the current one and the   *)
(* lost ones live *)
LEMMA ConnectKeeps ==
  ASSUME NEW all \in Seq(Socket), NEW now \in 0..Len(all), ConnectFrom(all, now),
         mounted' = TRUE, connected \in BOOLEAN, UNCHANGED lost,
         \A s \in DOMAIN all : Told(all[s]),
         \A s \in DOMAIN all : s # now /\ s \notin lost => Ending(all[s]),
         now # 0 => all[now].ready # "closed" /\ ~all[now].closing
  PROVE  FeedInv'
<1>1. CASE now # 0 /\ sockets' = all /\ current' = now /\ UNCHANGED connected
  BY <1>1 DEF FeedInv
<1>2. CASE now = 0 /\ sockets' = all /\ current' = 0 /\ connected' = FALSE
  BY <1>2 DEF FeedInv
<1>3. CASE now = 0 /\ sockets' = Append(all, NewSocket) /\ current' = Len(all) + 1 /\ UNCHANGED connected
  <2>1. /\ sockets' \in Seq(Socket) /\ Len(sockets') = Len(all) + 1
        /\ \A s \in 1..Len(all) : sockets'[s] = all[s]
        /\ sockets'[current'] = NewSocket
    BY <1>3, NewSocketIs, AppendProperties
  <2>2. current' # 0 /\ current' \in 0..Len(sockets')
    BY <1>3, <2>1
  <2>3. \A s \in DOMAIN sockets' : s # current' => s \in DOMAIN all /\ sockets'[s] = all[s] /\ s # 0
    BY <1>3, <2>1
  <2>4. \A s \in DOMAIN sockets' : Told(sockets'[s])
    BY <2>1, <2>3, NewSocketIs
  <2> QED
    BY <1>3, <2>1, <2>2, <2>3, <2>4, NewSocketIs DEF FeedInv
<1> QED
  BY <1>1, <1>2, <1>3 DEF ConnectFrom

(* Stopping the current socket leaves none that lives, but for lost ones. *)
LEMMA StoppedEnds ==
  ASSUME FeedInv
  PROVE  /\ Stopped(current) \in Seq(Socket) /\ Len(Stopped(current)) = Len(sockets)
         /\ \A s \in DOMAIN Stopped(current) : Told(Stopped(current)[s])
         /\ \A s \in DOMAIN Stopped(current) : s \notin lost => Ending(Stopped(current)[s])
<1>1. /\ sockets \in Seq(Socket) /\ \A s \in DOMAIN sockets : Told(sockets[s])
      /\ \A s \in DOMAIN sockets : s # current /\ s \notin lost => Ending(sockets[s])
      /\ current # 0 => current \in DOMAIN sockets /\ sockets[current] \in Socket
  BY ElementOfSeq DEF FeedInv
<1>2. CASE current # 0 /\ sockets[current].ready \in {"connecting", "open"}
  <2> DEFINE new == [[sockets[current] EXCEPT !.ready = "closing"] EXCEPT !.closing = TRUE]
  <2>1. new \in Socket /\ Ending(new) /\ Told(new)
    BY <1>1, <1>2 DEF Socket, Ending, Told
  <2>2. Stopped(current) = [sockets EXCEPT ![current] = new]
    BY <1>1, <1>2 DEF Stopped
  <2> HIDE DEF new
  <2> QED
    BY <1>1, <1>2, <2>1, <2>2, SocketSet
<1>3. CASE ~(current # 0 /\ sockets[current].ready \in {"connecting", "open"})
  <2>1. Stopped(current) = sockets
    BY <1>3 DEF Stopped
  <2>2. current # 0 => Ending(sockets[current])
    BY <1>1, <1>3 DEF Socket, Ending
  <2>3. \A s \in DOMAIN sockets : s # 0
    BY <1>1
  <2> QED
    BY <1>1, <2>1, <2>2, <2>3 DEF FeedInv
<1> QED
  BY <1>2, <1>3

(* One socket changes, the hook does not move. *)
LEMMA SocketKeeps ==
  ASSUME FeedInv, NEW s \in DOMAIN sockets, NEW new \in Socket, sockets' = [sockets EXCEPT ![s] = new],
         UNCHANGED <<current, mounted, lost>>, connected' \in BOOLEAN, Told(new),
         s = current \/ s \in lost \/ Ending(new),
         s = current => new.ready # "closed" /\ ~new.closing,
         lost = {} /\ mounted /\ connected' => current # 0
  PROVE  FeedInv'
<1>1. /\ sockets' \in Seq(Socket) /\ Len(sockets') = Len(sockets) /\ DOMAIN sockets' = DOMAIN sockets
      /\ \A t \in DOMAIN sockets : sockets'[t] = IF t = s THEN new ELSE sockets[t]
  BY SocketSet DEF FeedInv
<1>2. /\ \A t \in DOMAIN sockets' : t # current /\ t \notin lost => Ending(sockets'[t])
      /\ current # 0 => sockets'[current].ready # "closed" /\ ~sockets'[current].closing
  BY <1>1 DEF FeedInv
<1>3. \A t \in DOMAIN sockets' : Told(sockets'[t])
  BY <1>1 DEF FeedInv
<1> QED
  BY <1>1, <1>2, <1>3 DEF FeedInv

LEMMA OpenedKeeps == ASSUME FeedInv, NEW s \in DOMAIN sockets, Opened(s) PROVE FeedInv'
<1> DEFINE new == [NewSocket EXCEPT !.ready = "open", !.ping = TRUE]
<1>1. /\ sockets[s].ready = "connecting" /\ sockets' = [sockets EXCEPT ![s] = new]
      /\ connected' = (mounted \/ connected) /\ UNCHANGED <<current, mounted, lost>>
  BY DEF Opened
<1>2. new \in Socket /\ new.ready = "open" /\ ~new.closing /\ Told(new)
  BY DEF NewSocket, Socket, Told, Ending
<1>3. s = current \/ s \in lost
  BY <1>1 DEF FeedInv, Ending
<1>4. connected' \in BOOLEAN /\ s # 0
  BY <1>1 DEF FeedInv
<1> HIDE DEF new
<1> QED
  BY <1>1, <1>2, <1>3, <1>4, SocketKeeps

LEMMA FrameShownKeeps == ASSUME FeedInv, NEW s \in DOMAIN sockets, FrameShown(s) PROVE FeedInv'
<1>1. sockets[s].ready = "open" /\ mounted /\ connected' = TRUE /\ UNCHANGED <<sockets, current, mounted, lost>>
  BY DEF FrameShown
<1>2. lost = {} => current # 0
  BY <1>1 DEF FeedInv, Ending
<1> QED
  BY <1>1, <1>2 DEF FeedInv

LEMMA ServerClosesKeeps == ASSUME FeedInv, NEW s \in DOMAIN sockets, ServerCloses(s) PROVE FeedInv'
<1> DEFINE new == [[sockets[s] EXCEPT !.ready = "closing"] EXCEPT !.byServer = TRUE]
<1>1. sockets[s] \in Socket /\ sockets[s].ready = "open"
  BY ElementOfSeq DEF FeedInv, ServerCloses
<1>2. sockets' = [sockets EXCEPT ![s] = new] /\ UNCHANGED <<current, mounted, connected, lost>>
  BY <1>1 DEF ServerCloses
<1>3. new \in Socket /\ new.ready = "closing" /\ new.closing = sockets[s].closing /\ Told(new) /\ Ending(new)
  BY <1>1 DEF Socket, Told, Ending
<1>4. s # 0 /\ connected' \in BOOLEAN /\ (s = current => ~sockets[s].closing)
  BY <1>2 DEF FeedInv
<1>5. lost = {} /\ mounted /\ connected' => current # 0
  BY <1>2 DEF FeedInv
<1> HIDE DEF new
<1> QED
  BY <1>2, <1>3, <1>4, <1>5, SocketKeeps

LEMMA ClosedKeeps == ASSUME FeedInv, NEW s \in DOMAIN sockets, Closed(s) PROVE FeedInv'
<1> DEFINE told == ~sockets[s].closing
           new == [[[sockets[s] EXCEPT !.ready = "closed"] EXCEPT !.closing = TRUE]
                      EXCEPT !.ping = sockets[s].ping /\ ~told]
<1>1. sockets[s] \in Socket /\ sockets[s].ready # "closed" /\ UNCHANGED mounted
  BY ElementOfSeq DEF FeedInv, Closed
<1>2. sockets' = [sockets EXCEPT ![s] = new]
  BY <1>1 DEF Closed
<1>3. new \in Socket /\ new.ready = "closed" /\ new.closing /\ Told(new) /\ Ending(new)
  BY <1>1 DEF Socket, Told, Ending
<1>4. s # 0
  BY DEF FeedInv
<1> HIDE DEF new
<1>5. CASE told /\ mounted
  <2>1. /\ current' = 0 /\ connected' = FALSE
        /\ lost' = lost \cup (IF sockets[s].byServer \/ s \in lost THEN {current} \ {0, s} ELSE {})
    BY <1>5 DEF Closed
  <2>2. /\ sockets' \in Seq(Socket) /\ DOMAIN sockets' = DOMAIN sockets
        /\ \A t \in DOMAIN sockets : sockets'[t] = IF t = s THEN new ELSE sockets[t]
    BY <1>2, <1>3, SocketSet DEF FeedInv
  <2>3. \A t \in DOMAIN sockets' : Told(sockets'[t])
    BY <1>3, <2>2 DEF FeedInv
  <2>4. current \in {0, s} \/ current \in lost'
    <3>1. ASSUME current # s, s \notin lost PROVE sockets[s].byServer
      BY <1>5, <3>1 DEF FeedInv, Told
    <3> QED
      BY <2>1, <3>1
  <2>5. \A t \in DOMAIN sockets' : t \notin lost' => Ending(sockets'[t])
    <3>1. lost \subseteq lost' /\ \A t \in DOMAIN sockets : t # 0
      BY <2>1 DEF FeedInv
    <3> QED
      BY <1>3, <2>2, <2>4, <3>1 DEF FeedInv
  <2>6. current' = 0 /\ current' \in 0..Len(sockets')
    BY <2>1, <2>2
  <2>7. mounted' /\ ~connected' /\ mounted' \in BOOLEAN /\ connected' \in BOOLEAN
    BY <1>1, <1>5, <2>1 DEF FeedInv
  <2> QED
    BY <2>2, <2>3, <2>5, <2>6, <2>7 DEF FeedInv
<1>6. CASE ~(told /\ mounted)
  <2>1. UNCHANGED <<current, connected, lost>>
    BY <1>6 DEF Closed
  <2>2. s # current
    BY <1>4, <1>6 DEF FeedInv
  <2>3. connected' \in BOOLEAN /\ (lost = {} /\ mounted /\ connected' => current # 0)
    BY <2>1 DEF FeedInv
  <2> QED
    BY <1>1, <1>2, <1>3, <2>1, <2>2, <2>3, SocketKeeps
<1> QED
  BY <1>5, <1>6

(* A retry that fires, or the operator's, connects only without a socket. *)
LEMMA RetryKeeps == ASSUME FeedInv, Reconnect \/ \E t \in timers : RetryFires(t) PROVE FeedInv'
<1>1. CASE mounted /\ ConnectFrom(sockets, current) /\ UNCHANGED <<mounted, lost>>
  BY <1>1, ConnectKeeps DEF FeedInv
<1>2. CASE UNCHANGED <<sockets, current, connected, mounted, lost>>
  BY <1>2 DEF FeedInv
<1> QED
  BY <1>1, <1>2 DEF Reconnect, RetryFires

LEMMA DroppedKeeps == ASSUME FeedInv, DisconnectFeed \/ RunAgain \/ Unmount PROVE FeedInv'
<1>1. /\ Stopped(current) \in Seq(Socket) /\ \A s \in DOMAIN Stopped(current) : Told(Stopped(current)[s])
      /\ \A s \in DOMAIN Stopped(current) : s \notin lost => Ending(Stopped(current)[s])
  BY StoppedEnds
<1>2. 0 \in 0..Len(Stopped(current)) /\ UNCHANGED lost /\ connected \in BOOLEAN
  BY <1>1 DEF DisconnectFeed, RunAgain, Unmount, FeedInv
<1>3. CASE DisconnectFeed
  <2>1. sockets' = Stopped(current) /\ current' = 0 /\ connected' = FALSE /\ mounted' /\ mounted' \in BOOLEAN
    BY <1>3 DEF DisconnectFeed, FeedInv
  <2> QED
    BY <1>1, <1>2, <2>1 DEF FeedInv
<1>4. CASE RunAgain
  <2>1. ConnectFrom(Stopped(current), 0) /\ mounted' = TRUE
    BY <1>4 DEF RunAgain, FeedInv
  <2> QED
    BY <1>1, <1>2, <2>1, ConnectKeeps
<1>5. CASE Unmount
  <2>1. sockets' = Stopped(current) /\ current' = 0 /\ mounted' = FALSE /\ UNCHANGED connected
    BY <1>5 DEF Unmount
  <2>2. sockets' \in Seq(Socket) /\ current' = 0 /\ current' \in 0..Len(sockets')
    BY <1>1, <2>1
  <2>3. ~mounted' /\ mounted' \in BOOLEAN
    BY <2>1
  <2> QED
    BY <1>1, <1>2, <2>1, <2>2, <2>3 DEF FeedInv
<1> QED
  BY <1>3, <1>4, <1>5

LEMMA FeedStep == FeedInv /\ [FeedNext]_feedVars => FeedInv'
<1> SUFFICES ASSUME FeedInv, [FeedNext]_feedVars PROVE FeedInv'
  OBVIOUS
<1>1. CASE UNCHANGED feedVars
  BY <1>1 DEF feedVars, FeedInv
<1> QED
  BY <1>1, OpenedKeeps, FrameShownKeeps, ServerClosesKeeps, ClosedKeeps, RetryKeeps, DroppedKeeps DEF FeedNext

-----------------------------------------------------------------------------
(* Dashboard, the log.  Once no mutation is under way, an answer read for  *)
(* a request that was not left alone holds every row whose mutation has    *)
(* settled, and a list at rest either shows them, or has failed, or is off *)
(* the screen and invalidated: it asks before it is shown.                 *)
List == [data : BOOLEAN, shows : SUBSET Rows, invalid : BOOLEAN, failed : BOOLEAN,
         at : {"none", "asked", "read"}, saw : SUBSET Rows, before : BOOLEAN, kept : BOOLEAN]
Calls == [rows : SUBSET Rows, through : SUBSET Rows]

Fresh(l) == l.at = "read" /\ ~l.kept => confirmed \subseteq l.saw
ShownOrAsks(f) ==
  Settled /\ AtRest(lists[f]) /\ ~lists[f].kept =>
    confirmed \subseteq lists[f].shows \/ (f # filter /\ lists[f].invalid)

LogInv ==
  /\ acked \subseteq Rows /\ confirmed \subseteq acked
  /\ filter \in LogFilters
  /\ lists \in [LogFilters -> List]
  /\ ackCall \in [AckCalls -> Calls]
  /\ \A m \in AckCalls : ackCall[m].through \subseteq acked
  /\ \A f \in LogFilters : Fresh(lists[f]) /\ ShownOrAsks(f)

LEMMA ListIs ==
  /\ NewList \in List /\ NewList.at = "none" /\ ~NewList.data
  /\ \A l \in List : Asking(l) \in List /\ Asking(l).at = "asked"
  /\ \A l \in List : Cancelled(l) \in List /\ Cancelled(l).at = "none"
<1>1. NewList \in List /\ NewList.at = "none" /\ ~NewList.data
  BY DEF NewList, List
<1>2. ASSUME NEW l \in List PROVE Asking(l) \in List /\ Asking(l).at = "asked"
  BY DEF Asking, List
<1>3. ASSUME NEW l \in List PROVE Cancelled(l) \in List /\ Cancelled(l).at = "none"
  BY DEF Cancelled, List
<1> QED
  BY <1>1, <1>2, <1>3

LEMMA LogStarts == LogInit => LogInv
<1> SUFFICES ASSUME LogInit PROVE LogInv
  OBVIOUS
<1>1. /\ lists \in [LogFilters -> List] /\ \A f \in LogFilters : lists[f].at # "read"
      /\ filter \in LogFilters /\ acked = {} /\ confirmed = {}
  BY ListIs, FilterAssumption DEF LogInit
<1>2. ackCall \in [AckCalls -> Calls] /\ \A m \in AckCalls : ackCall[m].through = {}
  BY DEF LogInit, NoCall, Calls
<1> QED
  BY <1>1, <1>2 DEF LogInv, Fresh, ShownOrAsks

(* One list changes, and nothing else but what is on the screen. *)
LEMMA ListKeeps ==
  ASSUME LogInv, NEW f \in LogFilters, NEW new \in List, lists' = [lists EXCEPT ![f] = new],
         filter' \in {filter, f}, UNCHANGED <<acked, ackCall, confirmed>>,
         Fresh(new),
         Settled /\ AtRest(new) /\ ~new.kept => confirmed \subseteq new.shows \/ (f # filter' /\ new.invalid)
  PROVE  LogInv'
<1>1. /\ lists' \in [LogFilters -> List]
      /\ \A g \in LogFilters : lists'[g] = IF g = f THEN new ELSE lists[g]
  BY DEF LogInv
<1>2. filter' \in LogFilters /\ (Settled' <=> Settled)
  BY DEF LogInv, Settled
<1>3. ASSUME NEW g \in LogFilters PROVE Fresh(lists[g])' /\ ShownOrAsks(g)'
  <2>1. CASE g = f
    BY <1>1, <1>2, <2>1 DEF Fresh, ShownOrAsks, AtRest
  <2>2. CASE g # f
    BY <1>1, <1>2, <2>2 DEF LogInv, Fresh, ShownOrAsks, AtRest
  <2> QED
    BY <2>1, <2>2
<1> QED
  BY <1>1, <1>2, <1>3 DEF LogInv

LEMMA QueryKeeps ==
  ASSUME LogInv, PollLog \/ \E f \in LogFilters : ListViolations(f) \/ LogArrives(f) \/ LogFails(f)
                                                  \/ ShowFilter(f) \/ Collected(f)
  PROVE  LogInv'
<1>1. ASSUME NEW f \in LogFilters, lists' = [lists EXCEPT ![f] = Asking(@)], filter' \in {filter, f},
             UNCHANGED <<acked, ackCall, confirmed>>
      PROVE  LogInv'
  <2>1. lists[f] \in List /\ lists' = [lists EXCEPT ![f] = Asking(lists[f])]
    BY <1>1 DEF LogInv
  <2>2. Asking(lists[f]) \in List /\ Asking(lists[f]).at = "asked"
    BY <2>1, ListIs
  <2> QED
    BY <1>1, <2>1, <2>2, ListKeeps DEF Fresh, AtRest
<1>2. CASE PollLog
  BY <1>1, <1>2 DEF PollLog, LogInv
<1>3. ASSUME NEW f \in LogFilters, ListViolations(f) PROVE LogInv'
  <2> DEFINE new == [[lists[f] EXCEPT !.at = "read"] EXCEPT !.saw = acked]
  <2>1. lists[f] \in List /\ confirmed \subseteq acked
    BY DEF LogInv
  <2>2. lists' = [lists EXCEPT ![f] = new] /\ UNCHANGED <<acked, filter, ackCall, confirmed>>
    BY <1>3, <2>1 DEF ListViolations, LogInv
  <2>3. new \in List /\ new.at = "read" /\ new.saw = acked
    BY <2>1 DEF List, LogInv
  <2> HIDE DEF new
  <2> QED
    BY <2>1, <2>2, <2>3, ListKeeps DEF Fresh, AtRest
<1>4. ASSUME NEW f \in LogFilters, LogArrives(f) PROVE LogInv'
  <2> DEFINE new == [NewList EXCEPT !.data = TRUE, !.shows = lists[f].saw, !.kept = lists[f].kept]
  <2>1. lists[f] \in List /\ Fresh(lists[f])
    BY DEF LogInv
  <2>2. /\ lists[f].at = "read" /\ lists' = [lists EXCEPT ![f] = new]
        /\ UNCHANGED <<acked, filter, ackCall, confirmed>>
    BY <1>4, Zenon DEF LogArrives
  <2>3. new \in List /\ new.at = "none" /\ new.shows = lists[f].saw /\ new.kept = lists[f].kept
    BY <2>1 DEF List, NewList
  <2> HIDE DEF new
  <2> QED
    BY <2>1, <2>2, <2>3, ListKeeps DEF Fresh, AtRest
<1>5. ASSUME NEW f \in LogFilters, LogFails(f) PROVE LogInv'
  <2> DEFINE new == [lists[f] EXCEPT !.at = "none", !.saw = {}, !.before = FALSE,
                                     !.failed = TRUE, !.invalid = TRUE]
  <2>1. lists[f] \in List
    BY DEF LogInv
  <2>2. lists' = [lists EXCEPT ![f] = new] /\ UNCHANGED <<acked, filter, ackCall, confirmed>>
    BY <1>5, Zenon DEF LogFails
  <2>3. new \in List /\ new.at = "none" /\ new.failed
    BY <2>1 DEF List
  <2> HIDE DEF new
  <2> QED
    BY <2>1, <2>2, <2>3, ListKeeps DEF Fresh, AtRest
<1>6. ASSUME NEW f \in LogFilters, ShowFilter(f) PROVE LogInv'
  <2>1. CASE lists' = [lists EXCEPT ![f] = Asking(@)]
    BY <1>1, <1>6, <2>1 DEF ShowFilter
  <2>2. CASE (lists[f].at # "none" \/ (lists[f].data /\ ~lists[f].invalid)) /\ UNCHANGED lists
    <3>1. lists[f] \in List /\ lists' = [lists EXCEPT ![f] = lists[f]] /\ Fresh(lists[f]) /\ ShownOrAsks(f)
      BY <2>2 DEF LogInv
    <3> QED
      BY <1>6, <2>2, <3>1, ListKeeps DEF ShowFilter, ShownOrAsks, AtRest
  <2> QED
    BY <1>6, <2>1, <2>2 DEF ShowFilter
<1>7. ASSUME NEW f \in LogFilters, Collected(f) PROVE LogInv'
  <2>1. lists' = [lists EXCEPT ![f] = NewList] /\ UNCHANGED <<acked, filter, ackCall, confirmed>>
    BY <1>7 DEF Collected
  <2> QED
    BY <2>1, ListIs, ListKeeps DEF Fresh, AtRest
<1> QED
  BY <1>2, <1>3, <1>4, <1>5, <1>6, <1>7

(* A mutation begins: while it is under way nothing is promised. *)
LEMMA BeginKeeps ==
  ASSUME LogInv, NEW m \in AckCalls, NEW rows \in (SUBSET Rows) \ {{}},
         ackCall' = [ackCall EXCEPT ![m] = [rows |-> rows, through |-> {}]],
         lists' = [f \in LogFilters |-> Cancelled(lists[f])] \/ UNCHANGED lists,
         UNCHANGED <<acked, filter, confirmed>>
  PROVE  LogInv'
<1>1. /\ ackCall' \in [AckCalls -> Calls]
      /\ \A n \in AckCalls : ackCall'[n] = IF n = m THEN [rows |-> rows, through |-> {}] ELSE ackCall[n]
  BY DEF LogInv, Calls
<1>2. ~Settled'
  <2> DEFINE call == [rows |-> rows, through |-> {}]
  <2>1. call.rows # {} /\ NoCall.rows = {}
    BY DEF NoCall
  <2> QED
    BY <1>1, <2>1 DEF Settled
<1>3. lists' \in [LogFilters -> List] /\ \A f \in LogFilters : lists'[f].at = "none" \/ lists'[f] = lists[f]
  BY ListIs DEF LogInv
<1>4. \A f \in LogFilters : Fresh(lists[f])' /\ ShownOrAsks(f)'
  BY <1>2, <1>3 DEF LogInv, Fresh, ShownOrAsks
<1>5. \A n \in AckCalls : ackCall'[n].through \subseteq acked'
  BY <1>1 DEF LogInv
<1> QED
  BY <1>1, <1>3, <1>4, <1>5 DEF LogInv

(* What settling leaves a list with. *)
LEMMA RefetchedIs ==
  ASSUME LogInv, NEW f \in LogFilters
  PROVE  /\ Refetched(f) \in List
         /\ Refetched(f).at = "read" => Refetched(f).kept
         /\ Refetched(f).at = "none" => f # filter /\ Refetched(f).invalid
<1> DEFINE l == [lists[f] EXCEPT !.invalid = TRUE]
<1>1. l \in List /\ l.invalid
  BY DEF LogInv, List
<1>2. CASE f = filter /\ (l.at = "none" \/ l.data)
  <2>1. Refetched(f) = Asking(l)
    BY <1>2 DEF Refetched
  <2> HIDE DEF l
  <2> QED
    BY <1>1, <2>1, ListIs
<1>3. CASE ~(f = filter /\ (l.at = "none" \/ l.data))
  <2> DEFINE k == l.kept \/ l.at = "read"
             new == [l EXCEPT !.kept = k]
  <2>1. Refetched(f) = new
    BY <1>3 DEF Refetched
  <2>2. k \in BOOLEAN /\ (l.at = "read" => k)
    BY <1>1 DEF List
  <2> HIDE DEF l, k
  <2>3. new \in List /\ new.at = l.at /\ new.kept = k /\ new.invalid
    BY <1>1, <2>2 DEF List
  <2> HIDE DEF new
  <2> QED
    BY <1>3, <2>1, <2>2, <2>3
<1> QED
  BY <1>2, <1>3

LEMMA AnsweredKeeps == ASSUME LogInv, NEW m \in AckCalls, NEW row \in Rows, Answered(m, row) PROVE LogInv'
<1>1. UNCHANGED <<acked, filter>>
  BY DEF Answered
<1>2. PICK got \in {{row} \cap acked, {}} :
        LET call == [rows |-> ackCall[m].rows \ {row}, through |-> ackCall[m].through \cup got]
        IN IF call.rows # {}
           THEN ackCall' = [ackCall EXCEPT ![m] = call] /\ UNCHANGED <<lists, confirmed>>
           ELSE /\ ackCall' = [ackCall EXCEPT ![m] = NoCall]
                /\ confirmed' = confirmed \cup call.through
                /\ lists' = [f \in LogFilters |-> Refetched(f)]
  BY DEF Answered
<1> DEFINE call == [rows |-> ackCall[m].rows \ {row}, through |-> ackCall[m].through \cup got]
<1>3. call \in Calls /\ call.through \subseteq acked
  BY <1>2 DEF LogInv, Calls
<1>4. CASE call.rows # {}
  <2>1. ackCall' = [ackCall EXCEPT ![m] = call] /\ UNCHANGED <<lists, confirmed>>
    BY <1>2, <1>4
  <2>2. call # NoCall
    BY <1>4 DEF NoCall
  <2> HIDE DEF call
  <2>3. /\ ackCall' \in [AckCalls -> Calls]
        /\ \A n \in AckCalls : ackCall'[n] = IF n = m THEN call ELSE ackCall[n]
    BY <1>3, <2>1 DEF LogInv
  <2>4. ~Settled'
    BY <2>2, <2>3 DEF Settled
  <2>5. \A f \in LogFilters : Fresh(lists[f])' /\ ShownOrAsks(f)'
    BY <2>1, <2>4 DEF LogInv, Fresh, ShownOrAsks
  <2>6. \A n \in AckCalls : ackCall'[n].through \subseteq acked'
    BY <1>1, <1>3, <2>3 DEF LogInv
  <2> QED
    BY <1>1, <2>1, <2>3, <2>5, <2>6 DEF LogInv
<1>5. CASE call.rows = {}
  <2>1. /\ ackCall' = [ackCall EXCEPT ![m] = NoCall] /\ confirmed' = confirmed \cup call.through
        /\ lists' = [f \in LogFilters |-> Refetched(f)]
    BY <1>2, <1>5
  <2>2. NoCall \in Calls /\ NoCall.through = {}
    BY DEF NoCall, Calls
  <2> HIDE DEF call
  <2>3. /\ ackCall' \in [AckCalls -> Calls]
        /\ \A n \in AckCalls : ackCall'[n] = IF n = m THEN NoCall ELSE ackCall[n]
    BY <2>1, <2>2 DEF LogInv
  <2>4. \A n \in AckCalls : ackCall'[n].through \subseteq acked'
    BY <1>1, <2>2, <2>3 DEF LogInv
  <2>5. lists' \in [LogFilters -> List] /\ \A f \in LogFilters : lists'[f] = Refetched(f)
    BY <2>1, RefetchedIs
  <2>6. \A f \in LogFilters : Fresh(lists[f])' /\ ShownOrAsks(f)'
    BY <1>1, <2>5, RefetchedIs DEF Fresh, ShownOrAsks, AtRest
  <2> QED
    BY <1>1, <1>3, <2>1, <2>3, <2>4, <2>5, <2>6 DEF LogInv
<1> QED
  BY <1>4, <1>5

LEMMA LogStep == LogInv /\ [LogNext]_logVars => LogInv'
<1> SUFFICES ASSUME LogInv, [LogNext]_logVars PROVE LogInv'
  OBVIOUS
<1>1. CASE UNCHANGED logVars
  BY <1>1 DEF LogInv, Fresh, ShownOrAsks, AtRest, Settled, logVars
<1>2. ASSUME NEW m \in AckCalls, NEW row \in Rows, Acknowledge(m, row) PROVE LogInv'
  <2>1. {row} \in (SUBSET Rows) \ {{}}
    OBVIOUS
  <2> QED
    BY <1>2, <2>1, BeginKeeps DEF Acknowledge
<1>3. ASSUME NEW m \in AckCalls, NEW rows \in (SUBSET Rows) \ {{}}, AcknowledgeAll(m, rows) PROVE LogInv'
  BY <1>3, BeginKeeps DEF AcknowledgeAll
<1>4. ASSUME NEW m \in AckCalls, NEW row \in Rows, AcknowledgeViolation(m, row) PROVE LogInv'
  BY <1>4 DEF AcknowledgeViolation, LogInv, Fresh, ShownOrAsks, AtRest, Settled
<1> QED
  BY <1>1, <1>2, <1>3, <1>4, QueryKeeps, AnsweredKeeps DEF LogNext

(* The tab has one feed and undoes no acknowledgement, for any number of   *)
(* sockets, retries, rows, lists and mutations                             *)
(* (useWebSocket.ts:70-198, useViolations.ts:141-170).                     *)
THEOREM ShownIsAlwaysSo == DashboardSpec => []ShownIsSo
<1> DEFINE Step == \/ FeedNext /\ UNCHANGED <<logVars, heatVars>>
                   \/ LogNext /\ UNCHANGED <<feedVars, heatVars>>
                   \/ HeatNext /\ UNCHANGED <<feedVars, logVars>>
<1>1. FeedInit /\ LogInit => FeedInv /\ LogInv
  BY FeedStarts, LogStarts
<1>2. FeedInv /\ LogInv /\ [Step]_<<feedVars, logVars, heatVars>> => FeedInv' /\ LogInv'
  BY FeedStep, LogStep
<1>3. FeedInv /\ LogInv => ShownIsSo
  BY FeedShows DEF LogInv, ShownIsSo, AcksShow, ShownOrAsks
<1> QED
  BY <1>1, <1>2, <1>3, PTL DEF DashboardSpec

-----------------------------------------------------------------------------
(* Webhooks.  Each counter is the size of a set of dispatches or attempts; *)
(* an attempt puts one element into exactly one of the three sets.         *)
PostState ==
  [at : {"post", "pause", "ended"}, format : {"slack", "teams", "custom"}, tries : Nat, arrived : Nat, success : BOOLEAN]
FreshPost == {d \in PostState : d.at = "post" /\ d.tries = 0 /\ d.arrived = 0 /\ ~d.success}

InOrder(d) ==
  /\ d.arrived <= d.tries /\ d.tries <= MaxTries
  /\ d.at # "ended" => ~d.success /\ d.tries < MaxTries
  /\ d.at = "ended" => /\ d.tries >= 1
                       /\ IF d.success THEN d.arrived >= 1 ELSE d.tries = MaxTries

HooksInv ==
  /\ posts \in [Posts -> {NoPost, Refused} \cup PostState]
  /\ \A p \in Posts : posts[p] \in PostState => InOrder(posts[p])
  /\ hookStats \in [sent : Nat, failed : Nat, retries : Nat]
  /\ hookStats.sent = Cardinality(Ended(TRUE))
  /\ hookStats.failed = Cardinality(Ended(FALSE))
  /\ hookStats.retries = Cardinality(Retries)

LEMMA TriedPosts == HooksInv => \A p \in Posts : p \in Tried <=> posts[p] \in PostState
  BY DEF HooksInv, Tried, PostState, NoPost, Refused

LEMMA HooksAddUp == HooksInv => DeliveriesAddUp
<1> SUFFICES ASSUME HooksInv PROVE DeliveriesAddUp
  OBVIOUS
<1>1. \A p \in Tried : p \in Posts /\ posts[p] \in PostState /\ InOrder(posts[p])
  BY TriedPosts DEF HooksInv, Tried
<1>2. \A success \in BOOLEAN : \A p \in Ended(success) : p \in Tried /\ posts[p].at = "ended" /\ posts[p].success = success
  BY DEF Ended, Tried
<1> QED
  BY <1>1, <1>2 DEF HooksInv, DeliveriesAddUp, InOrder

LEMMA CountedFinite == IsFiniteSet(Ended(TRUE)) /\ IsFiniteSet(Ended(FALSE)) /\ IsFiniteSet(Retries)
<1>1. Ended(TRUE) \subseteq Posts /\ Ended(FALSE) \subseteq Posts /\ Tried \subseteq Posts
  BY DEF Ended, Tried
<1>2. IsFiniteSet(Posts \X (1..MaxTries))
  <2>1. IsFiniteSet(1..MaxTries)
    BY WebhooksAssumption, FS_Interval
  <2> QED
    BY <2>1, WebhooksAssumption, FS_Product
<1>3. Retries \subseteq Posts \X (1..MaxTries)
  BY <1>1 DEF Retries
<1> QED
  BY <1>1, <1>2, <1>3, WebhooksAssumption, FS_Subset

LEMMA HooksStart == HooksInit => HooksInv
<1> SUFFICES ASSUME HooksInit PROVE HooksInv
  OBVIOUS
<1>1. \A p \in Posts : posts[p].at = "free" /\ posts[p] \notin PostState
  BY DEF HooksInit, NoPost, PostState
<1>2. Ended(TRUE) = {} /\ Ended(FALSE) = {} /\ Retries = {}
  BY <1>1 DEF Ended, Retries, Tried
<1> QED
  BY <1>1, <1>2, FS_EmptySet DEF HooksInit, HooksInv, NoPost

(* New dispatches have no attempt to count yet. *)
LEMMA NewPostsKeep ==
  ASSUME HooksInv, UNCHANGED hookStats, posts' \in [Posts -> {NoPost, Refused} \cup PostState],
         \A p \in Posts : \/ posts'[p] = posts[p]
                          \/ posts[p] = NoPost /\ (posts'[p] = Refused \/ posts'[p] \in FreshPost)
  PROVE  HooksInv'
<1>1. \A p \in Posts : posts[p] = NoPost => posts[p].at = "free"
  BY DEF NoPost
<1>2. Refused.at = "refused" /\ \A d \in FreshPost : d \in PostState /\ d.at = "post" /\ d.tries = 0 /\ InOrder(d)
  BY WebhooksAssumption DEF Refused, FreshPost, InOrder
<1>3. Ended(TRUE)' = Ended(TRUE) /\ Ended(FALSE)' = Ended(FALSE)
  BY <1>1, <1>2 DEF Ended
<1>4. \A p \in Posts, n \in 1..MaxTries : <<p, n>> \in Retries' <=> <<p, n>> \in Retries
  <2> SUFFICES ASSUME NEW p \in Posts, NEW n \in 1..MaxTries PROVE <<p, n>> \in Retries' <=> <<p, n>> \in Retries
    OBVIOUS
  <2>1. CASE posts'[p] = posts[p]
    BY <2>1 DEF Retries, Tried
  <2>2. CASE posts[p] = NoPost /\ (posts'[p] = Refused \/ posts'[p] \in FreshPost)
    <3>1. p \notin Tried
      BY <1>1, <2>2 DEF Tried
    <3>2. p \in Tried' => posts'[p].tries = 0
      BY <1>2, <2>2 DEF Tried
    <3> QED
      BY <3>1, <3>2 DEF Retries
  <2> QED
    BY <2>1, <2>2
<1>5. Retries' = Retries
  <2>1. \A x \in Retries' \cup Retries : \E p \in Posts, n \in 1..MaxTries : x = <<p, n>>
    BY DEF Retries, Tried
  <2> QED
    BY <1>4, <2>1
<1>6. \A p \in Posts : posts'[p] \in PostState => InOrder(posts'[p])
  BY <1>2 DEF HooksInv, Refused, PostState
<1> QED
  BY <1>3, <1>5, <1>6 DEF HooksInv

LEMMA DispatchedFresh == \A w, event : Dispatch(w, event) = Refused \/ Dispatch(w, event) \in FreshPost
  BY DEF Dispatch, Posting, FreshPost, PostState, Format

LEMMA DispatchKeeps ==
  ASSUME HooksInv, (\E h \in Hooks, p \in Posts : TestWebhook(h, p)) \/ \E e \in HookEvents : DispatchToAll(e)
  PROVE  HooksInv'
<1>1. FreshPost \subseteq PostState /\ posts \in [Posts -> {NoPost, Refused} \cup PostState]
  BY DEF FreshPost, HooksInv
<1>2. ASSUME NEW h \in Hooks, NEW p \in Posts, TestWebhook(h, p) PROVE HooksInv'
  <2> DEFINE d == Dispatch([hooks[h] EXCEPT !.active = TRUE], TestEvent)
  <2>1. posts[p] = NoPost /\ posts' = [posts EXCEPT ![p] = d] /\ UNCHANGED hookStats
    BY <1>2 DEF TestWebhook
  <2>2. d = Refused \/ d \in FreshPost
    BY DispatchedFresh
  <2> HIDE DEF d
  <2>3. posts' \in [Posts -> {NoPost, Refused} \cup PostState] /\ \A q \in Posts : posts'[q] = IF q = p THEN d ELSE posts[q]
    BY <1>1, <2>1, <2>2
  <2> QED
    BY <2>1, <2>2, <2>3, NewPostsKeep
<1>3. ASSUME NEW e \in HookEvents, DispatchToAll(e) PROVE HooksInv'
  <2> DEFINE subscribed == {h \in Hooks : hooks[h].stored /\ hooks[h].active /\ e \in hooks[h].events}
             free == {p \in Posts : posts[p] = NoPost}
  <2>1. PICK slot \in [subscribed -> free] :
          posts' = [p \in Posts |->
            IF \E h \in subscribed : slot[h] = p
            THEN Dispatch(hooks[CHOOSE h \in subscribed : slot[h] = p], e) ELSE posts[p]]
    BY <1>3 DEF DispatchToAll
  <2>2. UNCHANGED hookStats
    BY <1>3 DEF DispatchToAll
  <2>3. ASSUME NEW p \in Posts
        PROVE  posts'[p] = posts[p] \/ (posts[p] = NoPost /\ (posts'[p] = Refused \/ posts'[p] \in FreshPost))
    <3>1. CASE \E h \in subscribed : slot[h] = p
      <4>1. posts[p] = NoPost
        BY <2>1, <3>1
      <4>2. posts'[p] = Dispatch(hooks[CHOOSE h \in subscribed : slot[h] = p], e)
        BY <2>1, <3>1
      <4> QED
        BY <4>1, <4>2, DispatchedFresh
    <3>2. CASE ~\E h \in subscribed : slot[h] = p
      BY <2>1, <3>2
    <3> QED
      BY <3>1, <3>2
  <2>4. posts' \in [Posts -> {NoPost, Refused} \cup PostState]
    <3>1. \A p \in Posts : posts'[p] \in {NoPost, Refused} \cup PostState
      BY <1>1, <2>3
    <3>2. posts' = [p \in Posts |-> posts'[p]]
      BY <2>1
    <3> QED
      BY <3>1, <3>2
  <2> QED
    BY <2>2, <2>3, <2>4, NewPostsKeep
<1> QED
  BY <1>2, <1>3

(* The sets of a state in which one dispatch has become another. *)
LEMMA PostSets ==
  ASSUME HooksInv, NEW p \in Posts, posts[p] \in PostState, posts[p].at # "ended",
         NEW d \in PostState, InOrder(d), posts' = [posts EXCEPT ![p] = d]
  PROVE  /\ posts' \in [Posts -> {NoPost, Refused} \cup PostState]
         /\ \A q \in Posts : posts'[q] \in PostState => InOrder(posts'[q])
         /\ \A success \in BOOLEAN :
              Ended(success)' = IF d.at = "ended" /\ d.success = success THEN Ended(success) \cup {p} ELSE Ended(success)
         /\ p \notin Ended(TRUE) /\ p \notin Ended(FALSE)
<1>1. posts' \in [Posts -> {NoPost, Refused} \cup PostState] /\ \A q \in Posts : posts'[q] = IF q = p THEN d ELSE posts[q]
  BY DEF HooksInv
<1>2. \A q \in Posts : posts'[q] \in PostState => InOrder(posts'[q])
  BY <1>1 DEF HooksInv
<1>3. p \notin Ended(TRUE) /\ p \notin Ended(FALSE)
  BY DEF Ended
<1>4. ASSUME NEW success \in BOOLEAN
      PROVE  Ended(success)' = IF d.at = "ended" /\ d.success = success THEN Ended(success) \cup {p} ELSE Ended(success)
  BY <1>1, <1>3 DEF Ended
<1> QED
  BY <1>1, <1>2, <1>3, <1>4

(* The retries of the dispatches: those of the others stay. *)
LEMMA PostRetries ==
  ASSUME HooksInv, NEW p \in Posts, posts[p] \in PostState, posts[p].at # "ended",
         NEW d \in PostState, posts' = [posts EXCEPT ![p] = d]
  PROVE  /\ d.tries = posts[p].tries /\ d.at # "ended" => Retries' = Retries
         /\ d.tries = posts[p].tries + 1 /\ d.at = "ended" => Retries' = Retries
         /\ d.tries = posts[p].tries + 1 /\ d.at # "ended" /\ d.tries \in 1..MaxTries =>
              Retries' = Retries \cup {<<p, d.tries>>} /\ <<p, d.tries>> \notin Retries
<1>1. \A q \in Posts : posts'[q] = IF q = p THEN d ELSE posts[q]
  BY DEF HooksInv
<1>2. posts[p].tries \in Nat /\ d.tries \in Nat /\ p \in Tried
  BY TriedPosts DEF PostState
<1>3. d.at \in {"post", "pause", "ended"}
  BY DEF PostState
<1>4. Tried' = Tried
  BY <1>1, <1>2, <1>3 DEF Tried
<1>5. \A q \in Tried, n \in 1..MaxTries :
        /\ <<q, n>> \in Retries <=> n < posts[q].tries \/ (n = posts[q].tries /\ posts[q].at # "ended")
        /\ <<q, n>> \in Retries' <=> n < posts'[q].tries \/ (n = posts'[q].tries /\ posts'[q].at # "ended")
  BY <1>4 DEF Retries
<1>6. Tried \subseteq Posts
  BY DEF Tried
<1>7. \A q \in Tried, n \in 1..MaxTries :
        <<q, n>> \in Retries' <=> IF q = p THEN n < d.tries \/ (n = d.tries /\ d.at # "ended") ELSE <<q, n>> \in Retries
  <2> TAKE q \in Tried, n \in 1..MaxTries
  <2>1. <<q, n>> \in Retries' <=> n < posts'[q].tries \/ (n = posts'[q].tries /\ posts'[q].at # "ended")
    BY <1>5
  <2>2. CASE q = p
    <3>1. posts'[q] = d
      BY <1>1, <1>6, <2>2
    <3> QED
      BY <2>1, <2>2, <3>1
  <2>3. CASE q # p
    <3>1. posts'[q] = posts[q]
      BY <1>1, <1>6, <2>3
    <3>2. <<q, n>> \in Retries <=> n < posts[q].tries \/ (n = posts[q].tries /\ posts[q].at # "ended")
      BY <1>5
    <3> QED
      BY <2>1, <2>3, <3>1, <3>2
  <2> QED
    BY <2>2, <2>3
<1>8. \A n \in 1..MaxTries : <<p, n>> \in Retries <=> n <= posts[p].tries
  BY <1>2, <1>5
<1>9. Retries \subseteq Tried \X (1..MaxTries) /\ Retries' \subseteq Tried \X (1..MaxTries)
  BY <1>4 DEF Retries
<1>10. ASSUME \A n \in 1..MaxTries : <<p, n>> \in Retries' <=> <<p, n>> \in Retries PROVE Retries' = Retries
  BY <1>7, <1>9, <1>10
<1>11. CASE d.tries = posts[p].tries /\ d.at # "ended"
  <2>1. \A n \in 1..MaxTries : <<p, n>> \in Retries' <=> <<p, n>> \in Retries
    BY <1>2, <1>7, <1>8, <1>11
  <2> QED
    BY <1>2, <1>10, <1>11, <2>1
<1>12. CASE d.tries = posts[p].tries + 1 /\ d.at = "ended"
  <2>1. \A n \in 1..MaxTries : <<p, n>> \in Retries' <=> <<p, n>> \in Retries
    BY <1>2, <1>7, <1>8, <1>12
  <2> QED
    BY <1>2, <1>10, <1>12, <2>1
<1>13. CASE d.tries = posts[p].tries + 1 /\ d.at # "ended" /\ d.tries \in 1..MaxTries
  <2>1. \A n \in 1..MaxTries : <<p, n>> \in Retries' <=> (<<p, n>> \in Retries \/ n = d.tries)
    BY <1>2, <1>7, <1>8, <1>13
  <2>2. <<p, d.tries>> \notin Retries
    BY <1>2, <1>8, <1>13
  <2>3. Retries' = Retries \cup {<<p, d.tries>>}
    BY <1>2, <1>7, <1>9, <1>13, <2>1
  <2> QED
    BY <1>2, <1>13, <2>2, <2>3
<1> QED
  BY <1>11, <1>12, <1>13

LEMMA AttemptKeeps == ASSUME HooksInv, NEW p \in Posts, Attempt(p) PROVE HooksInv'
<1>1. posts[p] \in PostState /\ posts[p].at = "post"
  BY DEF Attempt, HooksInv, NoPost, Refused
<1> DEFINE t == posts[p].tries
<1>2. t \in Nat /\ posts[p].arrived \in Nat /\ t < MaxTries /\ posts[p].arrived <= t /\ ~posts[p].success
  BY <1>1 DEF HooksInv, InOrder, PostState
<1>3. PICK arrives \in BOOLEAN, accepted \in BOOLEAN :
        LET d == [posts[p] EXCEPT !.tries = @ + 1, !.arrived = @ + (IF arrives THEN 1 ELSE 0)] IN
        /\ accepted => arrives
        /\ \/ /\ accepted
              /\ posts' = [posts EXCEPT ![p] = [d EXCEPT !.at = "ended", !.success = TRUE]]
              /\ hookStats' = [hookStats EXCEPT !.sent = @ + 1]
           \/ /\ ~accepted /\ LastTry(d)
              /\ posts' = [posts EXCEPT ![p] = [d EXCEPT !.at = "ended"]]
              /\ hookStats' = [hookStats EXCEPT !.failed = @ + 1]
           \/ /\ ~accepted /\ ~LastTry(d)
              /\ posts' = [posts EXCEPT ![p] = [d EXCEPT !.at = "pause"]]
              /\ hookStats' = [hookStats EXCEPT !.retries = @ + 1]
  BY DEF Attempt
<1> DEFINE d == [posts[p] EXCEPT !.tries = @ + 1, !.arrived = @ + (IF arrives THEN 1 ELSE 0)]
<1>4. /\ d \in PostState /\ d.tries = t + 1 /\ d.at = "post" /\ ~d.success
      /\ d.arrived <= d.tries /\ d.tries <= MaxTries /\ (arrives => d.arrived >= 1)
  <2> DEFINE k == IF arrives THEN 1 ELSE 0
  <2>1. k \in 0..1 /\ (arrives => k = 1)
    OBVIOUS
  <2> HIDE DEF k
  <2>2. d = [posts[p] EXCEPT !.tries = @ + 1, !.arrived = @ + k]
    BY DEF k
  <2> DEFINE a == posts[p].arrived
  <2>3. PICK x \in PostState : x = posts[p] /\ x.at = "post" /\ ~x.success /\ x.tries = t /\ x.arrived = a
    BY <1>1, <1>2
  <2>4. a \in Nat /\ t \in Nat /\ t < MaxTries /\ a <= t /\ MaxTries \in Nat
    BY <1>2, WebhooksAssumption
  <2>5. d = [x EXCEPT !.tries = t + 1, !.arrived = a + k]
    BY <2>2, <2>3
  <2> HIDE DEF t, a, d
  <2>6. t + 1 \in Nat /\ a + k \in Nat
    BY <2>1, <2>4
  <2>7. d \in PostState /\ d.tries = t + 1 /\ d.arrived = a + k /\ d.at = x.at /\ d.success = x.success
    <3> DEFINE m == t + 1
               n == a + k
    <3>1. m \in Nat /\ n \in Nat /\ d = [x EXCEPT !.tries = m, !.arrived = n]
      BY <2>5, <2>6
    <3> HIDE DEF m, n
    <3>2. d \in PostState /\ d.tries = m /\ d.arrived = n /\ d.at = x.at /\ d.success = x.success
      BY <2>3, <3>1 DEF PostState
    <3> QED
      BY <3>2 DEF m, n
  <2> QED
    BY <2>1, <2>3, <2>4, <2>7
<1>5. hookStats \in [sent : Nat, failed : Nat, retries : Nat]
  BY DEF HooksInv
<1>6. /\ IsFiniteSet(Ended(TRUE)) /\ IsFiniteSet(Ended(FALSE)) /\ IsFiniteSet(Retries)
  BY CountedFinite
<1>7. \A S, x : IsFiniteSet(S) /\ x \notin S => Cardinality(S \cup {x}) = Cardinality(S) + 1
  BY FS_AddElement
<1>8. CASE accepted /\ arrives
  <2> DEFINE e == [d EXCEPT !.at = "ended", !.success = TRUE]
  <2>1. posts' = [posts EXCEPT ![p] = e] /\ hookStats' = [hookStats EXCEPT !.sent = @ + 1]
    BY <1>3, <1>8
  <2>2. /\ e \in PostState /\ e.at = "ended" /\ e.success = TRUE /\ e.tries = t + 1
        /\ e.arrived = d.arrived
    BY <1>4 DEF PostState
  <2> HIDE DEF d, e
  <2>3. InOrder(e)
    BY <1>2, <1>4, <1>8, <2>2 DEF InOrder, PostState
  <2>4. Retries' = Retries
    BY <1>1, <2>1, <2>2, PostRetries
  <2>5. Ended(TRUE)' = Ended(TRUE) \cup {p} /\ Ended(FALSE)' = Ended(FALSE) /\ p \notin Ended(TRUE)
    BY <1>1, <2>1, <2>2, <2>3, PostSets
  <2>6. Cardinality(Ended(TRUE)') = Cardinality(Ended(TRUE)) + 1
    BY <1>6, <1>7, <2>5
  <2>7. /\ posts' \in [Posts -> {NoPost, Refused} \cup PostState]
        /\ \A q \in Posts : posts'[q] \in PostState => InOrder(posts'[q])
    BY <1>1, <2>1, <2>2, <2>3, PostSets
  <2>8. /\ hookStats' \in [sent : Nat, failed : Nat, retries : Nat] /\ hookStats'.sent = hookStats.sent + 1
        /\ hookStats'.failed = hookStats.failed /\ hookStats'.retries = hookStats.retries
    BY <1>5, <2>1
  <2> QED
    BY <2>4, <2>5, <2>6, <2>7, <2>8 DEF HooksInv
<1>9. CASE ~accepted /\ LastTry(d)
  <2> DEFINE e == [d EXCEPT !.at = "ended"]
  <2>1. posts' = [posts EXCEPT ![p] = e] /\ hookStats' = [hookStats EXCEPT !.failed = @ + 1]
    BY <1>3, <1>9
  <2>2. e \in PostState /\ e.at = "ended" /\ e.success = FALSE /\ e.tries = t + 1 /\ e.arrived = d.arrived
    BY <1>4 DEF PostState
  <2>3. e.tries = MaxTries
    BY <1>4, <1>9, <2>2 DEF LastTry
  <2> HIDE DEF d, e
  <2>4. InOrder(e)
    BY <1>2, <1>4, <2>2, <2>3 DEF InOrder
  <2>5. Retries' = Retries
    BY <1>1, <2>1, <2>2, PostRetries
  <2>6. Ended(FALSE)' = Ended(FALSE) \cup {p} /\ Ended(TRUE)' = Ended(TRUE) /\ p \notin Ended(FALSE)
    BY <1>1, <2>1, <2>2, <2>4, PostSets
  <2>7. Cardinality(Ended(FALSE)') = Cardinality(Ended(FALSE)) + 1
    BY <1>6, <1>7, <2>6
  <2>8. /\ posts' \in [Posts -> {NoPost, Refused} \cup PostState]
        /\ \A q \in Posts : posts'[q] \in PostState => InOrder(posts'[q])
    BY <1>1, <2>1, <2>2, <2>4, PostSets
  <2>9. /\ hookStats' \in [sent : Nat, failed : Nat, retries : Nat] /\ hookStats'.failed = hookStats.failed + 1
        /\ hookStats'.sent = hookStats.sent /\ hookStats'.retries = hookStats.retries
    BY <1>5, <2>1
  <2> QED
    BY <2>5, <2>6, <2>7, <2>8, <2>9 DEF HooksInv
<1>10. CASE ~accepted /\ ~LastTry(d)
  <2> DEFINE e == [d EXCEPT !.at = "pause"]
  <2>1. posts' = [posts EXCEPT ![p] = e] /\ hookStats' = [hookStats EXCEPT !.retries = @ + 1]
    BY <1>3, <1>10
  <2>2. e \in PostState /\ e.at = "pause" /\ e.success = FALSE /\ e.tries = t + 1 /\ e.arrived = d.arrived
    BY <1>4 DEF PostState
  <2>3. e.tries \in 1..MaxTries /\ e.tries < MaxTries
    BY <1>2, <1>4, <1>10, <2>2, WebhooksAssumption DEF LastTry
  <2> HIDE DEF d, e
  <2>4. InOrder(e)
    BY <1>2, <1>4, <2>2, <2>3 DEF InOrder
  <2>5. Retries' = Retries \cup {<<p, e.tries>>} /\ <<p, e.tries>> \notin Retries
    BY <1>1, <2>1, <2>2, <2>3, PostRetries
  <2>6. Ended(FALSE)' = Ended(FALSE) /\ Ended(TRUE)' = Ended(TRUE)
    BY <1>1, <2>1, <2>2, <2>4, PostSets
  <2>7. Cardinality(Retries') = Cardinality(Retries) + 1
    BY <1>6, <1>7, <2>5
  <2>8. /\ posts' \in [Posts -> {NoPost, Refused} \cup PostState]
        /\ \A q \in Posts : posts'[q] \in PostState => InOrder(posts'[q])
    BY <1>1, <2>1, <2>2, <2>4, PostSets
  <2>9. /\ hookStats' \in [sent : Nat, failed : Nat, retries : Nat] /\ hookStats'.retries = hookStats.retries + 1
        /\ hookStats'.sent = hookStats.sent /\ hookStats'.failed = hookStats.failed
    BY <1>5, <2>1
  <2> QED
    BY <2>6, <2>7, <2>8, <2>9 DEF HooksInv
<1> QED
  BY <1>3, <1>8, <1>9, <1>10

LEMMA PauseOverKeeps == ASSUME HooksInv, NEW p \in Posts, PauseOver(p) PROVE HooksInv'
<1> DEFINE e == [posts[p] EXCEPT !.at = "post"]
<1>1. posts[p] \in PostState /\ posts[p].at = "pause" /\ posts' = [posts EXCEPT ![p] = e] /\ UNCHANGED hookStats
  BY DEF PauseOver, HooksInv, NoPost, Refused
<1>2. e \in PostState /\ e.at = "post" /\ e.tries = posts[p].tries
  BY <1>1 DEF PostState
<1>3. InOrder(e)
  BY <1>1 DEF HooksInv, InOrder, PostState
<1> HIDE DEF e
<1>4. Retries' = Retries
  BY <1>1, <1>2, PostRetries
<1>5. /\ posts' \in [Posts -> {NoPost, Refused} \cup PostState]
      /\ \A q \in Posts : posts'[q] \in PostState => InOrder(posts'[q])
      /\ Ended(TRUE)' = Ended(TRUE) /\ Ended(FALSE)' = Ended(FALSE)
  BY <1>1, <1>2, <1>3, PostSets
<1> QED
  BY <1>1, <1>4, <1>5 DEF HooksInv

LEMMA HooksStep == HooksInv /\ [HooksNext]_hookVars => HooksInv'
<1> SUFFICES ASSUME HooksInv, [HooksNext]_hookVars PROVE HooksInv'
  OBVIOUS
<1>1. CASE UNCHANGED <<posts, hookStats>>
  BY <1>1 DEF HooksInv, Ended, Retries, Tried
<1>2. ASSUME NEW h \in Hooks, CreateWebhook(h) \/ UpdateWebhook(h) \/ DeleteWebhook(h) PROVE HooksInv'
  BY <1>1, <1>2 DEF CreateWebhook, UpdateWebhook, DeleteWebhook
<1>3. CASE UNCHANGED hookVars
  BY <1>1, <1>3 DEF hookVars
<1> QED
  BY <1>2, <1>3, DispatchKeeps, AttemptKeeps, PauseOverKeeps DEF HooksNext

(* Deliveries and failures are what they are reported to be and the        *)
(* statistics add up, for any number of dispatches that overlap and any    *)
(* number of attempts (dispatcher.py:277-330).                             *)
THEOREM DeliveriesAlwaysAddUp == HooksSpec => []DeliveriesAddUp
BY HooksStart, HooksStep, HooksAddUp, PTL DEF HooksSpec
-----------------------------------------------------------------------------
(* Streams.  The sockets inside the lock are those being accepted or       *)
(* rejected, there is at most one, and one that is being accepted still    *)
(* finds a free seat.                                                      *)
Inside == {"accept", "reject"}

SeatsInv ==
  /\ handler \in [Sockets -> {"new", "connect", "accept", "reject", "receive", "encode", "leave", "ended"}]
  /\ registered \subseteq Sockets /\ IsFiniteSet(registered)
  /\ lockedBy = {s \in Sockets : handler[s] \in Inside}
  /\ \A s, t \in lockedBy : s = t
  /\ \A s \in Sockets : handler[s] = "accept" => Cardinality(registered) < MaxConnections
  /\ StreamSeats

LEMMA SeatsTaken ==
  ASSUME NEW S, IsFiniteSet(S), NEW x
  PROVE  /\ Cardinality(S) \in Nat /\ IsFiniteSet(S \cup {x})
         /\ Cardinality(S \cup {x}) <= Cardinality(S) + 1
  BY FS_CardinalityType, FS_AddElement

LEMMA SeatsFreed ==
  ASSUME NEW S, IsFiniteSet(S), NEW T
  PROVE  IsFiniteSet(S \ T) /\ Cardinality(S \ T) <= Cardinality(S)
         /\ Cardinality(S) \in Nat /\ Cardinality(S \ T) \in Nat
<1>1. S \ T \in SUBSET S
  OBVIOUS
<1> QED
  BY <1>1, FS_CardinalityType, FS_Subset

LEMMA SeatsInit == StreamInit => SeatsInv
<1> SUFFICES ASSUME StreamInit PROVE SeatsInv
  OBVIOUS
<1>1. IsFiniteSet({}) /\ Cardinality({}) = 0
  BY FS_EmptySet
<1> QED
  BY <1>1, StreamAssumption DEF StreamInit, SeatsInv, StreamSeats, Inside

(* A step that keeps the registry and leaves or enters no critical section. *)
LEMMA SeatsUntouched ==
  ASSUME SeatsInv, UNCHANGED <<registered, lockedBy>>, NEW s \in Sockets,
         NEW to \in {"connect", "receive", "encode", "leave", "ended"}, handler' = [handler EXCEPT ![s] = to],
         handler[s] \notin Inside, s \in registered => to \in {"receive", "encode", "leave"}
  PROVE  SeatsInv'
<1>1. handler' \in [Sockets -> {"new", "connect", "accept", "reject", "receive", "encode", "leave", "ended"}]
  BY DEF SeatsInv
<1>2. \A x \in Sockets : handler'[x] = IF x = s THEN to ELSE handler[x]
  BY DEF SeatsInv
<1>3. \A x \in Sockets : handler'[x] \in Inside <=> handler[x] \in Inside
  BY <1>2 DEF Inside
<1>4. lockedBy' = {x \in Sockets : handler'[x] \in Inside}
  BY <1>3 DEF SeatsInv
<1>5. \A x \in Sockets : handler'[x] = "accept" => Cardinality(registered') < MaxConnections
  BY <1>2 DEF SeatsInv
<1>6. StreamSeats'
  BY <1>2 DEF SeatsInv, StreamSeats
<1> QED
  BY <1>1, <1>4, <1>5, <1>6 DEF SeatsInv

LEMMA AdmitKeeps == ASSUME SeatsInv, NEW s \in Sockets, Admit(s) PROVE SeatsInv'
<1> DEFINE to == IF Cardinality(registered) >= MaxConnections THEN "reject" ELSE "accept"
<1>1. /\ handler[s] = "connect" /\ lockedBy = {} /\ lockedBy' = {s}
      /\ handler' = [handler EXCEPT ![s] = to] /\ registered' = registered
  BY DEF Admit, LockFree, SocketGoes
<1>2. Cardinality(registered) \in Nat /\ to \in Inside /\ (to = "accept" => Cardinality(registered) < MaxConnections)
  BY FS_CardinalityType, StreamAssumption DEF SeatsInv, Inside
<1> HIDE DEF to
<1>3. /\ handler' \in [Sockets -> {"new", "connect", "accept", "reject", "receive", "encode", "leave", "ended"}]
      /\ \A x \in Sockets : handler'[x] = IF x = s THEN to ELSE handler[x]
  BY <1>1, <1>2 DEF SeatsInv, Inside
<1>4. \A x \in Sockets : handler[x] \notin Inside
  BY <1>1 DEF SeatsInv
<1>5. s \notin registered
  BY <1>1 DEF SeatsInv, StreamSeats
<1>6. lockedBy' = {x \in Sockets : handler'[x] \in Inside}
  BY <1>1, <1>2, <1>3, <1>4
<1>7. \A x \in Sockets : handler'[x] = "accept" => Cardinality(registered') < MaxConnections
  BY <1>1, <1>2, <1>3, <1>4 DEF Inside
<1>8. StreamSeats'
  BY <1>1, <1>3, <1>5 DEF SeatsInv, StreamSeats
<1> QED
  BY <1>1, <1>3, <1>6, <1>7, <1>8 DEF SeatsInv

(* The socket inside the lock leaves it, with a seat or without one. *)
LEMMA LockLeft ==
  ASSUME SeatsInv, NEW s \in lockedBy, lockedBy' = lockedBy \ {s},
         NEW to \in {"receive", "ended"}, handler' = [handler EXCEPT ![s] = to],
         \/ registered' = registered /\ to = "ended"
         \/ registered' = registered \cup {s} /\ to = "receive" /\ handler[s] = "accept"
  PROVE  SeatsInv'
<1>1. s \in Sockets /\ handler[s] \in Inside /\ lockedBy' = {} /\ s \notin registered
  BY DEF SeatsInv, StreamSeats, Inside
<1>2. /\ handler' \in [Sockets -> {"new", "connect", "accept", "reject", "receive", "encode", "leave", "ended"}]
      /\ \A x \in Sockets : handler'[x] = IF x = s THEN to ELSE handler[x]
  BY <1>1 DEF SeatsInv
<1>3. \A x \in Sockets : handler'[x] \notin Inside
  BY <1>1, <1>2 DEF SeatsInv, Inside
<1>4. /\ registered' \subseteq Sockets /\ IsFiniteSet(registered')
      /\ Cardinality(registered') <= MaxConnections
  <2>1. Cardinality(registered) \in Nat /\ IsFiniteSet(registered \cup {s})
        /\ Cardinality(registered \cup {s}) <= Cardinality(registered) + 1
        /\ Cardinality(registered \cup {s}) \in Nat
    BY SeatsTaken, FS_CardinalityType DEF SeatsInv
  <2>2. handler[s] = "accept" => Cardinality(registered) + 1 <= MaxConnections
    BY <1>1, <2>1, StreamAssumption DEF SeatsInv
  <2>3. handler[s] = "accept" => Cardinality(registered \cup {s}) <= MaxConnections
    BY <2>1, <2>2, StreamAssumption
  <2> QED
    BY <1>1, <2>1, <2>3 DEF SeatsInv, StreamSeats
<1>5. \A x \in registered' : handler'[x] \in {"receive", "encode", "leave"}
  BY <1>1, <1>2 DEF SeatsInv, StreamSeats
<1>6. lockedBy' = {x \in Sockets : handler'[x] \in Inside}
  BY <1>1, <1>3
<1> QED
  BY <1>1, <1>2, <1>3, <1>4, <1>5, <1>6 DEF SeatsInv, StreamSeats, Inside

(* Seats are freed while nobody is inside the lock. *)
LEMMA FreedKeeps ==
  ASSUME SeatsInv, lockedBy = {}, UNCHANGED lockedBy, NEW T, registered' = registered \ T,
         \/ UNCHANGED handler
         \/ \E s \in Sockets : T = {s} /\ handler' = [handler EXCEPT ![s] = "ended"]
  PROVE  SeatsInv'
<1>1. \A x \in Sockets : handler[x] \notin Inside
  BY DEF SeatsInv
<1>2. /\ handler' \in [Sockets -> {"new", "connect", "accept", "reject", "receive", "encode", "leave", "ended"}]
      /\ \A x \in Sockets : handler'[x] = handler[x] \/ (handler'[x] = "ended" /\ x \in T)
  BY DEF SeatsInv
<1>3. \A x \in Sockets : handler'[x] \notin Inside
  BY <1>1, <1>2 DEF Inside
<1>4. IsFiniteSet(registered') /\ registered' \subseteq Sockets /\ Cardinality(registered') <= MaxConnections
  BY SeatsFreed, StreamAssumption DEF SeatsInv, StreamSeats
<1>5. \A x \in registered' : handler'[x] \in {"receive", "encode", "leave"}
  BY <1>2 DEF SeatsInv, StreamSeats
<1>6. lockedBy' = {x \in Sockets : handler'[x] \in Inside}
  BY <1>3
<1> QED
  BY <1>2, <1>3, <1>4, <1>5, <1>6 DEF SeatsInv, StreamSeats, Inside

LEMMA SeatsStep == SeatsInv /\ [StreamNext]_streamVars => SeatsInv'
<1> SUFFICES ASSUME SeatsInv, [StreamNext]_streamVars PROVE SeatsInv'
  OBVIOUS
<1>1. CASE UNCHANGED <<handler, registered, lockedBy>>
  BY <1>1 DEF SeatsInv, StreamSeats
<1>2. CASE NewFrame \/ BroadcastStarts \/ UNCHANGED streamVars
  BY <1>1, <1>2 DEF NewFrame, BroadcastStarts, streamVars
<1>3. CASE BroadcastEnds
  <2>1. PICK dead : registered' = registered \ dead
    BY <1>3 DEF BroadcastEnds
  <2>2. lockedBy = {} /\ UNCHANGED <<lockedBy, handler>>
    BY <1>3 DEF BroadcastEnds, LockFree
  <2> QED
    BY <2>1, <2>2, FreedKeeps
<1>4. ASSUME NEW s \in Sockets, ClientComes(s) \/ ClientGoes(s) PROVE SeatsInv'
  <2>1. CASE ClientGoes(s)
    BY <1>1, <2>1 DEF ClientGoes
  <2>2. CASE ClientComes(s)
    <3>1. /\ handler[s] = "new" /\ handler' = [handler EXCEPT ![s] = "connect"]
          /\ UNCHANGED <<registered, lockedBy>>
      BY <2>2 DEF ClientComes, SocketGoes
    <3>2. s \notin registered /\ handler[s] \notin Inside
      BY <3>1 DEF SeatsInv, StreamSeats, Inside
    <3> QED
      BY <3>1, <3>2, SeatsUntouched
  <2> QED
    BY <1>4, <2>1, <2>2
<1>5. ASSUME NEW s \in Sockets, Admit(s) PROVE SeatsInv'
  BY <1>5, AdmitKeeps
<1>6. ASSUME NEW s \in Sockets, Rejected(s) \/ SocketAccepted(s) PROVE SeatsInv'
  <2>1. s \in lockedBy
    BY <1>6 DEF Rejected, SocketAccepted, SeatsInv, Inside
  <2> QED
    BY <1>6, <2>1, LockLeft DEF Rejected, SocketAccepted, SocketGoes
<1>7. ASSUME NEW s \in Sockets, Receive(s) \/ Encoded(s) PROVE SeatsInv'
  <2>1. PICK to \in {"receive", "encode", "leave"} : handler' = [handler EXCEPT ![s] = to]
    BY <1>7 DEF Receive, Encoded, SocketGoes
  <2>2. handler[s] \notin Inside /\ UNCHANGED <<registered, lockedBy>>
    BY <1>7 DEF Receive, Encoded, Inside
  <2> QED
    BY <2>1, <2>2, SeatsUntouched
<1>8. ASSUME NEW s \in Sockets, Leave(s) PROVE SeatsInv'
  <2>1. /\ lockedBy = {} /\ UNCHANGED lockedBy /\ registered' = registered \ {s}
        /\ handler' = [handler EXCEPT ![s] = "ended"]
    BY <1>8 DEF Leave, LockFree, SocketGoes
  <2> QED
    BY <2>1, FreedKeeps
<1> QED
  BY <1>2, <1>3, <1>4, <1>5, <1>6, <1>7, <1>8 DEF StreamNext

(* The registry never exceeds its limit and holds no socket whose handler  *)
(* has ended, for any limit and any number of clients that come, go away   *)
(* and are broadcast to (stream.py:53-102).                                *)
THEOREM SeatsAlways == StreamSpec => []StreamSeats
<1>1. SeatsInv => StreamSeats
  BY DEF SeatsInv
<1> QED
  BY SeatsInit, SeatsStep, <1>1, PTL DEF StreamSpec
=============================================================================
