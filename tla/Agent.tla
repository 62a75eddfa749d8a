------------------------------- MODULE Agent -------------------------------
(***************************************************************************)
(* The violation agent (agent/, routes/agent_route.py): each trigger       *)
(* starts a task that walks the graph of eight nodes.  Several runs are    *)
(* under way at once: run_agent enters a semaphore that it has just made,  *)
(* so none ever waits for another.  The alert worker that takes the queued *)
(* alerts is external here (see AlertDelivery).                            *)
(***************************************************************************)
EXTENDS Integers, Sequences, FiniteSets, SequencesExt

CONSTANTS
  Runs,         \* run ids
  Clients,      \* addresses that call POST /agent/trigger
  Classes,      \* violation classes
  Prior, RepeatThreshold,  \* violations of the week, and how many make a repeat offender
  LlmScores,    \* scores the language model answers with
  SeverityThreshold,
  RateMax, RateWindow, LastSecond,
  AlertRoom     \* capacity of the alert worker's queue

ASSUME AgentAssumption == LlmScores \subseteq Int /\ SeverityThreshold \in Int

VARIABLES
  second,
  rateStore,     \* _rate_store: the times of each client's triggers
  run,           \* the AgentState of each run, and the node it is at
  activeTasks,   \* _active_agent_tasks: the run registered under each name
  agentRuns,     \* rows of agent_runs
  agentReports,  \* runs whose row is in incident_reports
  compliance,    \* worker_compliance, in half points
  alerts         \* alerts in the worker's queue
agentVars == <<second, rateStore, run, activeTasks, agentRuns, agentReports, compliance, alerts>>

NotRun == [at |-> "idle"]

AgentInit ==
  /\ second = 0
  /\ rateStore = [c \in Clients |-> <<>>]
  /\ run = [r \in Runs |-> NotRun]
  /\ activeTasks = [c \in {} |-> NotRun]
  /\ agentRuns = {} /\ agentReports = {}
  /\ compliance = 200 /\ alerts = 0

-----------------------------------------------------------------------------
(* get_worker_violation_history *)
WorkerHistory == [total |-> Prior, repeat |-> Prior >= RepeatThreshold]

(* node_score_severity: the rule's score, two higher for a repeat offender *)
RuleScore(class, repeat) ==
  LET base == CASE class = "no hardhat" -> 8
                [] class = "no mask" -> 7
                [] class = "no goggles" -> 6
                [] class = "no suit" -> 4
                [] OTHER -> 5
  IN IF repeat THEN (IF base + 2 > 10 THEN 10 ELSE base + 2) ELSE base
Clamped(s) == IF s < 1 THEN 1 ELSE IF s > 10 THEN 10 ELSE s

(* node_decide_alert_level *)
AlertLevel(score, repeat) ==
  CASE score <= 3 -> IF repeat THEN "LOW" ELSE "NONE"
    [] score \in 4 .. 5 -> "LOW"
    [] score \in 6 .. 7 -> "MEDIUM"
    [] score = 8 -> IF repeat THEN "CRITICAL" ELSE "HIGH"
    [] OTHER -> "CRITICAL"
ShouldReportRun(st) == st.score >= SeverityThreshold
ShouldAlert(st) == st.level \in {"HIGH", "CRITICAL"}

RouteAfterDecide(st) == IF ShouldReportRun(st) THEN "report" ELSE "alert"
(* a variant that gives up on a run in error, for comparison *)
RouteAfterReport_GivesUp(st) == IF ShouldAlert(st) /\ ~st.failed THEN "alert" ELSE "log"
RouteAfterReport(st) == IF ShouldAlert(st) THEN "alert" ELSE "log"

(* _COMPLIANCE_DELTA, in half points *)
ComplianceDelta(score) == <<-1, -2, -3, -4, -6, -8, -10, -14, -20, -30>>[score]

(* update_compliance_score: what the statement makes of the stored score *)
Deducted(now, score) ==
  LET next == now + ComplianceDelta(score) IN IF next < 0 THEN 0 ELSE next

(* log_agent_run *)
RunRow(r) ==
  [id |-> r, score |-> run[r].score, level |-> run[r].level, sent |-> run[r].sent,
   trace |-> run[r].trace, status |-> run[r].status]

Keep(st, node) == [st EXCEPT !.trace = @ \cup {st.at}, !.at = node]

(* the done callback removes whatever is registered under the task's name *)
Unregister(c) == [n \in DOMAIN activeTasks \ {c} |-> activeTasks[n]]

-----------------------------------------------------------------------------
(* manual_trigger, _check_rate_limit and trigger_from_violation: a task of *)
(* the same track and class takes over the name of one still running.      *)
TriggerAgent(c, r, class) ==
  LET fresh == SelectSeq(rateStore[c], LAMBDA t : second - t < RateWindow)
      start == [at |-> "detect", class |-> class, repeat |-> FALSE, score |-> 0, level |-> "",
                sent |-> FALSE, failed |-> FALSE, trace |-> {}, status |-> "RUNNING"]
  IN
  /\ run[r] = NotRun
  /\ IF Len(fresh) >= RateMax
     THEN /\ rateStore' = [rateStore EXCEPT ![c] = fresh]
          /\ UNCHANGED <<run, activeTasks>>
     ELSE /\ rateStore' = [rateStore EXCEPT ![c] = Append(fresh, second)]
          /\ run' = [run EXCEPT ![r] = start]
          /\ activeTasks' = [n \in DOMAIN activeTasks \cup {class} |->
                               IF n = class THEN r ELSE activeTasks[n]]
  /\ UNCHANGED <<second, agentRuns, agentReports, compliance, alerts>>

(* node_detect_violation: the route lets no malformed event through *)
DetectViolation(r) ==
  /\ run[r].at = "detect"
  /\ run' = [run EXCEPT ![r] = Keep(@, "history")]
  /\ UNCHANGED <<second, rateStore, activeTasks, agentRuns, agentReports, compliance, alerts>>

(* node_check_worker_history: get_worker_violation_history answers with a  *)
(* WorkerHistory object, which the node then subscripts.  That raises, as  *)
(* a failing query does, and the node goes on with an empty history.       *)
CheckWorkerHistory(r) ==
  /\ run[r].at = "history"
  /\ run' = [run EXCEPT ![r] = [Keep(@, "score") EXCEPT !.repeat = FALSE, !.failed = TRUE]]
  /\ UNCHANGED <<second, rateStore, activeTasks, agentRuns, agentReports, compliance, alerts>>

(* the model answers with a score, or fails and the rule decides *)
ScoreSeverity(r) ==
  /\ run[r].at = "score"
  /\ \E s \in LlmScores \cup {RuleScore(run[r].class, run[r].repeat)} :
       run' = [run EXCEPT ![r] = [Keep(@, "decide") EXCEPT !.score = Clamped(s)]]
  /\ UNCHANGED <<second, rateStore, activeTasks, agentRuns, agentReports, compliance, alerts>>

DecideAlertLevel(r) ==
  /\ run[r].at = "decide"
  /\ LET level == AlertLevel(run[r].score, run[r].repeat)
         decided == [run[r] EXCEPT !.level = level]
     IN run' = [run EXCEPT ![r] = Keep(decided, RouteAfterDecide(decided))]
  /\ UNCHANGED <<second, rateStore, activeTasks, agentRuns, agentReports, compliance, alerts>>

(* node_generate_report writes the report's row, or keeps its failure *)
GenerateReport(r) ==
  /\ run[r].at = "report"
  /\ \/ /\ run' = [run EXCEPT ![r] = Keep(@, RouteAfterReport(@))]
        /\ agentReports' = agentReports \cup {r}
     \/ /\ LET failed == [run[r] EXCEPT !.failed = TRUE]
           IN run' = [run EXCEPT ![r] = Keep(failed, RouteAfterReport(failed))]
        /\ UNCHANGED agentReports
  /\ UNCHANGED <<second, rateStore, activeTasks, agentRuns, compliance, alerts>>

(* node_send_alert: nothing for a lower level; a job that is refused for   *)
(* want of a zone counts as an error, a full queue does not.               *)
SendAlert(r) ==
  /\ run[r].at = "alert"
  /\ \/ /\ ShouldAlert(run[r]) /\ alerts < AlertRoom
        /\ alerts' = alerts + 1
        /\ run' = [run EXCEPT ![r] = [Keep(@, "log") EXCEPT !.sent = TRUE]]
     \/ /\ ~ShouldAlert(run[r]) \/ alerts = AlertRoom
        /\ run' = [run EXCEPT ![r] = Keep(@, "log")]
        /\ UNCHANGED alerts
     \/ /\ ShouldAlert(run[r])
        /\ run' = [run EXCEPT ![r] = [Keep(@, "log") EXCEPT !.failed = TRUE]]
        /\ UNCHANGED alerts
  /\ UNCHANGED <<second, rateStore, activeTasks, agentRuns, agentReports, compliance>>

(* node_log_to_database and log_agent_run: three attempts, and a failure   *)
(* of all of them is only logged.  The row is what the run knows by now.   *)
LogToDatabase(r) ==
  /\ run[r].at = "log"
  /\ run' = [run EXCEPT ![r] = Keep(@, "compliance")]
  /\ \/ agentRuns' = agentRuns \cup {RunRow(r)}
     \/ UNCHANGED agentRuns
  /\ UNCHANGED <<second, rateStore, activeTasks, agentReports, compliance, alerts>>

(* node_update_compliance: one statement changes the score in place *)
UpdateCompliance(r) ==
  /\ run[r].at = "compliance"
  /\ \E status \in {"COMPLETE", "COMPLETE_WITH_ERRORS"} :
       /\ run' = [run EXCEPT ![r] = [Keep(@, "done") EXCEPT !.status = status]]
       /\ compliance' = IF status = "COMPLETE" THEN Deducted(compliance, run[r].score) ELSE compliance
  /\ activeTasks' = Unregister(run[r].class)
  /\ UNCHANGED <<second, rateStore, agentRuns, agentReports, alerts>>

(* run_agent: the time is over at whatever node the run is, and what it    *)
(* did so far stays; or the graph itself raises.                           *)
CutShort(r) ==
  /\ run[r].at \notin {"idle", "done"}
  /\ \E status \in {"TIMEOUT", "FAILED"} :
       run' = [run EXCEPT ![r] = [@ EXCEPT !.at = "done", !.status = status]]
  /\ activeTasks' = Unregister(run[r].class)
  /\ UNCHANGED <<second, rateStore, agentRuns, agentReports, compliance, alerts>>

Second ==
  /\ second < LastSecond
  /\ second' = second + 1
  /\ UNCHANGED <<rateStore, run, activeTasks, agentRuns, agentReports, compliance, alerts>>

DrainAlert ==
  /\ alerts > 0
  /\ alerts' = alerts - 1
  /\ UNCHANGED <<second, rateStore, run, activeTasks, agentRuns, agentReports, compliance>>

AgentNext ==
  \/ \E c \in Clients, r \in Runs, class \in Classes : TriggerAgent(c, r, class)
  \/ \E r \in Runs :
       \/ DetectViolation(r) \/ CheckWorkerHistory(r) \/ ScoreSeverity(r)
       \/ DecideAlertLevel(r) \/ GenerateReport(r) \/ SendAlert(r)
       \/ LogToDatabase(r) \/ UpdateCompliance(r) \/ CutShort(r)
  \/ Second \/ DrainAlert

AgentSpec == AgentInit /\ [][AgentNext]_agentVars

-----------------------------------------------------------------------------
(* Whatever failed before it, a stored run of level HIGH or CRITICAL has   *)
(* been at the alert node, and one at the threshold at the report node.    *)
(* (Whether the node then queued an alert depends on its room.)            *)
DangerIsRaised ==
  \A row \in agentRuns :
    /\ row.level \in {"HIGH", "CRITICAL"} => "alert" \in row.trace
    /\ row.score >= SeverityThreshold => "report" \in row.trace

(* What node_decide_alert_level says of itself: score 8 and a repeat       *)
(* offender make CRITICAL, and a low score of one makes LOW.               *)
RepeatEscalates ==
  WorkerHistory.repeat => \A row \in agentRuns : row.score = 8 => row.level = "CRITICAL"
=============================================================================
