------------------------------ MODULE Reports ------------------------------
(***************************************************************************)
(* Incident reports (reports/trigger.py): a debouncer in front of a        *)
(* bounded queue, and one worker that has each report written by a         *)
(* language model, inserts its row, builds the PDF and stores its path.    *)
(* All but the rows is in memory.                                          *)
(***************************************************************************)
EXTENDS Naturals, Sequences

CONSTANTS
  Keys,            \* the pairs of a track and a class
  BaseSeverity,    \* _SEVERITY_MAP by key
  Debounce, MaxQueue, LastTick, MaxReports,
  Primary, Fallback, OpenAiKey    \* the configured language models

VARIABLES
  clock,
  lastReported, shiftCounts,   \* the debouncer's memory; Never for no report
  queue,
  working,      \* the worker's job and how far it is
  reports,      \* incident_reports, with the job each row stands for
  boot          \* times the process was started
reportVars == <<clock, lastReported, shiftCounts, queue, working, reports, boot>>

Never == LastTick + 1
Nothing == [at |-> "idle"]

ReportsInit ==
  /\ clock = 0 /\ boot = 1
  /\ lastReported = [k \in Keys |-> Never]
  /\ shiftCounts = [k \in Keys |-> 0]
  /\ queue = <<>> /\ working = Nothing /\ reports = <<>>

-----------------------------------------------------------------------------
ShouldReport(k) == lastReported[k] = Never \/ clock > lastReported[k] + Debounce

(* _get_severity: earlier reports of the same track and class raise it *)
GetSeverity(k, prior) ==
  LET base == BaseSeverity[k] IN
    IF prior >= 3 THEN "CRITICAL"
    ELSE IF prior >= 1 /\ base = "MEDIUM" THEN "HIGH"
    ELSE IF prior >= 1 /\ base = "LOW" THEN "MEDIUM" ELSE base

(* enqueue: the key is recorded as reported before anything is generated.  *)
(* Between the test of full() and put no other task can run.               *)
Enqueue(k) ==
  /\ Len(reports) + Len(queue) < MaxReports
  /\ IF ShouldReport(k) /\ Len(queue) < MaxQueue
     THEN /\ lastReported' = [lastReported EXCEPT ![k] = clock]
          /\ shiftCounts' = [shiftCounts EXCEPT ![k] = @ + 1]
          /\ queue' = Append(queue, [key |-> k, at |-> clock, prior |-> shiftCounts[k], boot |-> boot])
     ELSE UNCHANGED <<lastReported, shiftCounts, queue>>
  /\ UNCHANGED <<clock, working, reports, boot>>

(* _worker_loop takes the oldest job *)
TakeJob ==
  /\ working = Nothing /\ queue # <<>>
  /\ working' = [at |-> "generate", job |-> Head(queue)]
  /\ queue' = Tail(queue)
  /\ UNCHANGED <<clock, lastReported, shiftCounts, reports, boot>>

(* generate_report: the manager first when it is primary, then the older   *)
(* backends in their order; each may fail.                                 *)
Backends ==
  (IF Primary = "openai" /\ OpenAiKey THEN {"gpt-4o"} ELSE {})
  \cup (IF Primary \in {"ollama", "llm_manager"} THEN {"ollama"} ELSE {})
  \cup (IF Fallback = "openai" /\ OpenAiKey THEN {"gpt-4o"} ELSE {})
GeneratedBy == Backends \cup (IF Primary = "llm_manager" THEN {"llm_manager"} ELSE {})

(* _process_job keeps every failure to itself: the job is not tried again *)
Fail == working.at # "idle" /\ working' = Nothing /\ UNCHANGED reports
Generate ==
  /\ working.at = "generate"
  /\ \/ GeneratedBy # {} /\ working' = [working EXCEPT !.at = "insert"]
     \/ working' = Nothing
  /\ UNCHANGED <<clock, lastReported, shiftCounts, queue, reports, boot>>

InsertReport ==
  /\ working.at = "insert"
  /\ \/ /\ reports' = Append(reports, [key |-> working.job.key, at |-> working.job.at, boot |-> working.job.boot,
                                       prior |-> working.job.prior, hasPdf |-> FALSE,
                                       severity |-> GetSeverity(working.job.key, working.job.prior)])
        /\ working' = [at |-> "pdf", row |-> Len(reports) + 1]
     \/ Fail
  /\ UNCHANGED <<clock, lastReported, shiftCounts, queue, boot>>

(* build_pdf removes a partial file; the path is stored afterwards *)
BuildPdf ==
  /\ working.at = "pdf"
  /\ reports' \in {reports, [reports EXCEPT ![working.row].hasPdf = TRUE]}
  /\ working' = Nothing
  /\ UNCHANGED <<clock, lastReported, shiftCounts, queue, boot>>

(* stop_worker cancels the job in hand, and the queue goes with the process *)
RestartReports ==
  /\ boot < 2 /\ boot' = boot + 1
  /\ lastReported' = [k \in Keys |-> Never]
  /\ shiftCounts' = [k \in Keys |-> 0]
  /\ queue' = <<>> /\ working' = Nothing
  /\ UNCHANGED <<clock, reports>>

ReportsTick ==
  /\ clock < LastTick /\ clock' = clock + 1
  /\ UNCHANGED <<lastReported, shiftCounts, queue, working, reports, boot>>

ReportsNext ==
  \/ \E k \in Keys : Enqueue(k)
  \/ TakeJob \/ Generate \/ InsertReport \/ BuildPdf
  \/ RestartReports \/ ReportsTick

-----------------------------------------------------------------------------
(* Weekly reports (reports/weekly_scheduler.py): each request is a task of *)
(* its own that aggregates a week, writes a row, builds a PDF and stores   *)
(* its path.  The statements are taken against the columns they name;      *)
(* database.py creates weekly_reports with fewer.                          *)
CONSTANTS WeeklyTasks, Weeks

VARIABLES
  weekly,       \* the week of each task and how far it is
  weeklyRow,    \* the weekly_reports row of today: the week it names, its PDF's week
  pdfs          \* weekly PDF files on disk, by week
weeklyVars == <<weekly, weeklyRow, pdfs>>

NoWeekly == [at |-> "idle", week |-> 0]

WeeklyInit ==
  /\ weekly = [t \in WeeklyTasks |-> NoWeekly]
  /\ weeklyRow = [named |-> 0, pdf |-> 0]
  /\ pdfs = {}

-----------------------------------------------------------------------------
(* POST /weekly-reports/generate, or the scheduler.  The row is keyed by   *)
(* the day it is made on; a second report of the day keeps the week the    *)
(* first one named.  _email_report asks the configuration for a session    *)
(* factory it does not have, so every task that reaches it ends there.     *)
TriggerWeekly(t, week) ==
  /\ weekly[t].at = "idle"
  /\ weekly' = [weekly EXCEPT ![t] = [at |-> "aggregate", week |-> week]]
  /\ UNCHANGED <<weeklyRow, pdfs>>

(* generate_llm_summary has a template to fall back on and does not fail *)
Aggregate(t) ==
  /\ weekly[t].at = "aggregate"
  /\ weekly' \in {[weekly EXCEPT ![t].at = "store"], [weekly EXCEPT ![t] = NoWeekly]}
  /\ UNCHANGED <<weeklyRow, pdfs>>

StoreWeekly(t) ==
  /\ weekly[t].at = "store"
  /\ \/ /\ weeklyRow' = IF weeklyRow.named = 0 THEN [weeklyRow EXCEPT !.named = weekly[t].week] ELSE weeklyRow
        /\ weekly' = [weekly EXCEPT ![t].at = "pdf"]
     \/ weekly' = [weekly EXCEPT ![t] = NoWeekly] /\ UNCHANGED weeklyRow
  /\ UNCHANGED pdfs

BuildWeeklyPdf(t) ==
  /\ weekly[t].at = "pdf"
  /\ \/ pdfs' = pdfs \cup {weekly[t].week} /\ weekly' = [weekly EXCEPT ![t].at = "path"]
     \/ weekly' = [weekly EXCEPT ![t] = NoWeekly] /\ UNCHANGED pdfs
  /\ UNCHANGED weeklyRow

StorePath(t) ==
  /\ weekly[t].at = "path"
  /\ weeklyRow' \in {weeklyRow, [weeklyRow EXCEPT !.pdf = weekly[t].week]}
  /\ weekly' = [weekly EXCEPT ![t] = NoWeekly]
  /\ UNCHANGED pdfs

(* the tasks are in memory *)
RestartWeekly ==
  /\ weekly' = [t \in WeeklyTasks |-> NoWeekly]
  /\ UNCHANGED <<weeklyRow, pdfs>>

WeeklyNext ==
  \/ \E t \in WeeklyTasks :
       \/ \E w \in Weeks : TriggerWeekly(t, w)
       \/ Aggregate(t) \/ StoreWeekly(t) \/ BuildWeeklyPdf(t) \/ StorePath(t)
  \/ RestartWeekly
=============================================================================
