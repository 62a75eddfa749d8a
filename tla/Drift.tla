------------------------------- MODULE Drift -------------------------------
(***************************************************************************)
(* Drift monitoring (monitoring/): the accumulator of one day's inference  *)
(* statistics, its flushes into inference_stats_daily, the reference made  *)
(* after training and the daily check that compares yesterday's row with   *)
(* it.  A frame counts as "seen" when it has detections, and its           *)
(* confidences are the samples the check needs enough of.  The statements  *)
(* are taken against the columns they name; database.py creates both       *)
(* tables with other ones.                                                 *)
(***************************************************************************)
EXTENDS Naturals, FiniteSets, FiniteSetsExt

CONSTANTS
  LastFrameDay, MaxFramesADay,
  Enough,          \* samples below which the check says nothing (100 in the code)
  MaxSamples,      \* DRIFT_MAX_SAMPLE_SIZE
  Flushers,        \* overlapping flushes of the accumulator
  PsiLevels,       \* stability indices tried, in hundredths
  PsiThreshold,    \* DRIFT_PSI_THRESHOLD
  KsThreshold      \* DRIFT_KS_PVALUE_THRESHOLD, in hundredths

ASSUME DriftAssumption == LastFrameDay \in Nat /\ Enough \in Nat /\ MaxSamples \in Nat

Days == 0..LastFrameDay
Empty == [frames |-> 0, seen |-> 0]

VARIABLES
  day,         \* today
  happened,    \* what the pipeline really processed, by day
  acc,         \* DailyStatsAccumulator: its date and counters
  due,         \* the flush interval is over
  flushing,    \* the summary each flush has taken, "none" before
  daily,       \* inference_stats_daily
  reference,   \* state of the reference file
  check,       \* the daily check under way
  results      \* drift_results: day filed under and verdict; history: day judged
driftVars == <<day, happened, acc, due, flushing, daily, reference, check, results>>

NoSummary == [date |-> LastFrameDay + 2, stats |-> Empty]
NoRow == [stored |-> FALSE, stats |-> Empty]
NoCheck == [at |-> "idle", of |-> 0, on |-> 0, drifted |-> FALSE]

DriftInit ==
  /\ day = 0
  /\ happened = [d \in Days |-> Empty]
  /\ acc = [date |-> 0, stats |-> Empty]
  /\ due = FALSE
  /\ flushing = [f \in Flushers |-> NoSummary]
  /\ daily = [d \in Days |-> NoRow]
  /\ reference = "missing"
  /\ check = NoCheck
  /\ results = {}

-----------------------------------------------------------------------------
Counted(s, seen) ==
  [frames |-> s.frames + 1, seen |-> s.seen + (IF seen THEN 1 ELSE 0)]

(* a variant that keeps the old date, for comparison *)
Accumulated_KeepsDate(seen) == [acc EXCEPT !.stats = Counted(@, seen)]

(* record_frame starts over when the date has changed, whatever of the old *)
(* day was not flushed                                                     *)
Accumulated(seen) ==
  IF acc.date # day THEN [date |-> day, stats |-> Counted(Empty, seen)]
                    ELSE [acc EXCEPT !.stats = Counted(@, seen)]

RecordFrame(seen) ==
  /\ day \in Days /\ happened[day].frames < MaxFramesADay
  /\ happened' = [happened EXCEPT ![day] = Counted(@, seen)]
  /\ acc' = Accumulated(seen)
  /\ due' = IF acc.date # day THEN FALSE ELSE due
  /\ UNCHANGED <<day, flushing, daily, reference, check, results>>

(* should_flush, then get_summary *)
ShouldFlush == due \/ acc.date # day
TakeSummary(f) ==
  /\ flushing[f] = NoSummary
  /\ ShouldFlush
  /\ acc.date \in Days
  /\ flushing' = [flushing EXCEPT ![f] = acc]
  /\ UNCHANGED <<day, happened, acc, due, daily, reference, check, results>>

(* flush_stats_to_db replaces the day's row; mark_flushed follows a commit *)
FlushStats(f) ==
  /\ flushing[f] # NoSummary
  /\ \/ /\ daily' = [daily EXCEPT ![flushing[f].date] = [stored |-> TRUE, stats |-> flushing[f].stats]]
        /\ due' = FALSE
     \/ UNCHANGED <<daily, due>>
  /\ flushing' = [flushing EXCEPT ![f] = NoSummary]
  /\ UNCHANGED <<day, happened, acc, reference, check, results>>

IntervalOver ==
  /\ ~due /\ due' = TRUE
  /\ UNCHANGED <<day, happened, acc, flushing, daily, reference, check, results>>

NextDay ==
  /\ day <= LastFrameDay /\ day' = day + 1
  /\ UNCHANGED <<happened, acc, due, flushing, daily, reference, check, results>>

(* the accumulator is in memory: what was not flushed is gone *)
RestartLogger ==
  /\ acc' = [date |-> day, stats |-> Empty]
  /\ due' = FALSE
  /\ flushing' = [f \in Flushers |-> NoSummary]
  /\ UNCHANGED <<day, happened, daily, reference, check, results>>

-----------------------------------------------------------------------------
(* save_reference writes a temporary file and renames it: a failure leaves *)
(* the old reference.  Fewer than 100 confidences do not validate.         *)
SaveReference ==
  /\ reference = "missing"
  /\ reference' \in {"valid", "missing"}
  /\ UNCHANGED <<day, happened, acc, due, flushing, daily, check, results>>

(* load_reference answers None for a missing or a corrupted file *)
CorruptReference ==
  /\ reference = "valid" /\ reference' = "corrupt"
  /\ UNCHANGED <<day, happened, acc, due, flushing, daily, check, results>>

DriftSeverity(conf, class, ks) ==
  LET worst == Max({conf, class}) IN
    CASE worst > 50 -> "critical"
      [] worst <= 50 /\ worst > PsiThreshold -> "high"
      [] worst <= 50 /\ worst <= PsiThreshold /\ (worst > 10 \/ ks < KsThreshold) -> "medium"
      [] OTHER -> IF conf > 5 THEN "low" ELSE "none"

(* The row keeps no raw confidences: as many are drawn from a fitted       *)
(* distribution as there were detections.                                  *)
SamplesOf(stats) == Min({stats.seen, MaxSamples})

(* the indices say nothing of an empty day, else anything *)
ConfPsi(samples) == IF samples = 0 THEN {0} ELSE PsiLevels
ClassPsi(classes) == IF classes = 0 THEN {0} ELSE PsiLevels
KsPValues == {0, 100}

(* detect_drift on a row: too few samples are no drift *)
Detects(stats, conf, class, ks) ==
  /\ SamplesOf(stats) >= Enough
  /\ DriftSeverity(conf, class, ks) \in {"high", "critical"}

(* run_daily_drift_check, a process of its own, reads the date three       *)
(* times: first for the day it asks the statistics of.                     *)
CheckReads ==
  /\ check = NoCheck /\ reference = "valid" /\ day > 0
  /\ check' = [NoCheck EXCEPT !.at = "asked", !.of = day - 1]
  /\ UNCHANGED <<day, happened, acc, due, flushing, daily, reference, results>>

(* The row arrives, maybe on a later day.  It is judged, and the report    *)
(* and the result are filed under the date it is then.                     *)
CheckSelects ==
  /\ check.at = "asked" /\ daily[check.of].stored
  /\ LET stats == daily[check.of].stats IN
       \E conf \in ConfPsi(SamplesOf(stats)), class \in ClassPsi(stats.seen), ks \in KsPValues :
         check' = [at |-> "judged", of |-> check.of, on |-> day, drifted |-> Detects(stats, conf, class, ks)]
  /\ UNCHANGED <<day, happened, acc, due, flushing, daily, reference, results>>

(* no row of that day, or no database *)
CheckSkipped ==
  /\ check.at = "asked" /\ check' = NoCheck
  /\ UNCHANGED <<day, happened, acc, due, flushing, daily, reference, results>>

(* save_drift_result, with the note that retraining is wanted: a failed    *)
(* insert is logged and forgotten.                                         *)
SaveResult ==
  /\ check.at = "judged" /\ check' = NoCheck
  /\ \/ results' = results \cup {[on |-> check.on, of |-> check.of, drifted |-> check.drifted, retrain |-> check.drifted]}
     \/ UNCHANGED results
  /\ UNCHANGED <<day, happened, acc, due, flushing, daily, reference>>

DriftNext ==
  \/ \E seen \in BOOLEAN : RecordFrame(seen)
  \/ \E f \in Flushers : TakeSummary(f) \/ FlushStats(f)
  \/ IntervalOver \/ NextDay \/ RestartLogger
  \/ SaveReference \/ CorruptReference
  \/ CheckReads \/ CheckSelects \/ CheckSkipped \/ SaveResult

DriftSpec == DriftInit /\ [][DriftNext]_driftVars

-----------------------------------------------------------------------------
(* A check that asks for retraining had enough detections of the one day   *)
(* it judged, a day that was over by then: no frame of another day is      *)
(* counted in a day's row by the rollover, by a late flush, after a        *)
(* restart or by a midnight within the check (inference_logger.py:99,      *)
(* drift_reporter.py:107, :385).                                           *)
RetrainHasADay ==
  \A r \in results : r.retrain => r.of < r.on /\ happened[r.of].seen >= Enough
=============================================================================
