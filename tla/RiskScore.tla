----------------------------- MODULE RiskScore -----------------------------
(***************************************************************************)
(* compute_worker_risk (backend/identity/risk_scorer.py): the score of one *)
(* worker from the violations of the last history_days, each weighted by   *)
(* severity and by age.  Ages are whole days; scores are counted in        *)
(* seventieths, which makes the linear decay 1 - 0.9 d / 7 exact.          *)
(***************************************************************************)
EXTENDS Integers, FiniteSets, FiniteSetsExt

CONSTANTS
  SeverityLevels,   \* the severity_level values that occur
  HistoryDays, HighThreshold, CriticalThreshold,
  MaxViolations     \* bound: violations of the worker that are still in the table

ASSUME RiskAssumption ==
  /\ IsFiniteSet(SeverityLevels) /\ HistoryDays \in Nat
  /\ HighThreshold \in Nat \ {0} /\ CriticalThreshold \in Nat \ {0}

VARIABLES
  violations,       \* how many rows per age in days and severity level
  nights            \* midnights since the last violation, up to HistoryDays + 1

riskVars == <<violations, nights>>

Ages == 0..HistoryDays + 1     \* the last one: too old to be selected
Kinds == Ages \X SeverityLevels

RiskInit ==
  /\ violations = [k \in Kinds |-> 0]
  /\ nights = HistoryDays + 1

Violation(level) ==
  /\ MapThenSumSet(LAMBDA k : violations[k], Kinds) < MaxViolations
  /\ violations' = [violations EXCEPT ![<<0, level>>] = @ + 1]
  /\ nights' = 0

DayPasses ==
  /\ violations' = [k \in Kinds |-> IF k[1] = 0 \/ k[1] = HistoryDays + 1 THEN 0 ELSE violations[<<k[1] - 1, k[2]>>]]
  /\ nights' = IF nights <= HistoryDays THEN nights + 1 ELSE nights

RiskNext == (\E l \in SeverityLevels : Violation(l)) \/ DayPasses

RiskSpec == RiskInit /\ [][RiskNext]_riskVars

-----------------------------------------------------------------------------
(* _SEV_MAP, then _severity_weight *)
SeverityOf(level) ==
  CASE level = "CRITICAL" -> 10 [] level = "HIGH" -> 7 [] level = "LOW" -> 3 [] OTHER -> 5

SeverityWeight(severity) ==
  CASE severity \in 1..3 -> 1 [] severity \in 4..6 -> 2 [] severity \in 7..8 -> 4 [] severity \in 9..10 -> 8

RecencyWeight(days) == IF 70 - 9 * days > 7 THEN 70 - 9 * days ELSE 7

Selected == {k \in Kinds : k[1] <= HistoryDays}

Contribution == [k \in Kinds |-> violations[k] * SeverityWeight(SeverityOf(k[2])) * RecencyWeight(k[1])]
ScoreOf(kinds) == SumFunctionOnSet(Contribution, kinds)

\* Mutant: the comparison with the two days is the wrong way round.
RecentKinds_Older == {k \in Selected : k[1] >= 2}
RecentKinds == {k \in Selected : k[1] <= 2}

Score == ScoreOf(Selected)
RecentScore == ScoreOf(RecentKinds)
OlderScore == ScoreOf(Selected \ RecentKinds)

RiskLevel ==
  IF Score >= 70 * CriticalThreshold THEN "CRITICAL"
  ELSE IF Score >= 70 * HighThreshold THEN "HIGH" ELSE "LOW"

Trend ==
  CASE OlderScore > 0 /\ 2 * RecentScore > 3 * OlderScore -> "worsening"
    [] OlderScore > 0 /\ 2 * RecentScore < OlderScore -> "improving"
    [] OlderScore = 0 /\ RecentScore > 0 -> "worsening"
    [] OTHER -> "stable"

Rank(level) == CASE level = "LOW" -> 0 [] level = "HIGH" -> 1 [] OTHER -> 2

-----------------------------------------------------------------------------
(* A worker's risk fades: a day without a violation never raises the score *)
(* or the level; after three the trend is not "worsening", and once the    *)
(* history is over the worker is LOW and stable, whatever the history was  *)
(* (risk_scorer.py:207, :217, :321).                                       *)
RiskFades ==
  [][ nights' > nights =>
        /\ Score' <= Score
        /\ Rank(RiskLevel') <= Rank(RiskLevel)
        /\ nights' >= 3 => Trend' # "worsening"
        /\ nights' > HistoryDays => RiskLevel' = "LOW" /\ Trend' = "stable" ]_riskVars
=============================================================================
