----------------------------- MODULE Escalation -----------------------------
(***************************************************************************)
(* The alert escalation matrix of backend/routes/escalation_route.py and   *)
(* the 60-second scheduler job of backend/main.py that drives it.          *)
(*                                                                         *)
(* The state is the table alert_escalations.  Three kinds of database      *)
(* session work on it concurrently: the trigger handler (SELECT, then      *)
(* INSERT), the check job (SELECT of the open rows, then one UPDATE and    *)
(* one INSERT per overdue row, one COMMIT at the end) and the acknowledge  *)
(* handler (one guarded UPDATE).  Sessions read committed data and take no *)
(* lock on what they SELECT, so what a session read may be stale when it   *)
(* writes.  A session's writes become visible together, at its COMMIT.     *)
(*                                                                         *)
(* A row's id is its index in rows, and ORDER BY notified_at is the order  *)
(* of the ids.  The wall clock is abstracted to the age of each row: the   *)
(* time since notified_at, in steps of Tick, saturating at the timeout of  *)
(* the row's level, beyond which nothing distinguishes two ages.           *)
(***************************************************************************)
EXTENDS Naturals, Sequences, FiniteSets

CONSTANTS
  Violations,   \* violation_id values
  Clients,      \* concurrent requests to POST /escalation/trigger
  MaxLevel,     \* highest key of ESCALATION_LEVELS
  Timeout,      \* timeout_minutes of each level, in ticks
  ScanLimit,    \* the LIMIT of the check's SELECT
  MaxTriggers,  \* bound: trigger requests that get past their SELECT
  NoRequest     \* no request in progress

ASSUME LevelsAssumption ==
  /\ MaxLevel \in Nat \ {0}
  /\ Timeout \in [1..MaxLevel -> Nat]

ASSUME BoundsAssumption == ScanLimit \in Nat /\ MaxTriggers \in Nat

ASSUME NoRequestAssumption == NoRequest \notin Violations

RowStatus == {"open", "escalated", "acknowledged"}

MatrixRow == [violation : Violations, level : 1..MaxLevel, status : RowStatus, age : Nat]

(* Windows scaled to one or two ticks for model checking; the last level   *)
(* has none, as in ESCALATION_LEVELS.                                      *)
ThreeLevels == <<1, 2, 0>>

VARIABLES
  matrix,    \* the committed table
  trigger,   \* per client: the violation it is about to INSERT, or NoRequest
  due,       \* ids the running check found overdue; {} between two runs
  triggers   \* trigger requests counted against MaxTriggers

vars == <<matrix, trigger, due, triggers>>

Init ==
  /\ matrix = << >>
  /\ trigger = [c \in Clients |-> NoRequest]
  /\ due = {}
  /\ triggers = 0

-----------------------------------------------------------------------------
(* POST /escalation/trigger/{violation_id}.  A violation with an open or   *)
(* escalated row is answered "already_exists" and nothing is written.      *)

IsActive(v) ==
  \E i \in DOMAIN matrix : matrix[i].violation = v /\ matrix[i].status \in {"open", "escalated"}

TriggerSelect(c, v) ==
  /\ trigger[c] = NoRequest
  /\ triggers < MaxTriggers
  /\ ~IsActive(v)
  /\ trigger' = [trigger EXCEPT ![c] = v]
  /\ triggers' = triggers + 1
  /\ UNCHANGED <<matrix, due>>

NewRow(v, l) == [violation |-> v, level |-> l, status |-> "open", age |-> 0]

TriggerInsert(c) ==
  /\ trigger[c] # NoRequest
  /\ matrix' = Append(matrix, NewRow(trigger[c], 1))
  /\ trigger' = [trigger EXCEPT ![c] = NoRequest]
  /\ UNCHANGED <<due, triggers>>

TriggerRollback(c) ==
  /\ trigger[c] # NoRequest
  /\ trigger' = [trigger EXCEPT ![c] = NoRequest]
  /\ UNCHANGED <<matrix, due, triggers>>

-----------------------------------------------------------------------------
(* run_escalation_check.  APScheduler runs one instance at a time, so the  *)
(* next SELECT starts after the previous COMMIT or rollback.  A check that *)
(* finds nothing overdue writes nothing.                                   *)

OpenIds == {i \in DOMAIN matrix : matrix[i].status = "open"}

\* Mutant: the check reads the newest rows first.
Scanned_NewestFirst == {i \in OpenIds : Cardinality({j \in OpenIds : j > i}) < ScanLimit}

Scanned == {i \in OpenIds : Cardinality({j \in OpenIds : j < i}) < ScanLimit}

\* Mutant: an alert is overdue one unit before its window ends.
Overdue_Early ==
  {i \in Scanned : /\ matrix[i].level < MaxLevel
                   /\ Timeout[matrix[i].level] # 0
                   /\ matrix[i].age + 1 >= Timeout[matrix[i].level]}

Overdue ==
  {i \in Scanned : /\ matrix[i].level < MaxLevel
                   /\ Timeout[matrix[i].level] # 0
                   /\ matrix[i].age >= Timeout[matrix[i].level]}

CheckSelect ==
  /\ due = {}
  /\ Overdue # {}
  /\ due' = Overdue
  /\ UNCHANGED <<matrix, trigger, triggers>>

Escalated(i) == [matrix[i] EXCEPT !.status = "escalated"]

InIdOrder(S) ==
  {order \in [1..Cardinality(S) -> S] :
     \A a, b \in 1..Cardinality(S) : a < b => order[a] < order[b]}

\* Mutant: the next level is inserted, the current row is not marked.
CheckCommit_NoUpdate ==
  /\ due # {}
  /\ \E order \in InIdOrder(due) :
       matrix' = matrix \o [n \in 1..Cardinality(due) |->
                          NewRow(matrix[order[n]].violation, matrix[order[n]].level + 1)]
  /\ due' = {}
  /\ UNCHANGED <<trigger, triggers>>

CheckCommit ==
  /\ due # {}
  /\ \E order \in InIdOrder(due) :
       matrix' = [i \in DOMAIN matrix |-> IF i \in due THEN Escalated(i) ELSE matrix[i]]
               \o [n \in 1..Cardinality(due) |->
                     NewRow(matrix[order[n]].violation, matrix[order[n]].level + 1)]
  /\ due' = {}
  /\ UNCHANGED <<trigger, triggers>>

\* Mutant: the UPDATEs were committed before the INSERT failed.
CheckRollback_KeepsUpdate ==
  /\ due # {}
  /\ matrix' = [i \in DOMAIN matrix |-> IF i \in due THEN Escalated(i) ELSE matrix[i]]
  /\ due' = {}
  /\ UNCHANGED <<trigger, triggers>>

CheckRollback ==
  /\ due # {}
  /\ due' = {}
  /\ UNCHANGED <<matrix, trigger, triggers>>

-----------------------------------------------------------------------------
(* POST /escalation/acknowledge/{id}: UPDATE ... WHERE status = 'open'.    *)

Acknowledge(i) ==
  /\ matrix[i].status = "open"
  /\ matrix' = [matrix EXCEPT ![i].status = "acknowledged"]
  /\ UNCHANGED <<trigger, due, triggers>>

(* One unit of time passes for every row that is still waiting. *)
Waiting(i) == matrix[i].status = "open" /\ matrix[i].age < Timeout[matrix[i].level]

Tick ==
  /\ \E i \in DOMAIN matrix : Waiting(i)
  /\ matrix' = [i \in DOMAIN matrix |->
                IF Waiting(i) THEN [matrix[i] EXCEPT !.age = @ + 1] ELSE matrix[i]]
  /\ UNCHANGED <<trigger, due, triggers>>

-----------------------------------------------------------------------------
Next ==
  \/ \E c \in Clients, v \in Violations : TriggerSelect(c, v)
  \/ \E c \in Clients : TriggerInsert(c) \/ TriggerRollback(c)
  \/ CheckSelect
  \/ CheckCommit
  \/ CheckRollback
  \/ \E i \in DOMAIN matrix : Acknowledge(i)
  \/ Tick

Spec == Init /\ [][Next]_vars

-----------------------------------------------------------------------------
(* Every row is well formed; in particular no check writes a level above   *)
(* the last one of ESCALATION_LEVELS, and the ids a check holds are rows.  *)
TypeOK ==
  /\ matrix \in Seq(MatrixRow)
  /\ trigger \in [Clients -> Violations \cup {NoRequest}]
  /\ due \subseteq DOMAIN matrix
  /\ triggers \in 0..MaxTriggers

(* A row above L1 exists only where an earlier row of the same violation,  *)
(* one level below, was given up as escalated: nobody higher in the matrix *)
(* is called while the level below was never left waiting too long.        *)
HasPredecessor ==
  \A i \in DOMAIN matrix : matrix[i].level > 1 =>
    \E j \in DOMAIN matrix : /\ matrix[j].violation = matrix[i].violation
                             /\ matrix[j].level + 1 = matrix[i].level
                             /\ matrix[j].status = "escalated"

IdsAt(v, l) == {i \in DOMAIN matrix : matrix[i].violation = v /\ matrix[i].level = l}

(* Every escalated row has exactly one successor: no interleaving of       *)
(* checks, acknowledgements and failures loses the next level's row or     *)
(* notifies that level twice for one timeout.                              *)
OneSuccessorEach ==
  \A v \in Violations, l \in 1..(MaxLevel - 1) :
    Cardinality({i \in IdsAt(v, l) : matrix[i].status = "escalated"}) = Cardinality(IdsAt(v, l + 1))

EscalatesAfterWindow ==
  \A i \in DOMAIN matrix :
    (matrix[i].status # "escalated" /\ matrix'[i].status = "escalated")
      => matrix[i].age = Timeout[matrix[i].level]

(* A row becomes escalated only after the whole window of its level passed *)
(* (2, 10 or 30 minutes), however late the check commits.                  *)
WindowRespected == [][EscalatesAfterWindow]_vars

WaitsBelowLast(i) ==
  i \in DOMAIN matrix /\ matrix[i].status = "open" /\ matrix[i].level < MaxLevel

(* The check's SELECT is filled by older rows of the last level, which it  *)
(* skips without closing them, so it does not reach row i.                 *)
CrowdedOut(i) ==
  Cardinality({j \in OpenIds : j < i /\ matrix[j].level = MaxLevel}) >= ScanLimit

(* A row below the last level is acknowledged or handed to the next level  *)
(* at last, unless as many older rows of the last level as the SELECT      *)
(* returns stay open: then, and only then, nobody is called any more.      *)
OpenIsHandled ==
  \A i \in 1..(MaxTriggers * MaxLevel) :
    (WaitsBelowLast(i) /\ ~CrowdedOut(i)) ~> ~WaitsBelowLast(i)
=============================================================================
