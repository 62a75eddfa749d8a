----------------------------- MODULE Attendance -----------------------------
(***************************************************************************)
(* Check-in, check-out, headcount and muster                               *)
(* (backend/routes/attendance_route.py).  Each request reads, awaits, and  *)
(* writes; requests of one worker overlap (a gate camera and a person at   *)
(* the desk).  Every query looks at the rows of the present UTC day only.  *)
(***************************************************************************)
EXTENDS Naturals, Sequences, FiniteSets

CONSTANTS
  Workers, Sites, Requests,
  LogLimit,     \* rows GET /attendance/today reads at most (1000)
  MaxRows,      \* bound: rows of worker_attendance
  LastDay       \* bound: days

ASSUME AttendanceAssumption == LogLimit \in Nat /\ MaxRows \in Nat /\ LastDay \in Nat

VARIABLES
  rows,         \* worker_attendance, in the order of check_in
  today,
  request,      \* what each request in flight is about to write
  present       \* workers checked in today with no check-out begun since

attendanceVars == <<rows, today, request, present>>

Idle == [op |-> "none"]

AttendanceInit ==
  /\ rows = << >>
  /\ today = 0
  /\ request = [r \in Requests |-> Idle]
  /\ present = {}

(* check_in >= :today AND check_out IS NULL *)
Open(i) == rows[i].day = today /\ ~rows[i].out
OpenOf(w) == {i \in DOMAIN rows : rows[i].worker = w /\ Open(i)}

(* A worker who has an open row of today is answered 409.                  *)
CheckInReads(r, w, s) ==
  /\ request[r] = Idle
  /\ OpenOf(w) = {}
  /\ request' = [request EXCEPT ![r] = [op |-> "in", worker |-> w, site |-> s]]
  /\ UNCHANGED <<rows, today, present>>

CheckInWrites(r) ==
  /\ request[r].op = "in"
  /\ Len(rows) < MaxRows
  /\ rows' = Append(rows, [worker |-> request[r].worker, site |-> request[r].site,
                           day |-> today, out |-> FALSE])
  /\ present' = present \cup {request[r].worker}
  /\ request' = [request EXCEPT ![r] = Idle]
  /\ UNCHANGED today

(* The newest open row of today; without one the answer is 404.            *)
CheckOutReads(r, w) ==
  /\ request[r] = Idle
  /\ OpenOf(w) # {}
  /\ request' = [request EXCEPT ![r] =
                   [op |-> "out", worker |-> w, row |-> CHOOSE i \in OpenOf(w) : \A j \in OpenOf(w) : j <= i]]
  /\ present' = present \ {w}
  /\ UNCHANGED <<rows, today>>

\* Mutant: the UPDATE names the worker, not the row it has read.
CheckOutWrites_ByWorker(r) ==
  /\ request[r].op = "out"
  /\ rows' = [i \in DOMAIN rows |->
                IF rows[i].worker = request[r].worker THEN [rows[i] EXCEPT !.out = TRUE] ELSE rows[i]]
  /\ request' = [request EXCEPT ![r] = Idle]
  /\ UNCHANGED <<today, present>>

CheckOutWrites(r) ==
  /\ request[r].op = "out"
  /\ rows' = [rows EXCEPT ![request[r].row].out = TRUE]
  /\ request' = [request EXCEPT ![r] = Idle]
  /\ UNCHANGED <<today, present>>

Midnight ==
  /\ today < LastDay
  /\ today' = today + 1
  /\ present' = {}
  /\ UNCHANGED <<rows, request>>

AttendanceNext ==
  \/ \E r \in Requests, w \in Workers : (\E s \in Sites : CheckInReads(r, w, s)) \/ CheckOutReads(r, w)
  \/ \E r \in Requests : CheckInWrites(r) \/ CheckOutWrites(r)
  \/ Midnight

AttendanceSpec == AttendanceInit /\ [][AttendanceNext]_attendanceVars

-----------------------------------------------------------------------------
(* POST /attendance/muster *)
Mustered == {i \in DOMAIN rows : Open(i)}
Muster == {rows[i].worker : i \in Mustered}

(* GET /attendance/headcount: the rows it counts, each under its site *)
Headcount == {c \in Sites \X DOMAIN rows : Open(c[2]) /\ rows[c[2]].site = c[1]}

(* GET /attendance/today: check-ins less check-outs, of the newest rows *)
OfToday == {i \in DOMAIN rows : rows[i].day = today}
TodayLog == {i \in OfToday : Cardinality({j \in OfToday : j > i}) < LogLimit}
StillIn == Cardinality(TodayLog) - Cardinality({i \in TodayLog : rows[i].out})

(* A muster misses nobody who has checked in today and has not begun to    *)
(* check out since, however two requests of one worker overlap, and the    *)
(* three counts of people on site agree on every day that the log shows    *)
(* whole (attendance_route.py:118, :280, :369).                            *)
MusterMissesNobody ==
  /\ present \subseteq Muster
  /\ Cardinality(OfToday) <= LogLimit =>
       Cardinality(Mustered) = StillIn /\ Cardinality(Headcount) = StillIn
=============================================================================
