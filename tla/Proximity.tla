------------------------------ MODULE Proximity ------------------------------
(***************************************************************************)
(* ProximityEngine.evaluate (backend/inference/proximity_engine.py): which *)
(* pairs of a tracked person and a tracked machine raise an alert on a     *)
(* frame.  Time is the monotonic clock in ticks, kept as ages that stop at *)
(* Debounce; a pair that never raised an alert has the age Debounce (the   *)
(* host has been up for longer than that).                                 *)
(*                                                                         *)
(* A distance is abstracted to its alert level.  The second reading of     *)
(* _last_alert, which would notice another thread, sees what the first one *)
(* saw: one executor call evaluates a frame at a time.                     *)
(***************************************************************************)
EXTENDS Naturals

CONSTANTS
  Pairs,      \* (person_track_id, machine_track_id)
  Debounce    \* _debounce_s in ticks

Ranges == {"absent", "far", "warning", "critical"}
Alerts == [pair : Pairs, level : {"WARNING", "CRITICAL"}]

VARIABLES
  since,      \* ticks since _last_alert of a pair
  alerts,     \* proximity_alerts of the last frame
  range,      \* history: how close a pair was on the last frame it was observed on
  critical,   \* history: for how long a pair has been critical on every frame
  told        \* history: ticks since the last alert, and the last CRITICAL one

proximityVars == <<since, alerts, range, critical, told>>

ProximityInit ==
  /\ since = [p \in Pairs |-> Debounce]
  /\ alerts = {}
  /\ range = [p \in Pairs |-> "absent"]
  /\ critical = [p \in Pairs |-> 0]
  /\ told = [p \in Pairs |-> [any |-> Debounce, critical |-> Debounce]]

Older(age, dt) == IF age + dt < Debounce THEN age + dt ELSE Debounce

(* _should_alert *)
Level(r) == IF r = "critical" THEN "CRITICAL" ELSE "WARNING"

Raised(dt, ranges) ==
  {p \in Pairs : Older(since[p], dt) = Debounce /\ ranges[p] \in {"warning", "critical"}}

\* Mutant: the debounce restarts when it is checked, whatever the distance.
Evaluate_StampsFirst(dt, ranges) ==
  /\ since' = [p \in Pairs |-> IF Older(since[p], dt) = Debounce /\ ranges[p] # "absent"
                               THEN 0 ELSE Older(since[p], dt)]
  /\ alerts' = {[pair |-> p, level |-> Level(ranges[p])] : p \in Raised(dt, ranges)}

(* A frame dt ticks after the one before. *)
Evaluate(dt, ranges) ==
  /\ since' = [p \in Pairs |-> IF p \in Raised(dt, ranges) THEN 0 ELSE Older(since[p], dt)]
  /\ alerts' = {[pair |-> p, level |-> Level(ranges[p])] : p \in Raised(dt, ranges)}

(* No calibration, no machine in the picture, or the stage failed. *)
NotEvaluated(dt) ==
  /\ since' = [p \in Pairs |-> Older(since[p], dt)]
  /\ alerts' = {}

Observe(dt, ranges) ==
  /\ range' = ranges
  /\ critical' = [p \in Pairs |-> IF ranges[p] = "critical" /\ range[p] = "critical"
                                  THEN Older(critical[p], dt) ELSE 0]
  /\ told' = [p \in Pairs |->
       LET raised == {a.level : a \in {b \in alerts' : b.pair = p}}
       IN  [any      |-> IF raised # {} THEN 0 ELSE Older(told[p].any, dt),
            critical |-> IF "CRITICAL" \in raised THEN 0 ELSE Older(told[p].critical, dt)]]

(* Nobody stands close to a machine in silence: a pair that is close has   *)
(* been told of within the debounce, and one that has been critical for a  *)
(* whole debounce has been told of as CRITICAL, although a WARNING raised  *)
(* just before holds the CRITICAL alert back.                              *)
CloseIsTold ==
  \A p \in Pairs :
    /\ range[p] \in {"warning", "critical"} => told[p].any < Debounce
    /\ critical[p] = Debounce => told[p].critical < Debounce
=============================================================================
