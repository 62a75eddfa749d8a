----------------------------- MODULE FireAlert -----------------------------
(***************************************************************************)
(* FireAlertEngine (backend/alerts/fire_alert_engine.py): the state        *)
(* machine that the frame loop feeds with the fire and smoke detections of *)
(* each frame.  A frame is abstracted to whether a fire and whether smoke  *)
(* was detected above its confidence threshold.  Time is the monotonic     *)
(* clock in ticks: it is close to 0 when the host has just booted, and     *)
(* several frames can fall into one tick.                                  *)
(***************************************************************************)
EXTENDS Naturals

CONSTANTS
  ClearFrames,    \* _clear_frames
  AlertInterval,  \* _alert_interval_s in ticks
  MaxNow          \* bound: the clock stops there

ASSUME FireAssumption ==
  /\ ClearFrames \in Nat \ {0}
  /\ AlertInterval \in Nat \ {0}
  /\ MaxNow \in Nat /\ MaxNow >= AlertInterval

States == {"NORMAL", "SMOKE", "FIRE", "CLEARING"}
Events == {"none", "fire_emergency", "smoke_detected", "fire_all_clear"}

VARIABLES
  state,       \* _state
  clearCount,  \* _fire_clear_count, which is only compared with ClearFrames
  lastAlert,   \* _last_fire_alert_t
  now,         \* time.monotonic()
  frame,       \* what the last frame showed
  event,       \* the alert event of the last frame
  quiet,       \* history: frames since the last fire, up to ClearFrames
  unreported   \* history: when the oldest fire since the last emergency alert was seen

fireVars == <<state, clearCount, lastAlert, now, frame, event, quiet, unreported>>

Frames == [fire : BOOLEAN, smoke : BOOLEAN]
NoDetection == [fire |-> FALSE, smoke |-> FALSE]

FireInit ==
  /\ state = "NORMAL"
  /\ clearCount = 0
  /\ lastAlert = 0
  /\ now \in 0..AlertInterval
  /\ frame = NoDetection
  /\ event = "none"
  /\ quiet = 0
  /\ unreported = {}

UpTo(limit, n) == IF n < limit THEN n ELSE limit

Observe(f) ==
  /\ frame' = f
  /\ quiet' = IF f.fire THEN 0 ELSE UpTo(ClearFrames, quiet + 1)
  /\ UNCHANGED now

(* The emergency alert of a frame with fire, which may be withheld. *)
Report(shouldAlert) ==
  IF shouldAlert
    THEN lastAlert' = now /\ event' = "fire_emergency" /\ unreported' = {}
    ELSE /\ event' = "none" /\ UNCHANGED lastAlert
         /\ unreported' = IF unreported = {} THEN {now} ELSE unreported

-----------------------------------------------------------------------------
(* FireAlertEngine.evaluate, by what the frame shows.                      *)

\* Mutant: a frame with fire does not restart the count of fire-free frames.
SeeFire_KeepsCount(f) ==
  /\ f.fire
  /\ Observe(f)
  /\ state' = "FIRE"
  /\ UNCHANGED clearCount
  /\ Report(now - lastAlert >= AlertInterval)

\* Mutant: the alert is emitted only when the state changes.
SeeFire_OnceOnly(f) ==
  /\ f.fire
  /\ Observe(f)
  /\ state' = "FIRE"
  /\ clearCount' = 0
  /\ Report(state # "FIRE" /\ now - lastAlert >= AlertInterval)

SeeFire(f) ==
  /\ f.fire
  /\ Observe(f)
  /\ state' = "FIRE"
  /\ clearCount' = 0
  /\ Report(now - lastAlert >= AlertInterval)

(* A frame without fire counts, with or without smoke, during an emergency.*)
Counted ==
  IF state \in {"FIRE", "CLEARING"} THEN UpTo(ClearFrames, clearCount + 1)
                                    ELSE clearCount

SeeSmoke(f) ==
  /\ ~f.fire /\ f.smoke
  /\ Observe(f)
  /\ clearCount' = Counted
  /\ IF state = "NORMAL"
       THEN state' = "SMOKE" /\ event' = "smoke_detected"
       ELSE event' = "none" /\ UNCHANGED state
  /\ UNCHANGED <<lastAlert, unreported>>

\* Mutant: the emergency starts to clear only on a fresh count.
SeeNothing_WaitsForZero(f) ==
  /\ ~f.fire /\ ~f.smoke
  /\ Observe(f)
  /\ clearCount' = Counted
  /\ CASE state = "FIRE" /\ clearCount = 0 -> state' = "CLEARING" /\ event' = "none"
       [] state = "CLEARING" /\ Counted >= ClearFrames ->
            state' = "NORMAL" /\ event' = "fire_all_clear"
       [] state = "SMOKE" -> state' = "NORMAL" /\ event' = "none"
       [] OTHER -> UNCHANGED state /\ event' = "none"
  /\ UNCHANGED <<lastAlert, unreported>>

SeeNothing(f) ==
  /\ ~f.fire /\ ~f.smoke
  /\ Observe(f)
  /\ clearCount' = Counted
  /\ CASE state = "FIRE" -> state' = "CLEARING" /\ event' = "none"
       [] state = "CLEARING" /\ Counted >= ClearFrames ->
            state' = "NORMAL" /\ event' = "fire_all_clear"
       [] state = "SMOKE" -> state' = "NORMAL" /\ event' = "none"
       [] OTHER -> UNCHANGED state /\ event' = "none"
  /\ UNCHANGED <<lastAlert, unreported>>

FireEvaluate == \E f \in Frames : SeeFire(f) \/ SeeSmoke(f) \/ SeeNothing(f)

\* Mutant: the override counts as an alert.
FireReset_StampsNow ==
  /\ state' = "NORMAL"
  /\ clearCount' = 0 /\ lastAlert' = now
  /\ event' = "none"
  /\ UNCHANGED <<now, frame, quiet, unreported>>

(* FireAlertEngine.reset: a manual override; the alert time survives it.   *)
FireReset ==
  /\ state' = "NORMAL"
  /\ clearCount' = 0
  /\ event' = "none"
  /\ UNCHANGED <<lastAlert, now, frame, quiet, unreported>>

FireTick ==
  /\ now < MaxNow
  /\ now' = now + 1
  /\ UNCHANGED <<state, clearCount, lastAlert, frame, event, quiet, unreported>>

FireNext == FireEvaluate \/ FireReset \/ FireTick

FireSpec == FireInit /\ [][FireNext]_fireVars

-----------------------------------------------------------------------------
(* The engine's fields and the history have their types. *)
FireTypeOK ==
  /\ state \in States
  /\ clearCount \in 0..ClearFrames
  /\ lastAlert \in 0..now
  /\ now \in 0..MaxNow
  /\ frame \in Frames
  /\ event \in Events
  /\ quiet \in 0..ClearFrames
  /\ unreported \subseteq 0..now

(* The all-clear is given only after ClearFrames frames without fire in a  *)
(* row, and never in a frame with smoke, however fire and smoke alternate  *)
(* and wherever a reset falls.                                             *)
ClearOnlyAfterQuiet ==
  event = "fire_all_clear" => quiet = ClearFrames /\ ~frame.smoke

(* A fire that shows is reported within the alert interval of the first    *)
(* frame that showed fire since the last report: no clearing, no override, *)
(* no fire that comes back and no recent boot of the host makes the engine *)
(* withhold the alert longer than that (fire_alert_engine.py:252-256).     *)
FireGetsReported ==
  [][frame'.fire /\ state' = "FIRE" /\ now' = now
       => \A t \in unreported' : now - t < AlertInterval]_fireVars

(* Once neither fire nor smoke is seen any more the engine returns to      *)
(* NORMAL, so an emergency always ends.                                    *)
EmergencyEnds == <>[](~frame.fire /\ ~frame.smoke) => []<>(state = "NORMAL")
=============================================================================
