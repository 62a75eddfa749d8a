----------------------------- MODULE PoseHazards -----------------------------
(***************************************************************************)
(* The hazard detectors of backend/alerts/pose_alert_engine.py.            *)
(* PoseDetector returns at most one pose per frame and the engine uses its *)
(* index as track id, so every history has exactly one key, 0: there is    *)
(* one of each.  Samples carry their age in ticks; a sample older than the *)
(* longest history has the age HistoryTime + 1.  A pose is what the        *)
(* detectors read from it: the back, the head and the height of the hips   *)
(* (0 is the top of the picture).                                          *)
(*                                                                         *)
(* ReachingDetector is left out: nothing calls update_zones, so it has no  *)
(* zones and returns None.                                                 *)
(***************************************************************************)
EXTENDS Naturals, Sequences

CONSTANTS
  HistoryTime,   \* FatigueDetector._max_history_s
  DroopTime,     \* _FATIGUE_PERSISTENCE_S
  FallTime,      \* _FALL_HISTORY_S
  FallSamples,   \* the least number of hip samples
  FallSpeed,     \* _FALL_VELOCITY_THRESHOLD, heights per tick
  LowHip,        \* half of the picture's height
  Cooldown       \* _FALL_COOLDOWN_S

NoPose == [seen |-> FALSE]
Hazards == {"dangerous_bending", "fatigue_posture", "fall_detected"}

VARIABLES
  droops,      \* FatigueDetector._history: samples [age, droop], oldest first
  hips,        \* FallDetector._hip_history: samples [age, y], oldest first
  sinceFall,   \* age of _fall_reported, up to Cooldown
  hazards,     \* hazard type -> severity, for the pose of the last frame
  upright      \* history: age of the last sample with the head up

poseVars == <<droops, hips, sinceFall, hazards, upright>>

PoseInit ==
  /\ droops = << >>
  /\ hips = << >>
  /\ sinceFall = Cooldown
  /\ hazards = << >>
  /\ upright = HistoryTime + 1

UpTo(limit, n) == IF n < limit THEN n ELSE limit
Aged(samples, dt) ==
  [i \in DOMAIN samples |-> [samples[i] EXCEPT !.age = UpTo(HistoryTime + 1, @ + dt)]]
(* the oldest sample goes as long as it is older *)
Recent(samples, age) ==
  LET young == {i \in DOMAIN samples : samples[i].age <= age}
  IN  IF young = {} THEN << >>
      ELSE SubSeq(samples, CHOOSE i \in young : \A j \in young : i <= j, Len(samples))

-----------------------------------------------------------------------------
(* FatigueDetector.detect: a head that is not visible leaves no sample. *)
Droops(dt, pose) ==
  IF pose.head = "hidden" THEN Aged(droops, dt)
  ELSE Append(Recent(Aged(droops, dt), HistoryTime), [age |-> 0, droop |-> pose.head = "down"])

\* Mutant: a raised head does not restart the drooping time.
DroopingFor_NoReset(s) ==
  LET run == {i \in DOMAIN s : s[i].droop /\ s[Len(s)].droop}
  IN  IF run = {} THEN 0 ELSE s[CHOOSE i \in run : \A j \in run : i <= j].age

DroopingFor(s) ==
  LET run == {i \in DOMAIN s : \A j \in i..Len(s) : s[j].droop}
  IN  IF run = {} THEN 0 ELSE s[CHOOSE i \in run : \A j \in run : i <= j].age

Fatigue(dt, pose) ==
  /\ pose.head # "hidden"
  /\ Len(Droops(dt, pose)) >= 3
  /\ DroopingFor(Droops(dt, pose)) >= DroopTime

(* FallDetector.detect: during the cooldown no sample is taken. *)
Watching(dt, pose) == UpTo(Cooldown, sinceFall + dt) = Cooldown /\ pose.hipSeen

Hips(dt, pose) ==
  IF Watching(dt, pose) THEN Append(Recent(Aged(hips, dt), FallTime), [age |-> 0, y |-> pose.hip])
  ELSE Aged(hips, dt)

Fall(dt, pose) ==
  LET s == Hips(dt, pose)
  IN  /\ Watching(dt, pose)
      /\ Len(s) >= FallSamples
      /\ s[1].age > 0
      /\ s[Len(s)].y >= s[1].y + FallSpeed * s[1].age
      /\ s[Len(s)].y >= LowHip

(* PoseAlertEngine.evaluate for the pose of one frame.  A hazard of a      *)
(* track with a PPE violation becomes CRITICAL; the track is 0.            *)
Severity(h, violating) ==
  IF h = "fall_detected" \/ 0 \in violating THEN "CRITICAL"
  ELSE IF h = "dangerous_bending" THEN "HIGH" ELSE "MEDIUM"

Evaluate(dt, pose, violating) ==
  LET found == {h \in Hazards : \/ h = "dangerous_bending" /\ pose.back = "bent"
                                \/ h = "fatigue_posture" /\ Fatigue(dt, pose)
                                \/ h = "fall_detected" /\ Fall(dt, pose)}
  IN  /\ hazards' = [h \in found |-> Severity(h, violating)]
      /\ droops' = Droops(dt, pose)
      /\ hips' = Hips(dt, pose)
      /\ sinceFall' = IF "fall_detected" \in found THEN 0 ELSE UpTo(Cooldown, sinceFall + dt)
      /\ upright' = IF pose.head = "up" THEN 0 ELSE UpTo(HistoryTime + 1, upright + dt)

(* No pose in the picture, or the stage failed. *)
NotEvaluated(dt) ==
  /\ hazards' = << >>
  /\ droops' = Aged(droops, dt)
  /\ hips' = Aged(hips, dt)
  /\ sinceFall' = UpTo(Cooldown, sinceFall + dt)
  /\ upright' = UpTo(HistoryTime + 1, upright + dt)

(* A fatigue alert means a head that nobody has seen up for longer than    *)
(* the persistence time, whatever gaps the samples have: a stretch without *)
(* a visible head neither starts nor ends one by itself.                   *)
FatigueIsSustained == "fatigue_posture" \in DOMAIN hazards => upright > DroopTime
=============================================================================
