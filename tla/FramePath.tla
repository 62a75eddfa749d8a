------------------------------ MODULE FramePath ------------------------------
(***************************************************************************)
(* InferencePipeline._process_frame (backend/inference/pipeline.py): one   *)
(* frame goes through the detector, the tracker, the pose, proximity and   *)
(* fire stages and the heatmap, all in one executor call.  An optional     *)
(* stage that raises is skipped for this frame.  Zones change between      *)
(* frames.                                                                 *)
(*                                                                         *)
(* What the camera sees on one frame is a shot; a scene is the set of      *)
(* shots one camera can deliver.  The YOLO models, ByteTrack and MediaPipe *)
(* are external: a shot says what they return, and which of them raise.    *)
(* A camera without an optional component (no model file, no calibration)  *)
(* is a scene in which that component never finds anything.                *)
(* Frames are at least one tick apart.                                     *)
(***************************************************************************)
EXTENDS Naturals, Sequences, FiniteSets, FiniteSetsExt

CONSTANTS
  Places, Bump, Window,
  Zone, ZoneFiles,
  Pairs, Debounce,
  HistoryTime, DroopTime, FallTime, FallSamples, FallSpeed, LowHip, Cooldown,
  Scenes,         \* sets of shots
  MaxGap,         \* bound: ticks between two frames
  Rezoning        \* the scenes during which zones are added, removed, reloaded

ASSUME ZoneFilesAssumption ==
  \A f \in ZoneFiles : f.read = "list" => f.defs \in Seq({f.defs[i] : i \in DOMAIN f.defs})
ASSUME PlacesAssumption ==
  /\ IsFiniteSet(Places) /\ Places # {}
  /\ \A z \in Zone : z.polygon \subseteq Places
  /\ \A f \in ZoneFiles : f.read = "list" => \A i \in DOMAIN f.defs : f.defs[i].zone.polygon \subseteq Places
ASSUME ShotsAssumption == \A shots \in Scenes : \A shot \in shots : IsFiniteSet(shot.boxes)
\* A whole window decays by more than the threshold of "high": 0.998 ^ 499 < 0.4.
ASSUME HeatAssumption == Bump \in Nat \ {0} /\ Window \in Nat /\ Window >= 3
ASSUME DebounceAssumption == Debounce \in Nat \ {0}
ASSUME PoseAssumption ==
  /\ HistoryTime \in Nat /\ DroopTime \in 1..HistoryTime
  /\ FallTime \in Nat \ {0} /\ FallSamples \in Nat \ {0} /\ Cooldown \in Nat \ {0}
  /\ FallSpeed \in Nat \ {0} /\ LowHip \in Nat

VARIABLES
  zones, trackerZones, heatZones,
  heat, peaks, quiet,
  fireHeat, firePeaks, fireQuiet,
  since, alerts, range, critical, told,
  droops, hips, sinceFall, hazards, upright,
  result,     \* the rest of the last FrameResult: tracks and fire
  scene

Registry == INSTANCE ZoneRegistry
Ppe == INSTANCE Heat
Fire == INSTANCE Heat WITH heat <- fireHeat, peaks <- firePeaks, quiet <- fireQuiet
Near == INSTANCE Proximity
Pose == INSTANCE PoseHazards

zoneVars == <<zones, trackerZones, heatZones>>
fireVars == <<fireHeat, firePeaks, fireQuiet>>
frameVars == <<heat, peaks, quiet, fireHeat, firePeaks, fireQuiet, since, alerts, range, critical,
               told, droops, hips, sinceFall, hazards, upright, result>>
pathVars == <<zoneVars, frameVars, scene>>

FrameInit ==
  /\ scene \in Scenes
  /\ Registry!RegistryInit
  /\ Ppe!HeatInit
  /\ Fire!HeatInit
  /\ Near!ProximityInit
  /\ Pose!PoseInit
  /\ result = [tracks |-> {}, fire |-> {}]

-----------------------------------------------------------------------------
(* PPEDetector.predict: a failed prediction is a frame without boxes. *)
Predicted(shot) == IF "detect" \in shot.fails THEN {} ELSE shot.boxes

(* ByteTracker.update and _build_output. *)
Tracked(shot) ==
  {[id |-> b.id, violation |-> b.violation, zone |-> Registry!ZoneOf(trackerZones, b.place)] :
     b \in Predicted(shot)}

Violating(shot) == {b \in Predicted(shot) : b.violation}

(* PoseDetector.detect and MachineryDetector.detect *)
PoseFound(shot) == "pose" \notin shot.fails /\ shot.pose.seen
MachinesFound(shot) == "machines" \notin shot.fails

(* _get_person_foot and _compute_distance, for the pairs that the engine   *)
(* gets to see.                                                            *)
Ranges(shot) ==
  [p \in Pairs |-> IF "detect" \in shot.fails \/ ~MachinesFound(shot) THEN "absent" ELSE shot.ranges[p]]

PoseStage(dt, shot) ==
  IF PoseFound(shot) THEN Pose!Evaluate(dt, shot.pose, {b.id : b \in Violating(shot)})
  ELSE Pose!NotEvaluated(dt)

\* Mutant: one try block around the pose and the proximity stage.
ProximityStage_SharesTry(dt, shot) ==
  IF "pose" \in shot.fails THEN Near!NotEvaluated(dt) ELSE Near!Evaluate(dt, Ranges(shot))

ProximityStage(dt, shot) ==
  IF \A p \in Pairs : Ranges(shot)[p] = "absent" THEN Near!NotEvaluated(dt)
  ELSE Near!Evaluate(dt, Ranges(shot))

(* FireDetector.detect: a frame without boxes does not even let the fire   *)
(* heatmap decay.  Fire weighs 2, smoke 1.                                 *)
FireWeight(flames) ==
  [p \in Places |-> MapThenSumSet(LAMBDA f : IF f.kind = "fire" THEN 2 ELSE 1,
                                  {f \in flames : f.place = p})]

FireStage(shot) ==
  IF "fire" \in shot.fails \/ shot.flames = {} THEN UNCHANGED fireVars
  ELSE Fire!UpdateAndTick(FireWeight(shot.flames))

Frame(dt, shot) ==
  /\ PoseStage(dt, shot)
  /\ ProximityStage(dt, shot)
  /\ Near!Observe(dt, Ranges(shot))
  /\ FireStage(shot)
  /\ Ppe!UpdateAndTick([p \in Places |-> Cardinality({b \in Violating(shot) : b.place = p})])
  /\ result' = [tracks |-> Tracked(shot), fire |-> IF "fire" \in shot.fails THEN {} ELSE shot.flames]
  /\ UNCHANGED <<zoneVars, scene>>

Rezone ==
  /\ scene \in Rezoning
  /\ \/ \E z \in Zone : Registry!AddZone(z)
     \/ \E z \in Zone : Registry!RemoveZone(z.id)
     \/ \E f \in ZoneFiles : Registry!ReloadZones(f)
  /\ UNCHANGED <<frameVars, scene>>

FrameNext ==
  \/ \E dt \in 1..MaxGap, shot \in scene : Frame(dt, shot)
  \/ Rezone

FrameSpec == FrameInit /\ [][FrameNext]_pathVars

-----------------------------------------------------------------------------
(* No listed zone goes unwatched, whatever reloads fail: ZoneRegistry.     *)
ZonesWatched == Registry!ZonesWatched

(* No zone stays "high" or "critical" on old violations alone: Heat.       *)
QuietZonesCool == \A z \in Registry!Zones(heatZones) : Ppe!QuietPlaceCools(z.polygon)

(* A pair that is close is told of, and a critical one as CRITICAL, even   *)
(* when the pose or the fire stage raises on every frame: Proximity.       *)
CloseIsTold == Near!CloseIsTold

(* A fatigue alert rests on an unbroken run of drooping samples:           *)
(* PoseHazards.                                                            *)
FatigueIsSustained == Pose!FatigueIsSustained

=============================================================================
