---------------------------- MODULE Calibration ----------------------------
(***************************************************************************)
(* Calibrating a camera: the interactive session (calibrate_camera.py),    *)
(* the homography it computes and the file it saves (calibrator.py), and   *)
(* the proximity engine that loads it.  The operator may stop the session, *)
(* or the program be killed, between any two steps; nothing is flushed to  *)
(* the disk before the rename, so a power failure is not covered.  A       *)
(* measurement stands for the points clicked and what comes of them; one   *)
(* operator calibrates at a time, and the temporary file of a camera is    *)
(* therefore theirs.                                                       *)
(***************************************************************************)
EXTENDS Naturals, FiniteSets

CONSTANTS
  CalCameras,
  Measurements,
  Accurate,       \* measurements that pass verify
  MaxPoints       \* bound on the points clicked

ASSUME CalibrationAssumption == "None" \notin CalCameras

VARIABLES
  session,      \* the operator's session
  calFile,      \* the file of each camera
  calTemp,      \* its temporary file
  mapping,       \* the calibration each proximity engine uses
  calibrated    \* history: files reported as saved
calibrationVars == <<session, calFile, calTemp, mapping, calibrated>>

(* the file of a camera: ids that differ in a character not allowed in one *)
(* share it                                                                *)
CalFileOf(c) == IF c = "cam 1" THEN "cam_1" ELSE c
CalFiles == {CalFileOf(c) : c \in CalCameras}
Absent == [kind |-> "absent", of |-> 0]
Torn(m) == [kind |-> "torn", of |-> m]
Whole(m) == [kind |-> "whole", of |-> m]
Raised == [kind |-> "raised", of |-> 0]
NotGiven == "None"
NoSession == [at |-> "none"]
File == CalFileOf(session.camera)

CalibrationInit ==
  /\ session = NoSession
  /\ calFile = [f \in CalFiles |-> Absent] /\ calTemp = [f \in CalFiles |-> Absent]
  /\ mapping = [c \in CalCameras |-> Absent]
  /\ calibrated = {}

Saved == <<calFile, calTemp, mapping, calibrated>>

-----------------------------------------------------------------------------
(* InteractiveCalibrator.run: points are clicked, undone and reset *)
OpenSession(c) ==
  /\ session = NoSession
  /\ session' = [at |-> "clicking", camera |-> c, points |-> 0]
  /\ UNCHANGED Saved

Click ==
  /\ session.at = "clicking" /\ session.points < MaxPoints
  /\ session' = [session EXCEPT !.points = @ + 1]
  /\ UNCHANGED Saved

Undo ==
  /\ session.at = "clicking" /\ session.points > 0
  /\ session' \in {[session EXCEPT !.points = @ - 1], [session EXCEPT !.points = 0]}
  /\ UNCHANGED Saved

(* from_point_pairs: fewer than four points are refused, and points on a   *)
(* line give no homography; either ends the program.                       *)
Compute ==
  /\ session.at = "clicking"
  /\ \/ session' = NoSession
     \/ /\ session.points >= 4
        /\ \E m \in Measurements :
             session' = [at |-> "verify", camera |-> session.camera, of |-> m]
  /\ UNCHANGED Saved

(* verify, before it is saved: what does not pass is saved if the operator *)
(* insists.                                                                *)
Verify ==
  /\ session.at = "verify"
  /\ \/ session.of \notin Accurate /\ session' = NoSession
     \/ session' = [session EXCEPT !.at = "write"]
  /\ UNCHANGED Saved

\* A variant that writes the file itself, for comparison.
SaveWrite_InPlace ==
  /\ session.at = "write"
  /\ calFile' = [calFile EXCEPT ![File] = Torn(session.of)]
  /\ session' = [session EXCEPT !.at = "writing"]
  /\ UNCHANGED <<calTemp, mapping, calibrated>>

(* save: the temporary file is written, then renamed over the file; a      *)
(* failure removes it                                                      *)
SaveWrite ==
  /\ session.at = "write"
  /\ calTemp' = [calTemp EXCEPT ![File] = Torn(session.of)]
  /\ session' = [session EXCEPT !.at = "writing"]
  /\ UNCHANGED <<calFile, mapping, calibrated>>

SaveFails ==
  /\ session.at \in {"writing", "rename"}
  /\ calTemp' = [calTemp EXCEPT ![File] = Absent]
  /\ session' = NoSession
  /\ UNCHANGED <<calFile, mapping, calibrated>>

SaveWritten ==
  /\ session.at = "writing"
  /\ calTemp' = [calTemp EXCEPT ![File] = Whole(session.of)]
  /\ session' = [session EXCEPT !.at = "rename"]
  /\ UNCHANGED <<calFile, mapping, calibrated>>

SaveRenamed ==
  /\ session.at = "rename"
  /\ calFile' = [calFile EXCEPT ![File] = calTemp[File]]
  /\ calTemp' = [calTemp EXCEPT ![File] = Absent]
  /\ session' = [session EXCEPT !.at = "saved"]
  /\ UNCHANGED <<mapping, calibrated>>

SaveReported ==
  /\ session.at = "saved"
  /\ calibrated' = calibrated \cup {File}
  /\ session' = NoSession
  /\ UNCHANGED <<calFile, calTemp, mapping>>

(* the program is interrupted or killed *)
Interrupted ==
  /\ session # NoSession
  /\ session' = NoSession
  /\ UNCHANGED Saved

-----------------------------------------------------------------------------
(* load: an absent or unreadable file gives nothing, and without a camera  *)
(* it raises.  (Whether a calibration is validated is worked out again     *)
(* from its determinant, and nobody asks.)                                 *)
Load(camera, path) ==
  LET f == IF path = NotGiven THEN CalFileOf(camera) ELSE path
  IN  IF camera = NotGiven THEN Raised
      ELSE IF calFile[f].kind = "whole" THEN calFile[f] ELSE Absent

(* A pipeline with a machinery model starts: its engine's load_calibration *)
(* gives load the path where it takes the camera, and the camera where it  *)
(* takes the path.                                                         *)
StartEngine(c) ==
  /\ mapping' = [mapping EXCEPT ![c] = Load(NotGiven, c)]
  /\ UNCHANGED <<session, calFile, calTemp, calibrated>>

CalibrationNext ==
  \/ \E c \in CalCameras : OpenSession(c) \/ StartEngine(c)
  \/ Click \/ Undo \/ Compute \/ Verify
  \/ SaveWrite \/ SaveFails \/ SaveWritten \/ SaveRenamed \/ SaveReported \/ Interrupted
CalibrationSpec == CalibrationInit /\ [][CalibrationNext]_calibrationVars

-----------------------------------------------------------------------------
(* A camera that has been calibrated stays calibrated: whoever loads its   *)
(* calibration after one was reported as saved gets a whole one, however a *)
(* later session was interrupted.                                          *)
StaysCalibrated ==
  \A c \in CalCameras : CalFileOf(c) \in calibrated => Load(c, NotGiven).kind = "whole"
=============================================================================
