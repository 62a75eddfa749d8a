------------------------------- MODULE MCSite -------------------------------
(***************************************************************************)
(* Zones, people, records and cameras, checked in one run. The parts share *)
(* no state: the first state chooses one, and only that part moves, so that *)
(* their states add up instead of multiplying.                             *)
(***************************************************************************)
EXTENDS ZoneAlerts, Attendance, RiskScore, WorkerIdentity, Records,
        CameraRegistry, Calibration,
        Enhancement

VARIABLE part
vars == <<zoneVars, attendanceVars, riskVars, identityVars, recordVars,
          billingVars, registryVars, monitorVars, calibrationVars,
          lightVars, part>>

MCZoneDefs ==
  {[id |-> "Z1", type |-> "danger", area |-> {"press"}, needs |-> {"hardhat", "gloves"}, enabled |-> TRUE, loads |-> TRUE],
   [id |-> "Z1", type |-> "restricted", area |-> {"press", "gate"}, needs |-> {"hardhat"}, enabled |-> TRUE, loads |-> TRUE],
   [id |-> "Z2", type |-> "restricted", area |-> {"gate"}, needs |-> {"gloves"}, enabled |-> TRUE, loads |-> FALSE],
   [id |-> "Z3", type |-> "safe", area |-> {"gate"}, needs |-> {"gloves"}, enabled |-> TRUE, loads |-> TRUE]}

Worn == {{}, {"hardhat"}, {"hardhat", "gloves"}}
MCSightings ==
  {{}} \cup {{[track |-> 1, place |-> p, worn |-> w]} : p \in {"press", "gate"}, w \in Worn}
  \cup {{[track |-> 1, place |-> "press", worn |-> w], [track |-> 2, place |-> "press", worn |-> {}]} : w \in Worn}

MCMonitorEvents ==
  {[type |-> "frame", fps |-> 10, msg |-> FALSE], [type |-> "error", fps |-> 0, msg |-> TRUE],
   [type |-> "low_fps", fps |-> 2, msg |-> FALSE], [type |-> "reconnect", fps |-> 0, msg |-> FALSE]}

Init ==
  /\ part \in {"zones", "attendance", "risk", "identity", "records",
              "billing", "registry", "monitor",
              "calibration", "light"}
  /\ ZoneAlertsInit
  /\ AttendanceInit
  /\ RiskInit
  /\ IdentityInit
  /\ RecordsInit
  /\ BillingInit
  /\ RegistryInit
  /\ MonitorInit
  /\ CalibrationInit
  /\ LightInit
  /\ part = "light" \/ lightBuilt

Next ==
  \/ part = "zones" /\ ZoneAlertsNext
     /\ UNCHANGED <<part, attendanceVars, riskVars, identityVars,
                   recordVars, billingVars, registryVars, monitorVars,
                   calibrationVars, lightVars>>
  \/ part = "attendance" /\ AttendanceNext
     /\ UNCHANGED <<part, zoneVars, riskVars, identityVars, recordVars,
                   billingVars, registryVars, monitorVars,
                   calibrationVars, lightVars>>
  \/ part = "risk" /\ RiskNext
     /\ UNCHANGED <<part, zoneVars, attendanceVars, identityVars,
                   recordVars, billingVars, registryVars, monitorVars,
                   calibrationVars, lightVars>>
  \/ part = "identity" /\ IdentityNext
     /\ UNCHANGED <<part, zoneVars, attendanceVars, riskVars, recordVars,
                   billingVars, registryVars, monitorVars,
                   calibrationVars, lightVars>>
  \/ part = "records" /\ RecordsNext
     /\ UNCHANGED <<part, zoneVars, attendanceVars, riskVars,
                   identityVars, billingVars, registryVars, monitorVars,
                   calibrationVars, lightVars>>
  \/ part = "billing" /\ BillingNext
     /\ UNCHANGED <<part, zoneVars, attendanceVars, riskVars,
                   identityVars, recordVars, registryVars, monitorVars,
                   calibrationVars, lightVars>>
  \/ part = "registry" /\ RegistryNext
     /\ UNCHANGED <<part, zoneVars, attendanceVars, riskVars,
                   identityVars, recordVars, billingVars, monitorVars,
                   calibrationVars, lightVars>>
  \/ part = "monitor" /\ MonitorNext
     /\ UNCHANGED <<part, zoneVars, attendanceVars, riskVars,
                   identityVars, recordVars, billingVars, registryVars,
                   calibrationVars, lightVars>>
  \/ part = "calibration" /\ CalibrationNext
     /\ UNCHANGED <<part, zoneVars, attendanceVars, riskVars,
                   identityVars, recordVars, billingVars, registryVars,
                   monitorVars, lightVars>>
  \/ part = "light" /\ LightNext
     /\ UNCHANGED <<part, zoneVars, attendanceVars, riskVars,
                   identityVars, recordVars, billingVars, registryVars,
                   monitorVars, calibrationVars>>

Spec == Init /\ [][Next]_vars
=============================================================================
