----------------------------- MODULE ZoneAlerts -----------------------------
(***************************************************************************)
(* The zone alert engine (backend/alerts/zone_alert_engine.py) and the     *)
(* zones API that feeds it (backend/routes/zones_route.py).  The database  *)
(* owns the zones; the engine holds a copy that every POST reloads.  A     *)
(* worker inside a zone without the PPE the zone requires is reported,     *)
(* once per dwell threshold and zone.                                      *)
(*                                                                         *)
(* A place stands for the points that lie in the same zones.  A sighting   *)
(* is one tracked detection of a class that counts as a person: where it   *)
(* is and which PPE detections overlap it and are near.                    *)
(***************************************************************************)
EXTENDS Naturals, FiniteSets

CONSTANTS
  ZoneDefs,     \* the zones clients post: id, type, area, needs, enabled, loads
  Tracks,
  Sightings,    \* sets of [track, place, worn], one sighting per track
  Dwell         \* dwell_threshold_s, in ticks; a frame is evaluated every tick

ASSUME ZoneAlertsAssumption ==
  /\ Dwell \in Nat \ {0}
  /\ \A seen \in Sightings : \A s \in seen : s.track \in Tracks

VARIABLES
  zoneRows,     \* camera_zones: the rows, [def, active]
  engine,       \* _zones
  sinceAlert,   \* _last_alert: ticks since, Dwell when longer ago or never
  inZones,      \* _track_zones
  answered,     \* zones whose POST was answered 201 and that nobody removed since
  unreloaded,   \* POSTs that have committed and not reloaded yet
  unguarded,    \* workers of the last frame without the PPE of an answered zone
  told,         \* ticks since the last alert a caller got, per worker and zone
  loaded        \* history: this process has loaded the zones at least once

zoneVars == <<zoneRows, engine, sinceAlert, inZones, answered, unreloaded, unguarded, told, loaded>>

Ids == {z.id : z \in ZoneDefs}
AlertKeys == Tracks \X Ids

ZoneAlertsInit ==
  /\ zoneRows = {}
  /\ engine = {}
  /\ sinceAlert = [k \in AlertKeys |-> Dwell]
  /\ inZones = [t \in Tracks |-> {}]
  /\ answered = {}
  /\ unreloaded = {}
  /\ unguarded = {}
  /\ told = [k \in AlertKeys |-> Dwell]
  /\ loaded = FALSE

Replace(zones, new) == {z \in zones : z.id \notin {n.id : n \in new}} \cup new

(* What load_zones_from_db leaves in the engine: rows that do not parse    *)
(* are skipped, and zones that are no longer active stay.                  *)
Reloaded ==
  Replace(engine, {r.def : r \in {q \in zoneRows : q.active /\ q.def.loads}})

(* POST /zones: the row is committed, then the engine is reloaded.         *)
CreateZone(z) ==
  /\ z.id \notin {r.def.id : r \in zoneRows}
  /\ zoneRows' = zoneRows \cup {[def |-> z, active |-> TRUE]}
  /\ unreloaded' = unreloaded \cup {z}
  /\ UNCHANGED <<engine, sinceAlert, inZones, answered, unguarded, told, loaded>>

\* Mutant: the engine is reloaded before the commit, in a session of its own.
Reload_BeforeCommit(z) ==
  /\ z \in unreloaded
  /\ unreloaded' = unreloaded \ {z}
  /\ engine' = Replace(engine, {r.def : r \in {q \in zoneRows : q.active /\ q.def.loads /\ q.def # z}})
  /\ answered' = answered \cup {z.id} /\ loaded' = TRUE
  /\ UNCHANGED <<zoneRows, sinceAlert, inZones, unguarded, told>>

Reload(z) ==
  /\ z \in unreloaded
  /\ unreloaded' = unreloaded \ {z}
  /\ engine' = Reloaded
  /\ answered' = answered \cup {z.id} /\ loaded' = TRUE
  /\ UNCHANGED <<zoneRows, sinceAlert, inZones, unguarded, told>>

(* The reload's SELECT fails: answer 500, the row stays.                   *)
ReloadFails(z) ==
  /\ z \in unreloaded
  /\ unreloaded' = unreloaded \ {z}
  /\ UNCHANGED <<zoneRows, engine, sinceAlert, inZones, answered, unguarded, told, loaded>>

(* DELETE /zones/{id} clears the row's active flag and nothing else.       *)
DeleteZone(i) ==
  /\ \E r \in zoneRows : r.def.id = i
  /\ zoneRows' = {IF r.def.id = i THEN [r EXCEPT !.active = FALSE] ELSE r : r \in zoneRows}
  /\ UNCHANGED <<engine, sinceAlert, inZones, answered, unreloaded, unguarded, told, loaded>>

(* ZoneAlertEngine.remove_zone also forgets the zone's debounce stamps.    *)
RemoveZone(i) ==
  /\ engine' = {z \in engine : z.id # i}
  /\ sinceAlert' = [k \in AlertKeys |-> IF k[2] = i THEN Dwell ELSE sinceAlert[k]]
  /\ answered' = answered \ {i}
  /\ UNCHANGED <<zoneRows, inZones, unreloaded, unguarded, told, loaded>>

ResetEngine ==
  /\ sinceAlert' = [k \in AlertKeys |-> Dwell]
  /\ inZones' = [t \in Tracks |-> {}]
  /\ UNCHANGED <<zoneRows, engine, answered, unreloaded, unguarded, told, loaded>>

(* The backend starts again: the engine is empty, the requests are gone,   *)
(* and nothing calls load_zones_from_db until the next POST.               *)
Restart ==
  /\ engine' = {} /\ loaded' = FALSE
  /\ sinceAlert' = [k \in AlertKeys |-> Dwell]
  /\ inZones' = [t \in Tracks |-> {}]
  /\ unreloaded' = {}
  /\ UNCHANGED <<zoneRows, answered, unguarded, told>>

-----------------------------------------------------------------------------
Watched(zones) == {z \in zones : z.enabled /\ z.type # "safe"}

Missing(s, z) == z.needs \ s.worn

Severity(z, missing) ==
  CASE z.type = "danger" -> IF Cardinality(missing) >= 2 THEN "CRITICAL" ELSE "HIGH"
    [] z.type = "restricted" -> "HIGH"
    [] OTHER -> "LOW"

(* Who stands in which watched zone without what it requires. *)
Offences(zones, seen) ==
  {o \in seen \X Watched(zones) : o[1].place \in o[2].area /\ Missing(o[1], o[2]) # {}}

Aged(ages) == [k \in AlertKeys |-> IF ages[k] < Dwell THEN ages[k] + 1 ELSE Dwell]

(* evaluate: the alerts of one frame.  The stamp of a pair moves only when *)
(* its alert is raised.                                                    *)
Alerts(seen) ==
  {[track |-> o[1].track, zone |-> o[2].id, severity |-> Severity(o[2], Missing(o[1], o[2]))] :
     o \in {p \in Offences(engine, seen) : Aged(sinceAlert)[<<p[1].track, p[2].id>>] >= Dwell}}

Stamped(ages, raised) == [k \in AlertKeys |-> IF \E a \in raised : <<a.track, a.zone>> = k THEN 0 ELSE Aged(ages)[k]]

Posted == {r.def : r \in {q \in zoneRows : q.active}}

(* Why the engine need not know an active zone: its row does not parse,    *)
(* though its POST is answered 201, or the zones were not loaded yet.      *)
Excuse(z) ==
  CASE ~z.loads -> "skipped" [] z.loads /\ ~loaded -> "restarted" [] OTHER -> "none"

Evaluate(seen) ==
  LET raised == Alerts(seen) IN
  /\ sinceAlert' = Stamped(sinceAlert, raised)
  /\ told' = Stamped(told, raised)
  /\ inZones' =
       [t \in Tracks |->
          {i \in inZones[t] : i \notin {z.id : z \in Watched(engine)} \/ \A s \in seen : s.track # t}
          \cup {z.id : z \in {w \in Watched(engine) : \E s \in seen : s.track = t /\ s.place \in w.area}}]
  /\ unguarded' =
       {[key |-> <<o[1].track, o[2].id>>, excuse |-> Excuse(o[2])] :
          o \in {p \in Offences(Posted, seen) : p[2].id \in answered}}
  /\ UNCHANGED <<zoneRows, engine, answered, unreloaded, loaded>>

ZoneAlertsNext ==
  \/ \E z \in ZoneDefs : CreateZone(z) \/ Reload(z) \/ ReloadFails(z)
  \/ \E i \in Ids : DeleteZone(i) \/ RemoveZone(i)
  \/ ResetEngine \/ Restart
  \/ \E seen \in Sightings : Evaluate(seen)

ZoneAlertsSpec == ZoneAlertsInit /\ [][ZoneAlertsNext]_zoneVars

-----------------------------------------------------------------------------
(* Once POST /zones has answered 201, a worker whom the last frame showed  *)
(* in the zone without its PPE has been reported for that zone within the  *)
(* dwell threshold, however creations, deletions, failed reloads, resets   *)
(* and restarts interleave (zones_route.py:153, zone_alert_engine.py:333); *)
(* except in a zone whose row the engine cannot parse, and between a       *)
(* restart and the first POST after it, which brings all zones back.       *)
AnsweredZonesGuard == \A u \in unguarded : u.excuse = "none" => told[u.key] < Dwell

(* The same without excuse for a restart: "Call at startup and after any   *)
(* zone update via API" (zone_alert_engine.py:176).                        *)
ZonesSurviveRestart == \A u \in unguarded : u.excuse # "skipped" => told[u.key] < Dwell
=============================================================================
