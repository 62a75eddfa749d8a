----------------------------- MODULE SiteProofs -----------------------------
(***************************************************************************)
(* Proofs about what runs on a site, for every value of the constants: the *)
(* zone alert engine (ZoneAlerts), attendance (Attendance), a worker's     *)
(* risk (RiskScore), the saved calibrations (Calibration), permits to work *)
(* (Permit), the fire alert engine (FireAlert) and the escalation matrix   *)
(* (Escalation).                                                           *)
(***************************************************************************)
EXTENDS ZoneAlerts, Attendance, RiskScore, Calibration, Permit, FireAlert, Escalation,
        RecursionFacts, FiniteSetTheorems, FunctionTheorems, SequenceTheorems, TLAPS

-----------------------------------------------------------------------------
(* Zones.  Why an answered POST watches its zone: a row that is active and *)
(* loads is in the engine as long as its id is answered, since only a      *)
(* removal takes a zone out, and that takes the answer back too, or a      *)
(* restart, after which nothing counts as loaded before a reload; and ids  *)
(* that are answered, or whose POST has yet to reload, have their row      *)
(* already, so that no later row brings one of them a new definition.      *)
(* What the caller was told is never older than the engine's own stamp.    *)
Loaded == {r.def : r \in {q \in zoneRows : q.active /\ q.def.loads}}

ZonesInv ==
  /\ zoneRows \subseteq [def : ZoneDefs, active : BOOLEAN]
  /\ \A z \in unreloaded : \E r \in zoneRows : r.def.id = z.id
  /\ \A i \in answered : i \in Ids /\ \E r \in zoneRows : r.def.id = i
  /\ \A d \in Loaded : loaded /\ d.id \in answered => d \in engine
  /\ sinceAlert \in [AlertKeys -> 0..Dwell] /\ told \in [AlertKeys -> 0..Dwell]
  /\ \A k \in AlertKeys : told[k] <= sinceAlert[k]
  /\ \A u \in unguarded : u.key \in AlertKeys
  /\ AnsweredZonesGuard

LEMMA ZonesStart == ZoneAlertsInit => ZonesInv
  BY ZoneAlertsAssumption DEF ZoneAlertsInit, ZonesInv, Loaded, AnsweredZonesGuard

(* A reload leaves every row that is active and loads in the engine. *)
LEMMA ReloadedHasAll == Loaded \subseteq Reloaded
  BY DEF Loaded, Reloaded, Replace

LEMMA CreateKeeps == ASSUME ZonesInv, NEW z \in ZoneDefs, CreateZone(z) PROVE ZonesInv'
<1> DEFINE new == [def |-> z, active |-> TRUE]
<1>1. /\ z.id \notin {r.def.id : r \in zoneRows}
      /\ zoneRows' = zoneRows \cup {new} /\ unreloaded' = unreloaded \cup {z}
      /\ UNCHANGED <<engine, sinceAlert, inZones, answered, unguarded, told, loaded>>
  BY DEF CreateZone
<1>2. z.id \notin answered
  BY <1>1 DEF ZonesInv
<1>3. new \in [def : ZoneDefs, active : BOOLEAN] /\ new.def = z
  OBVIOUS
<1> HIDE DEF new
<1>4. \A d \in Loaded' : d = z \/ d \in Loaded
  BY <1>1, <1>3 DEF Loaded
<1>5. \A d \in Loaded' : loaded' /\ d.id \in answered' => d \in engine'
  BY <1>1, <1>2, <1>4 DEF ZonesInv
<1>6. zoneRows' \subseteq [def : ZoneDefs, active : BOOLEAN]
  BY <1>1, <1>3 DEF ZonesInv
<1>7. \A i : (\E r \in zoneRows : r.def.id = i) => \E r \in zoneRows' : r.def.id = i
  BY <1>1
<1>8. \E r \in zoneRows' : r.def.id = z.id
  BY <1>1, <1>3
<1>9. /\ \A y \in unreloaded' : \E r \in zoneRows' : r.def.id = y.id
      /\ \A i \in answered' : i \in Ids /\ \E r \in zoneRows' : r.def.id = i
  BY <1>1, <1>7, <1>8 DEF ZonesInv
<1> QED
  BY <1>1, <1>5, <1>6, <1>9 DEF ZonesInv, AnsweredZonesGuard

LEMMA ReloadKeeps == ASSUME ZonesInv, NEW z \in ZoneDefs, Reload(z) \/ ReloadFails(z) PROVE ZonesInv'
<1>1. CASE Reload(z)
  <2>1. Loaded' = Loaded
    BY <1>1 DEF Reload, Loaded
  <2>2. \A d \in Loaded' : loaded' /\ d.id \in answered' => d \in engine'
    BY <1>1, <2>1, ReloadedHasAll DEF Reload
  <2>3. z.id \in Ids /\ \E r \in zoneRows : r.def.id = z.id
    BY <1>1 DEF Reload, ZonesInv, Ids
  <2> QED
    BY <1>1, <2>2, <2>3 DEF Reload, ZonesInv, AnsweredZonesGuard
<1>2. CASE ReloadFails(z)
  BY <1>2 DEF ReloadFails, ZonesInv, Loaded, AnsweredZonesGuard
<1> QED
  BY <1>1, <1>2

LEMMA DeleteKeeps == ASSUME ZonesInv, NEW i \in Ids, DeleteZone(i) PROVE ZonesInv'
<1> DEFINE DefRows == [def : ZoneDefs, active : BOOLEAN]
<1>1. /\ zoneRows' = {IF r.def.id = i THEN [r EXCEPT !.active = FALSE] ELSE r : r \in zoneRows}
      /\ UNCHANGED <<engine, sinceAlert, inZones, answered, unreloaded, unguarded, told, loaded>>
  BY DEF DeleteZone
<1>2. ASSUME NEW r \in DefRows
      PROVE  [r EXCEPT !.active = FALSE] \in DefRows /\ [r EXCEPT !.active = FALSE].def = r.def
             /\ [r EXCEPT !.active = FALSE].active = FALSE
  OBVIOUS
<1>3. \A q \in zoneRows' : q \in DefRows /\ \E r \in zoneRows : q.def = r.def /\ (q.active => r.active)
  <2> SUFFICES ASSUME NEW q \in zoneRows'
               PROVE  q \in DefRows /\ \E r \in zoneRows : q.def = r.def /\ (q.active => r.active)
    OBVIOUS
  <2>1. PICK r \in zoneRows : q = IF r.def.id = i THEN [r EXCEPT !.active = FALSE] ELSE r
    BY <1>1
  <2>2. r \in DefRows
    BY DEF ZonesInv
  <2> QED
    BY <1>2, <2>1, <2>2
<1>4. \A r \in zoneRows : \E q \in zoneRows' : q.def = r.def
  <2> SUFFICES ASSUME NEW r \in zoneRows PROVE \E q \in zoneRows' : q.def = r.def
    OBVIOUS
  <2>1. r \in DefRows
    BY DEF ZonesInv
  <2>2. (IF r.def.id = i THEN [r EXCEPT !.active = FALSE] ELSE r) \in zoneRows'
    BY <1>1
  <2> QED
    BY <1>2, <2>1, <2>2
<1>5. Loaded' \subseteq Loaded
  BY <1>3 DEF Loaded
<1>6. /\ \A y \in unreloaded' : \E r \in zoneRows' : r.def.id = y.id
      /\ \A j \in answered' : j \in Ids /\ \E r \in zoneRows' : r.def.id = j
  BY <1>1, <1>4 DEF ZonesInv
<1>7. \A d \in Loaded' : loaded' /\ d.id \in answered' => d \in engine'
  BY <1>1, <1>5 DEF ZonesInv
<1>8. zoneRows' \subseteq DefRows
  BY <1>3
<1> QED
  BY <1>1, <1>6, <1>7, <1>8 DEF ZonesInv, AnsweredZonesGuard

LEMMA RemoveKeeps == ASSUME ZonesInv, NEW i \in Ids, RemoveZone(i) PROVE ZonesInv'
<1>1. /\ engine' = {z \in engine : z.id # i} /\ answered' = answered \ {i}
      /\ sinceAlert' = [k \in AlertKeys |-> IF k[2] = i THEN Dwell ELSE sinceAlert[k]]
      /\ UNCHANGED <<zoneRows, inZones, unreloaded, unguarded, told, loaded>>
  BY DEF RemoveZone
<1>2. sinceAlert' \in [AlertKeys -> 0..Dwell] /\ \A k \in AlertKeys : told'[k] <= sinceAlert'[k]
  BY <1>1, ZoneAlertsAssumption DEF ZonesInv
<1>3. Loaded' = Loaded
  BY <1>1 DEF Loaded
<1> QED
  BY <1>1, <1>2, <1>3 DEF ZonesInv, AnsweredZonesGuard

LEMMA ResetKeeps == ASSUME ZonesInv, ResetEngine PROVE ZonesInv'
<1>1. /\ sinceAlert' = [k \in AlertKeys |-> Dwell]
      /\ UNCHANGED <<zoneRows, engine, answered, unreloaded, unguarded, told, loaded>>
  BY DEF ResetEngine
<1>2. sinceAlert' \in [AlertKeys -> 0..Dwell] /\ \A k \in AlertKeys : told'[k] <= sinceAlert'[k]
  BY <1>1, ZoneAlertsAssumption DEF ZonesInv
<1> QED
  BY <1>1, <1>2 DEF ZonesInv, AnsweredZonesGuard, Loaded

LEMMA RestartKeeps == ASSUME ZonesInv, Restart PROVE ZonesInv'
<1>1. /\ loaded' = FALSE /\ unreloaded' = {}
      /\ sinceAlert' = [k \in AlertKeys |-> Dwell]
      /\ UNCHANGED <<zoneRows, answered, unguarded, told>>
  BY DEF Restart
<1>2. sinceAlert' \in [AlertKeys -> 0..Dwell] /\ \A k \in AlertKeys : told'[k] <= sinceAlert'[k]
  BY <1>1, ZoneAlertsAssumption DEF ZonesInv
<1> QED
  BY <1>1, <1>2 DEF ZonesInv, AnsweredZonesGuard, Loaded

(* The stamps of a frame: 0 where an alert was raised, one tick more       *)
(* elsewhere.                                                              *)
LEMMA StampsKeep ==
  ASSUME NEW ages \in [AlertKeys -> 0..Dwell], NEW raised
  PROVE  /\ Stamped(ages, raised) \in [AlertKeys -> 0..Dwell]
         /\ \A k \in AlertKeys :
              Stamped(ages, raised)[k] =
                IF \E a \in raised : <<a.track, a.zone>> = k THEN 0
                ELSE IF ages[k] < Dwell THEN ages[k] + 1 ELSE Dwell
  BY ZoneAlertsAssumption DEF Stamped, Aged

(* A worker of the frame who lacks the equipment of an answered zone is    *)
(* told of in the frame itself or was, as the stamp shows, just before.    *)
LEMMA OffenceIsTold ==
  ASSUME ZonesInv, NEW seen \in Sightings, NEW u \in unguarded', Evaluate(seen)
  PROVE  u.key \in AlertKeys /\ (u.excuse = "none" => told'[u.key] < Dwell)
<1> DEFINE raised == Alerts(seen)
           k == u.key
<1>0. PICK o \in Offences(Posted, seen) :
        u = [key |-> <<o[1].track, o[2].id>>, excuse |-> Excuse(o[2])] /\ o[2].id \in answered
  BY DEF Evaluate
<1>1. /\ k = <<o[1].track, o[2].id>> /\ o[2].id \in answered
      /\ u.excuse = Excuse(o[2])
  BY <1>0
<1> HIDE DEF k
<1>2. o \in seen \X Watched(Posted) /\ o[1].place \in o[2].area /\ Missing(o[1], o[2]) # {}
  BY DEF Offences
<1>3. o[1] \in seen /\ o[2] \in Posted /\ o[2] \in Watched(Posted) /\ o = <<o[1], o[2]>>
  BY <1>2 DEF Watched
<1>6. k \in AlertKeys
  <2>1. o[1].track \in Tracks
    BY <1>3, ZoneAlertsAssumption
  <2>2. o[2].id \in Ids
    BY <1>1 DEF ZonesInv
  <2> QED
    BY <1>1, <2>1, <2>2 DEF AlertKeys
<1>7. /\ told' = Stamped(told, raised) /\ sinceAlert[k] \in 0..Dwell /\ told[k] \in 0..Dwell
      /\ told[k] <= sinceAlert[k]
  BY <1>6 DEF Evaluate, ZonesInv
<1>8. told'[k] = IF \E a \in raised : <<a.track, a.zone>> = k THEN 0
                 ELSE IF told[k] < Dwell THEN told[k] + 1 ELSE Dwell
  BY <1>6, <1>7, StampsKeep DEF ZonesInv
<1>11. ASSUME u.excuse = "none" PROVE told'[k] < Dwell
  <2>4. o[2] \in Watched(engine)
    <3>1. o[2].loads /\ loaded
      BY <1>1, <1>11 DEF Excuse
    <3>2. o[2] \in Loaded
      BY <1>3, <3>1 DEF Posted, Loaded
    <3> QED
      BY <1>1, <1>3, <3>1, <3>2 DEF Watched, ZonesInv
  <2>5. o \in Offences(engine, seen)
    BY <1>2, <1>3, <2>4 DEF Offences
  <2>9. CASE Aged(sinceAlert)[k] >= Dwell
    <3>1. [track |-> o[1].track, zone |-> o[2].id, severity |-> Severity(o[2], Missing(o[1], o[2]))] \in raised
      BY <1>1, <2>5, <2>9 DEF Alerts
    <3>2. \E a \in raised : <<a.track, a.zone>> = k
      BY <1>1, <3>1
    <3> QED
      BY <1>6, <1>8, <3>2, ZoneAlertsAssumption
  <2>10. CASE ~(Aged(sinceAlert)[k] >= Dwell)
    <3>1. sinceAlert[k] + 1 < Dwell
      BY <1>6, <1>7, <2>10, ZoneAlertsAssumption DEF Aged
    <3> QED
      BY <1>6, <1>7, <1>8, <3>1, ZoneAlertsAssumption
  <2> QED
    BY <2>9, <2>10
<1> QED
  BY <1>6, <1>11 DEF k

LEMMA EvaluatedKeeps == ASSUME ZonesInv, NEW seen \in Sightings, Evaluate(seen) PROVE ZonesInv'
<1> DEFINE raised == Alerts(seen)
<1>1. /\ sinceAlert' = Stamped(sinceAlert, raised) /\ told' = Stamped(told, raised)
      /\ UNCHANGED <<zoneRows, engine, answered, unreloaded, loaded>>
  BY DEF Evaluate
<1> HIDE DEF raised
<1>2. sinceAlert' \in [AlertKeys -> 0..Dwell] /\ told' \in [AlertKeys -> 0..Dwell]
  BY <1>1, StampsKeep DEF ZonesInv
<1>3. ASSUME NEW k \in AlertKeys PROVE told'[k] <= sinceAlert'[k]
  <2>1. told[k] \in 0..Dwell /\ sinceAlert[k] \in 0..Dwell /\ told[k] <= sinceAlert[k]
    BY DEF ZonesInv
  <2>2. /\ told'[k] = IF \E a \in raised : <<a.track, a.zone>> = k THEN 0
                      ELSE IF told[k] < Dwell THEN told[k] + 1 ELSE Dwell
        /\ sinceAlert'[k] = IF \E a \in raised : <<a.track, a.zone>> = k THEN 0
                            ELSE IF sinceAlert[k] < Dwell THEN sinceAlert[k] + 1 ELSE Dwell
    BY <1>1, StampsKeep DEF ZonesInv
  <2> QED
    BY <2>1, <2>2, ZoneAlertsAssumption
<1>4. (\A u \in unguarded' : u.key \in AlertKeys) /\ AnsweredZonesGuard'
  BY OffenceIsTold DEF AnsweredZonesGuard
<1> QED
  BY <1>1, <1>2, <1>3, <1>4 DEF ZonesInv, Loaded

LEMMA ZonesStep == ZonesInv /\ [ZoneAlertsNext]_zoneVars => ZonesInv'
<1> SUFFICES ASSUME ZonesInv, [ZoneAlertsNext]_zoneVars PROVE ZonesInv'
  OBVIOUS
<1>1. CASE UNCHANGED zoneVars
  BY <1>1 DEF zoneVars, ZonesInv, Loaded, AnsweredZonesGuard
<1> QED
  BY <1>1, CreateKeeps, ReloadKeeps, DeleteKeeps, RemoveKeeps, ResetKeeps, RestartKeeps, EvaluatedKeeps DEF ZoneAlertsNext

(* Whatever zones are posted, deleted and removed, whoever is seen where   *)
(* and however often the backend starts again: once a POST is answered, a  *)
(* worker without the zone's equipment is reported within the dwell        *)
(* threshold (zone_alert_engine.py:333), in every zone that parses and as  *)
(* soon as the process has loaded its zones.                               *)
THEOREM AnsweredZonesAlwaysGuard == ZoneAlertsSpec => []AnsweredZonesGuard
<1>1. ZonesInv => AnsweredZonesGuard
  BY DEF ZonesInv
<1> QED
  BY ZonesStart, ZonesStep, <1>1, PTL DEF ZoneAlertsSpec

-----------------------------------------------------------------------------
(* Attendance.  A worker who is present has an open row of today that no   *)
(* check-out is about to close: a check-out that begins takes the worker   *)
(* off the list, and one in flight closes a row of its own worker only.    *)
Attended == [worker : Workers, site : Sites, day : 0..LastDay, out : BOOLEAN]
Asks == {Idle} \cup [op : {"in"}, worker : Workers, site : Sites]
               \cup [op : {"out"}, worker : Workers, row : Nat]
Untouched(i) == \A r \in Requests : request[r].op = "out" => request[r].row # i

AttendanceInv ==
  /\ rows \in Seq(Attended) /\ today \in 0..LastDay
  /\ request \in [Requests -> Asks]
  /\ \A r \in Requests : request[r].op = "out" =>
       request[r].row \in DOMAIN rows /\ rows[request[r].row].worker = request[r].worker
  /\ present \subseteq Workers
  /\ \A w \in present : \E i \in OpenOf(w) : Untouched(i)

LEMMA AttendanceStarts == AttendanceInit => AttendanceInv
  BY AttendanceAssumption DEF AttendanceInit, AttendanceInv, Asks, Idle

(* A non-empty set of positions has a greatest one. *)
LEMMA NewestRow ==
  ASSUME NEW n \in Nat, NEW S, S \subseteq 1..n, S # {}
  PROVE  \E i \in S : \A j \in S : j <= i
<1> DEFINE below == {n - i : i \in S}
<1>1. below \subseteq Nat /\ below # {}
  <2>1. \A i \in S : n - i \in Nat
    OBVIOUS
  <2>2. \E i : i \in S
    OBVIOUS
  <2> QED
    BY <2>1, <2>2
<1>2. PICK m \in below : \A k \in below : m <= k
  BY <1>1, FirstOf
<1>3. PICK i \in S : m = n - i
  BY <1>2
<1>4. \A j \in S : n - j \in below
  OBVIOUS
<1>5. ASSUME NEW j \in S PROVE j <= i
  <2>1. m <= n - j
    BY <1>2, <1>4
  <2> QED
    BY <1>3, <2>1
<1> QED
  BY <1>5

LEMMA CheckInKeeps ==
  ASSUME AttendanceInv, NEW r \in Requests, NEW w \in Workers, NEW s \in Sites, CheckInReads(r, w, s)
  PROVE  AttendanceInv'
<1> DEFINE ask == [op |-> "in", worker |-> w, site |-> s]
<1>1. request' = [request EXCEPT ![r] = ask] /\ UNCHANGED <<rows, today, present>>
  BY DEF CheckInReads
<1>2. ask \in Asks /\ ask.op = "in"
  BY DEF Asks
<1> HIDE DEF ask
<1>3. \A x \in Requests : request'[x] = IF x = r THEN ask ELSE request[x]
  BY <1>1 DEF AttendanceInv
<1>4. \A i : Untouched(i) => Untouched(i)'
  BY <1>2, <1>3 DEF Untouched
<1>5. \A x : OpenOf(x)' = OpenOf(x)
  BY <1>1 DEF OpenOf, Open
<1> QED
  BY <1>1, <1>2, <1>3, <1>4, <1>5 DEF AttendanceInv

LEMMA CheckOutKeeps ==
  ASSUME AttendanceInv, NEW r \in Requests, NEW w \in Workers, CheckOutReads(r, w)
  PROVE  AttendanceInv'
<1> DEFINE i == CHOOSE i \in OpenOf(w) : \A j \in OpenOf(w) : j <= i
           ask == [op |-> "out", worker |-> w, row |-> i]
<1>1. /\ request' = [request EXCEPT ![r] = ask] /\ present' = present \ {w} /\ UNCHANGED <<rows, today>>
      /\ OpenOf(w) # {}
  BY DEF CheckOutReads
<1>2. Len(rows) \in Nat /\ DOMAIN rows = 1..Len(rows)
  BY LenProperties DEF AttendanceInv
<1>3. i \in OpenOf(w)
  <2>1. OpenOf(w) \subseteq 1..Len(rows)
    BY <1>2 DEF OpenOf
  <2> QED
    BY <1>1, <1>2, <2>1, NewestRow
<1>4. i \in DOMAIN rows /\ rows[i].worker = w /\ i \in Nat
  BY <1>2, <1>3 DEF OpenOf
<1> HIDE DEF i
<1>5. ask \in Asks /\ ask.op = "out" /\ ask.row = i /\ ask.worker = w
  BY <1>4 DEF Asks
<1> HIDE DEF ask
<1>6. \A x \in Requests : request'[x] = IF x = r THEN ask ELSE request[x]
  BY <1>1 DEF AttendanceInv
<1>7. ASSUME NEW x \in present' PROVE \E k \in OpenOf(x)' : Untouched(k)'
  <2>1. x \in present /\ x # w
    BY <1>1
  <2>2. PICK k \in OpenOf(x) : Untouched(k)
    BY <2>1 DEF AttendanceInv
  <2>3. k # i
    BY <1>4, <2>1, <2>2 DEF OpenOf
  <2>4. Untouched(k)'
    BY <1>5, <1>6, <2>2, <2>3 DEF Untouched
  <2>5. k \in OpenOf(x)'
    BY <1>1, <2>2 DEF OpenOf, Open
  <2> QED
    BY <2>4, <2>5
<1>8. request' \in [Requests -> Asks]
  BY <1>1, <1>5 DEF AttendanceInv
<1>9. \A x \in Requests : request'[x].op = "out" =>
        request'[x].row \in DOMAIN rows' /\ rows'[request'[x].row].worker = request'[x].worker
  BY <1>1, <1>4, <1>5, <1>6 DEF AttendanceInv
<1> QED
  BY <1>1, <1>7, <1>8, <1>9 DEF AttendanceInv

LEMMA CheckInWritesKeeps == ASSUME AttendanceInv, NEW r \in Requests, CheckInWrites(r) PROVE AttendanceInv'
<1> DEFINE a == request[r]
           new == [worker |-> a.worker, site |-> a.site, day |-> today, out |-> FALSE]
           n == Len(rows) + 1
<1>1. /\ a.op = "in" /\ rows' = Append(rows, new) /\ present' = present \cup {a.worker}
      /\ request' = [request EXCEPT ![r] = Idle] /\ UNCHANGED today
  BY DEF CheckInWrites
<1>2. a \in [op : {"in"}, worker : Workers, site : Sites]
  BY <1>1 DEF AttendanceInv, Asks, Idle
<1>3. new \in Attended /\ new.worker = a.worker /\ new.day = today /\ new.out = FALSE
  BY <1>2 DEF AttendanceInv, Attended
<1> HIDE DEF new
<1>4. /\ rows' \in Seq(Attended) /\ Len(rows) \in Nat /\ DOMAIN rows = 1..Len(rows) /\ DOMAIN rows' = 1..n
      /\ rows'[n] = new /\ \A i \in DOMAIN rows : rows'[i] = rows[i]
  BY <1>1, <1>3, AppendProperties, LenProperties DEF AttendanceInv
<1>5. \A x \in Requests : request'[x] = IF x = r THEN Idle ELSE request[x]
  BY <1>1 DEF AttendanceInv
<1>6. \A i : Untouched(i) => Untouched(i)'
  BY <1>5 DEF Untouched, Idle
<1>7. \A w : OpenOf(w) \subseteq OpenOf(w)'
  BY <1>1, <1>4 DEF OpenOf, Open
<1>8. PICK b : b = a.worker
  OBVIOUS
<1>9. PICK m : m = n
  OBVIOUS
<1>10. m \in OpenOf(b)'
  <2>1. m \in DOMAIN rows' /\ rows'[m].worker = b /\ rows'[m].day = today /\ rows'[m].out = FALSE
    BY <1>3, <1>4, <1>8, <1>9
  <2>2. today' = today
    BY <1>1
  <2> QED
    BY <2>1, <2>2 DEF OpenOf, Open
<1>11. ASSUME NEW w \in present' PROVE \E i \in OpenOf(w)' : Untouched(i)'
  <2>1. CASE w = a.worker
    <3>1. Untouched(m)'
      BY <1>4, <1>5, <1>9 DEF Untouched, AttendanceInv, Idle
    <3> QED
      BY <1>8, <1>10, <2>1, <3>1
  <2>2. CASE w \in present
    <3>1. PICK i \in OpenOf(w) : Untouched(i)
      BY <2>2 DEF AttendanceInv
    <3> QED
      BY <1>6, <1>7, <3>1
  <2> QED
    BY <1>1, <2>1, <2>2
<1>12. request' \in [Requests -> Asks]
  BY <1>1 DEF AttendanceInv, Asks
<1>13. \A x \in Requests : request'[x].op = "out" =>
         request'[x].row \in DOMAIN rows' /\ rows'[request'[x].row].worker = request'[x].worker
  BY <1>4, <1>5 DEF AttendanceInv, Idle
<1> QED
  BY <1>1, <1>2, <1>4, <1>11, <1>12, <1>13 DEF AttendanceInv

LEMMA CheckOutWritesKeeps == ASSUME AttendanceInv, NEW r \in Requests, CheckOutWrites(r) PROVE AttendanceInv'
<1> DEFINE q == request[r].row
<1>1. /\ request[r].op = "out" /\ rows' = [rows EXCEPT ![q].out = TRUE]
      /\ request' = [request EXCEPT ![r] = Idle] /\ UNCHANGED <<today, present>>
  BY DEF CheckOutWrites
<1>2. q \in DOMAIN rows
  BY <1>1 DEF AttendanceInv
<1>3. \A i \in DOMAIN rows : rows[i] \in Attended
  BY ElementOfSeq, LenProperties DEF AttendanceInv
<1>4. [rows[q] EXCEPT !.out = TRUE] \in Attended /\ [rows[q] EXCEPT !.out = TRUE].worker = rows[q].worker
  BY <1>2, <1>3 DEF Attended
<1> DEFINE done == [rows[q] EXCEPT !.out = TRUE]
<1>5. rows' = [rows EXCEPT ![q] = done]
  BY <1>1
<1> HIDE DEF done
<1>6. /\ rows' \in Seq(Attended) /\ DOMAIN rows' = DOMAIN rows
      /\ \A i \in DOMAIN rows : rows'[i] = IF i = q THEN done ELSE rows[i]
  BY <1>2, <1>4, <1>5, ExceptSeq, LenProperties DEF AttendanceInv, done
<1>7. \A x \in Requests : request'[x] = IF x = r THEN Idle ELSE request[x]
  BY <1>1 DEF AttendanceInv
<1>8. ASSUME NEW w \in present' PROVE \E k \in OpenOf(w)' : Untouched(k)'
  <2>1. PICK k \in OpenOf(w) : Untouched(k)
    BY <1>1, <1>8 DEF AttendanceInv
  <2>2. k # q
    BY <1>1, <2>1 DEF Untouched
  <2>3. k \in OpenOf(w)'
    BY <1>1, <1>6, <2>1, <2>2 DEF OpenOf, Open
  <2>4. Untouched(k)'
    BY <1>7, <2>1 DEF Untouched, Idle
  <2> QED
    BY <2>3, <2>4
<1>9. request' \in [Requests -> Asks]
  BY <1>1 DEF AttendanceInv, Asks
<1>10. \A x \in Requests : request'[x].op = "out" =>
         request'[x].row \in DOMAIN rows' /\ rows'[request'[x].row].worker = request'[x].worker
  <2>1. \A i \in DOMAIN rows : i \in DOMAIN rows' /\ rows'[i].worker = rows[i].worker
    BY <1>4, <1>6 DEF done
  <2>2. \A x \in Requests : request'[x].op = "out" => x # r /\ request'[x] = request[x]
    BY <1>7 DEF Idle
  <2> QED
    BY <2>1, <2>2 DEF AttendanceInv
<1> QED
  BY <1>1, <1>6, <1>8, <1>9, <1>10 DEF AttendanceInv

LEMMA AttendanceStep == AttendanceInv /\ [AttendanceNext]_attendanceVars => AttendanceInv'
<1> SUFFICES ASSUME AttendanceInv, [AttendanceNext]_attendanceVars PROVE AttendanceInv'
  OBVIOUS
<1>1. CASE Midnight
  <2>1. today' \in 0..LastDay /\ present' = {} /\ UNCHANGED <<rows, request>>
    BY <1>1, AttendanceAssumption DEF Midnight, AttendanceInv
  <2> QED
    BY <2>1 DEF AttendanceInv
<1>2. CASE UNCHANGED attendanceVars
  BY <1>2 DEF attendanceVars, AttendanceInv, OpenOf, Open, Untouched
<1> QED
  BY <1>1, <1>2, CheckInKeeps, CheckOutKeeps, CheckInWritesKeeps, CheckOutWritesKeeps DEF AttendanceNext

(* The three ways of counting who is on site: the muster's rows, today's   *)
(* check-ins less its check-outs, and the rows of the headcount by site.   *)
LEMMA CountsAgree ==
  ASSUME AttendanceInv, Cardinality(OfToday) <= LogLimit
  PROVE  Cardinality(Mustered) = StillIn /\ Cardinality(Headcount) = StillIn
<1>1. Len(rows) \in Nat /\ DOMAIN rows = 1..Len(rows) /\ \A i \in DOMAIN rows : rows[i] \in Attended
  BY LenProperties, ElementOfSeq DEF AttendanceInv
<1>2. IsFiniteSet(DOMAIN rows)
  BY <1>1, FS_Interval
<1>3. OfToday \in SUBSET DOMAIN rows
  BY DEF OfToday
<1>4. IsFiniteSet(OfToday) /\ Cardinality(OfToday) \in Nat
  BY <1>2, <1>3, FS_Subset, FS_CardinalityType
<1>5. TodayLog = OfToday
  <2> SUFFICES ASSUME NEW i \in OfToday PROVE Cardinality({j \in OfToday : j > i}) < LogLimit
    BY DEF TodayLog
  <2> DEFINE later == {j \in OfToday : j > i}
  <2>1. later \in SUBSET OfToday /\ i \notin later
    BY <1>1, <1>3
  <2> HIDE DEF later
  <2>2. Cardinality(later) \in Nat /\ Cardinality(later) <= Cardinality(OfToday)
        /\ Cardinality(later) # Cardinality(OfToday)
    BY <1>4, <2>1, FS_Subset, FS_CardinalityType
  <2>3. Cardinality(later) < LogLimit
    BY <1>4, <2>2, AttendanceAssumption
  <2> QED
    BY <2>3 DEF later
<1>6. Cardinality(Mustered) = StillIn
  <2> DEFINE left == {i \in TodayLog : rows[i].out}
  <2>1. Mustered = OfToday \ left
    BY <1>5 DEF Mustered, Open, OfToday
  <2>2. OfToday \cap left = left
    BY <1>5
  <2>3. Cardinality(OfToday \ left) = Cardinality(OfToday) - Cardinality(left)
    BY <1>4, <2>2, FS_Difference
  <2> QED
    BY <1>5, <2>1, <2>3 DEF StillIn
<1>7. IsFiniteSet(Mustered)
  <2>1. Mustered \in SUBSET DOMAIN rows
    BY DEF Mustered
  <2> QED
    BY <1>2, <2>1, FS_Subset
<1>8. Cardinality(Headcount) = Cardinality(Mustered)
  <2> DEFINE under == [i \in Mustered |-> <<rows[i].site, i>>]
  <2>1. \A i \in Mustered : i \in DOMAIN rows /\ rows[i].site \in Sites /\ Open(i)
    BY <1>1 DEF Mustered, Attended
  <2>2. \A i \in Mustered : under[i] \in Headcount
    BY <2>1 DEF Headcount
  <2>3. \A c \in Headcount : c[2] \in Mustered /\ under[c[2]] = c
    BY DEF Headcount, Mustered
  <2>4. \A i, j \in Mustered : under[i] = under[j] => i = j
    OBVIOUS
  <2>5. under \in [Mustered -> Headcount]
    BY <2>2
  <2>6. under \in Bijection(Mustered, Headcount)
    BY <2>3, <2>4, <2>5 DEF Bijection, Injection, Surjection, IsInjective
  <2> QED
    BY <1>7, <2>6, FS_Bijection DEF ExistsBijection
<1> QED
  BY <1>6, <1>8

(* For any numbers of workers, requests and rows: no muster misses a       *)
(* worker who is in, and no day that the log shows whole is counted in     *)
(* three different ways (attendance_route.py:118, :280, :369).             *)
THEOREM MusterNeverMisses == AttendanceSpec => []MusterMissesNobody
<1>1. AttendanceInv => MusterMissesNobody
  <2> SUFFICES ASSUME AttendanceInv PROVE MusterMissesNobody
    OBVIOUS
  <2>1. present \subseteq Muster
    BY DEF AttendanceInv, Muster, Mustered, OpenOf
  <2> QED
    BY <2>1, CountsAgree DEF MusterMissesNobody
<1> QED
  BY AttendanceStarts, AttendanceStep, <1>1, PTL DEF AttendanceSpec

-----------------------------------------------------------------------------
(* Calibration.  The file of a camera changes in the renaming alone, and   *)
(* what is renamed over it is whole by then: a session that is waiting to  *)
(* rename has written its temporary file to the end.  So a file that was   *)
(* ever reported as saved is whole, and so is the one about to be.         *)
Stored == [kind : {"absent", "torn", "whole"}, of : {0} \cup Measurements]
Sessions ==
  {NoSession} \cup [at : {"clicking"}, camera : CalCameras, points : Nat]
              \cup [at : {"verify", "write", "writing", "rename", "saved"}, camera : CalCameras, of : Measurements]

CalibrationInv ==
  /\ session \in Sessions
  /\ calFile \in [CalFiles -> Stored] /\ calTemp \in [CalFiles -> Stored]
  /\ \A f \in CalFiles : f \in calibrated => calFile[f].kind = "whole"
  /\ session.at = "rename" => calTemp[File].kind = "whole"
  /\ session.at = "saved" => calFile[File].kind = "whole"

LEMMA CalibrationStarts == CalibrationInit => CalibrationInv
  BY DEF CalibrationInit, CalibrationInv, Sessions, NoSession, Stored, Absent

(* A session that is past its points has a camera, which has a file. *)
LEMMA SessionFile ==
  ASSUME CalibrationInv, session # NoSession
  PROVE  /\ session.camera \in CalCameras /\ File \in CalFiles
         /\ session.at \in {"verify", "write", "writing", "rename", "saved"} => session.of \in Measurements
<1>1. session \in Sessions /\ session # NoSession
  BY DEF CalibrationInv
<1>2. /\ session.camera \in CalCameras
      /\ session.at \in {"verify", "write", "writing", "rename", "saved"} => session.of \in Measurements
  BY <1>1 DEF Sessions
<1> QED
  BY <1>2 DEF File, CalFiles

(* Steps of the session that touch no file. *)
LEMMA SessionMoves ==
  ASSUME CalibrationInv, UNCHANGED Saved, session' \in Sessions, session'.at \notin {"rename", "saved"}
  PROVE  CalibrationInv'
  BY DEF CalibrationInv, Saved, File

LEMMA SessionKeeps ==
  ASSUME CalibrationInv,
         \/ \E c \in CalCameras : OpenSession(c)
         \/ Click \/ Undo \/ Compute \/ Verify \/ Interrupted
  PROVE  CalibrationInv'
<1>t. session \in Sessions
  BY DEF CalibrationInv
<1>1. ASSUME NEW c \in CalCameras, OpenSession(c) PROVE CalibrationInv'
  <2>1. session' \in Sessions /\ session'.at = "clicking" /\ UNCHANGED Saved
    BY <1>1 DEF OpenSession, Sessions
  <2> QED
    BY <2>1, SessionMoves
<1>2. CASE Click \/ Undo
  <2>1. session \in [at : {"clicking"}, camera : CalCameras, points : Nat] /\ UNCHANGED Saved
    BY <1>t, <1>2 DEF Click, Undo, Sessions, NoSession
  <2>2. PICK n \in Nat : session' = [session EXCEPT !.points = n]
    <3>1. CASE Click
      BY <2>1, <3>1 DEF Click
    <3>2. CASE Undo
      BY <2>1, <3>2 DEF Undo
    <3> QED
      BY <1>2, <3>1, <3>2
  <2>3. session' \in Sessions /\ session'.at = "clicking"
    BY <2>1, <2>2 DEF Sessions
  <2> QED
    BY <2>1, <2>3, SessionMoves
<1>3. CASE Compute
  <2>1. session \in [at : {"clicking"}, camera : CalCameras, points : Nat] /\ UNCHANGED Saved
    BY <1>t, <1>3 DEF Compute, Sessions, NoSession
  <2>2. session' \in Sessions /\ session'.at \in {"none", "verify"}
    BY <1>3, <2>1 DEF Compute, Sessions, NoSession
  <2> QED
    BY <2>1, <2>2, SessionMoves
<1>4. CASE Verify
  <2>1. /\ session \in [at : {"verify", "write", "writing", "rename", "saved"}, camera : CalCameras, of : Measurements]
        /\ UNCHANGED Saved
    BY <1>t, <1>4 DEF Verify, Sessions, NoSession
  <2>2. session' \in Sessions /\ session'.at \in {"none", "write"}
    BY <1>4, <2>1 DEF Verify, Sessions, NoSession
  <2> QED
    BY <2>1, <2>2, SessionMoves
<1>5. CASE Interrupted
  <2>1. session' \in Sessions /\ session'.at = "none" /\ UNCHANGED Saved
    BY <1>5 DEF Interrupted, Sessions, NoSession
  <2> QED
    BY <2>1, SessionMoves
<1> QED
  BY <1>1, <1>2, <1>3, <1>4, <1>5

LEMMA SavingKeeps ==
  ASSUME CalibrationInv, SaveWrite \/ SaveFails \/ SaveWritten \/ SaveRenamed \/ SaveReported
  PROVE  CalibrationInv'
<1> DEFINE Saving == [at : {"verify", "write", "writing", "rename", "saved"}, camera : CalCameras, of : Measurements]
<1>1. session \in Saving /\ session # NoSession
  BY DEF CalibrationInv, Sessions, NoSession, SaveWrite, SaveFails, SaveWritten, SaveRenamed, SaveReported
<1>2. File \in CalFiles /\ session.of \in Measurements
  BY <1>1, SessionFile
<1>3. /\ calFile \in [CalFiles -> Stored] /\ calTemp \in [CalFiles -> Stored]
      /\ \A f \in CalFiles : f \in calibrated => calFile[f].kind = "whole"
  BY DEF CalibrationInv
<1>4. \A a \in {"writing", "rename", "saved"} :
        /\ [session EXCEPT !.at = a] \in Sessions /\ [session EXCEPT !.at = a].at = a
        /\ [session EXCEPT !.at = a].camera = session.camera
  BY <1>1 DEF Sessions
<1>5. NoSession \in Sessions /\ NoSession.at = "none"
  BY DEF Sessions, NoSession
<1>6. ASSUME NEW m \in Measurements
      PROVE  Torn(m) \in Stored /\ Whole(m) \in Stored /\ Whole(m).kind = "whole" /\ Absent \in Stored
  BY DEF Torn, Whole, Absent, Stored
<1>7. CASE SaveWrite
  <2>1. /\ session' = [session EXCEPT !.at = "writing"] /\ calTemp' = [calTemp EXCEPT ![File] = Torn(session.of)]
        /\ UNCHANGED <<calFile, calibrated>>
    BY <1>7 DEF SaveWrite
  <2>2. calTemp' \in [CalFiles -> Stored]
    BY <1>2, <1>3, <1>6, <2>1
  <2>3. session' \in Sessions /\ session'.at = "writing"
    BY <1>4, <2>1
  <2> QED
    BY <1>3, <2>1, <2>2, <2>3 DEF CalibrationInv
<1>8. CASE SaveFails
  <2>1. /\ session' = NoSession /\ calTemp' = [calTemp EXCEPT ![File] = Absent] /\ UNCHANGED <<calFile, calibrated>>
    BY <1>8 DEF SaveFails
  <2>2. calTemp' \in [CalFiles -> Stored]
    BY <1>2, <1>3, <1>6, <2>1
  <2> QED
    BY <1>3, <1>5, <2>1, <2>2 DEF CalibrationInv
<1>9. CASE SaveWritten
  <2>1. /\ session' = [session EXCEPT !.at = "rename"] /\ calTemp' = [calTemp EXCEPT ![File] = Whole(session.of)]
        /\ UNCHANGED <<calFile, calibrated>>
    BY <1>9 DEF SaveWritten
  <2>2. calTemp' \in [CalFiles -> Stored] /\ calTemp'[File].kind = "whole"
    BY <1>2, <1>3, <1>6, <2>1
  <2>3. session' \in Sessions /\ session'.at = "rename" /\ File' = File
    BY <1>4, <2>1 DEF File
  <2>4. calTemp'[File'].kind = "whole"
    BY <2>2, <2>3
  <2> QED
    BY <1>3, <2>1, <2>2, <2>3, <2>4 DEF CalibrationInv
<1>10. CASE SaveRenamed
  <2>1. /\ session.at = "rename" /\ session' = [session EXCEPT !.at = "saved"]
        /\ calFile' = [calFile EXCEPT ![File] = calTemp[File]] /\ calTemp' = [calTemp EXCEPT ![File] = Absent]
        /\ UNCHANGED calibrated
    BY <1>10 DEF SaveRenamed
  <2>2. calTemp[File] \in Stored /\ calTemp[File].kind = "whole"
    BY <1>2, <1>3, <2>1 DEF CalibrationInv
  <2>3. /\ calFile' \in [CalFiles -> Stored] /\ calTemp' \in [CalFiles -> Stored]
        /\ \A f \in CalFiles : calFile'[f] = IF f = File THEN calTemp[File] ELSE calFile[f]
    BY <1>2, <1>3, <1>6, <2>1, <2>2
  <2>4. session' \in Sessions /\ session'.at = "saved" /\ File' = File
    BY <1>4, <2>1 DEF File
  <2>5. \A f \in CalFiles : f \in calibrated' => calFile'[f].kind = "whole"
    BY <1>3, <2>1, <2>2, <2>3
  <2>6. calFile'[File'].kind = "whole"
    BY <1>2, <2>2, <2>3, <2>4
  <2> QED
    BY <2>3, <2>4, <2>5, <2>6 DEF CalibrationInv
<1>11. CASE SaveReported
  <2>1. /\ session.at = "saved" /\ calibrated' = calibrated \cup {File} /\ session' = NoSession
        /\ UNCHANGED <<calFile, calTemp>>
    BY <1>11 DEF SaveReported
  <2>2. calFile[File].kind = "whole"
    BY <2>1 DEF CalibrationInv
  <2>3. \A f \in CalFiles : f \in calibrated' => calFile'[f].kind = "whole"
    BY <1>3, <2>1, <2>2
  <2> QED
    BY <1>3, <1>5, <2>1, <2>3 DEF CalibrationInv
<1> QED
  BY <1>7, <1>8, <1>9, <1>10, <1>11

LEMMA CalibrationStep == CalibrationInv /\ [CalibrationNext]_calibrationVars => CalibrationInv'
<1> SUFFICES ASSUME CalibrationInv, [CalibrationNext]_calibrationVars PROVE CalibrationInv'
  OBVIOUS
<1>1. CASE UNCHANGED <<session, calFile, calTemp, calibrated>>
  BY <1>1 DEF CalibrationInv, File
<1>2. ASSUME NEW c \in CalCameras, StartEngine(c) PROVE CalibrationInv'
  BY <1>1, <1>2 DEF StartEngine
<1>3. CASE UNCHANGED calibrationVars
  BY <1>1, <1>3 DEF calibrationVars
<1> QED
  BY <1>2, <1>3, SessionKeeps, SavingKeeps DEF CalibrationNext

(* For any cameras and measurements, and wherever a session is stopped: a  *)
(* camera that has been calibrated can be loaded (calibrator.py, save and  *)
(* load).                                                                  *)
THEOREM AlwaysStaysCalibrated == CalibrationSpec => []StaysCalibrated
<1>1. CalibrationInv => StaysCalibrated
  <2> SUFFICES ASSUME CalibrationInv, NEW c \in CalCameras, CalFileOf(c) \in calibrated
               PROVE  Load(c, NotGiven).kind = "whole"
    BY DEF StaysCalibrated
  <2>1. c # NotGiven
    BY CalibrationAssumption DEF NotGiven
  <2>2. CalFileOf(c) \in CalFiles
    BY DEF CalFiles
  <2>3. calFile[CalFileOf(c)].kind = "whole"
    BY <2>2 DEF CalibrationInv
  <2> QED
    BY <2>1, <2>3 DEF Load
<1> QED
  BY CalibrationStarts, CalibrationStep, <1>1, PTL DEF CalibrationSpec

-----------------------------------------------------------------------------
(* Permits.  What an approval writes is still there, apart from the time   *)
(* passed: an active permit has started and has an end.                    *)
ApprovedWindow ==
  \A p \in Permits : row[p].status = "active" => row[p].starts = 0 /\ row[p].left # Unset

PermitInv == PermitTypeOK /\ ApprovedWindow

-----------------------------------------------------------------------------
(* The passing of time keeps a start and an end in their ranges and never  *)
(* makes or unmakes NULL.                                                  *)
LEMMA TimePasses ==
  /\ \A from \in Starts : /\ Sooner(from) \in Starts
                          /\ from = 0 => Sooner(from) = 0
  /\ \A left \in Lefts : /\ Less(left) \in Lefts
                         /\ left # Unset => Less(left) # Unset
<1>1. \A from \in Starts : Sooner(from) \in Starts /\ (from = 0 => Sooner(from) = 0)
  BY PermitAssumption DEF Starts, Sooner
<1>2. \A left \in Lefts : Less(left) \in Lefts /\ (left # Unset => Less(left) # Unset)
  BY PermitAssumption DEF Lefts, Less
<1> QED
  BY <1>1, <1>2

(* The initial table, and one step per operation. *)
LEMMA PermitStarts == PermitInit => PermitInv
<1> SUFFICES ASSUME PermitInit PROVE PermitInv
  OBVIOUS
<1>1. PermitTypeOK
  BY PermitAssumption DEF PermitInit, PermitTypeOK, Row, Status, Final, Starts, Lefts
<1>2. ApprovedWindow
  BY DEF PermitInit, ApprovedWindow
<1> QED
  BY <1>1, <1>2 DEF PermitInv

LEMMA PermitStep == PermitInv /\ [PermitNext]_permitVars => PermitInv'
<1> SUFFICES ASSUME PermitInv, [PermitNext]_permitVars PROVE PermitInv'
  OBVIOUS
<1> USE PermitAssumption
<1>t. PermitTypeOK /\ ApprovedWindow
  BY DEF PermitInv
<1>1. ASSUME NEW p \in Permits, RequestPermit(p) PROVE PermitInv'
  <2>1. PICK z \in Zones \cup {NoZone}, from \in Starts, left \in Lefts :
          row' = [row EXCEPT ![p] = [status |-> "pending", zone |-> z,
                                     starts |-> from, left |-> left]]
    BY <1>1 DEF RequestPermit
  <2>2. [status |-> "pending", zone |-> z, starts |-> from, left |-> left] \in Row
    BY DEF Row, Status
  <2>3. PermitTypeOK'
    BY <1>t, <1>1, <2>1, <2>2 DEF PermitTypeOK, RequestPermit
  <2>4. ApprovedWindow'
    BY <1>t, <2>1 DEF PermitTypeOK, ApprovedWindow
  <2> QED
    BY <2>3, <2>4 DEF PermitInv
<1>2. ASSUME NEW p \in Permits, Cancel(p) \/ Close(p) PROVE PermitInv'
  <2>1. PICK st \in Final : row' = [row EXCEPT ![p].status = st]
    BY <1>2 DEF Cancel, Close, Final
  <2>2. UNCHANGED approving
    BY <1>2 DEF Cancel, Close
  <2>3. PermitTypeOK'
    BY <1>t, <2>1, <2>2 DEF PermitTypeOK, Row, Status
  <2>4. ApprovedWindow'
    BY <1>t, <2>1 DEF PermitTypeOK, Row, ApprovedWindow, Final
  <2> QED
    BY <2>3, <2>4 DEF PermitInv
<1>3. ASSUME NEW s \in Supervisors, NEW p \in Permits, ApproveSelect(s, p) PROVE PermitInv'
  BY <1>t, <1>3 DEF ApproveSelect, PermitInv, PermitTypeOK, ApprovedWindow
<1>4. ASSUME NEW s \in Supervisors, ApproveUpdate(s) PROVE PermitInv'
  <2> DEFINE p == approving[s]
  <2>1. p \in Permits
    BY <1>t, <1>4 DEF PermitTypeOK, ApproveUpdate
  <2>2. PICK hours \in 1..MaxHours :
          row' = [row EXCEPT ![p].status = "active", ![p].starts = 0, ![p].left = hours]
    BY <1>4 DEF ApproveUpdate
  <2>3. hours \in Lefts /\ hours # Unset /\ 0 \in Starts /\ "active" \in Status
    BY DEF Lefts, Starts, Status
  <2>4. PermitTypeOK'
    <3>1. row[p] \in Row
      BY <1>t, <2>1 DEF PermitTypeOK
    <3>2. [row[p] EXCEPT !.status = "active", !.starts = 0, !.left = hours] \in Row
      BY <3>1, <2>3 DEF Row
    <3>3. row' = [row EXCEPT ![p] = [row[p] EXCEPT !.status = "active", !.starts = 0,
                                                  !.left = hours]]
      BY <1>t, <2>1, <2>2, <3>1 DEF PermitTypeOK, Row
    <3>4. row' \in [Permits -> Row]
      BY <1>t, <2>1, <3>2, <3>3 DEF PermitTypeOK
    <3>5. approving' \in [Supervisors -> Permits \cup {NoPermit}]
      BY <1>t, <1>4 DEF PermitTypeOK, ApproveUpdate, Ends
    <3> QED
      BY <3>4, <3>5 DEF PermitTypeOK
  <2>5. ApprovedWindow'
    BY <1>t, <2>1, <2>2, <2>3 DEF PermitTypeOK, Row, ApprovedWindow
  <2> QED
    BY <2>4, <2>5 DEF PermitInv
<1>5. ASSUME NEW s \in Supervisors, ApproveFails(s) PROVE PermitInv'
  BY <1>t, <1>5 DEF ApproveFails, Ends, PermitInv, PermitTypeOK, ApprovedWindow
<1>6. ASSUME PermitTick PROVE PermitInv'
  <2>1. row' = [q \in Permits |-> [row[q] EXCEPT !.starts = Sooner(@), !.left = Less(@)]]
    BY <1>6 DEF PermitTick
  <2>2. \A q \in Permits : /\ row[q] \in Row
                           /\ row[q].starts \in Starts
                           /\ row[q].left \in Lefts
    BY <1>t DEF PermitTypeOK, Row
  <2>3. \A q \in Permits : /\ row'[q].status = row[q].status
                           /\ row'[q].starts = Sooner(row[q].starts)
                           /\ row'[q].left = Less(row[q].left)
    BY <2>1, <2>2 DEF Row
  <2>4. row' \in [Permits -> Row]
    BY <2>1, <2>2, TimePasses DEF Row
  <2>5. PermitTypeOK'
    BY <1>t, <1>6, <2>4 DEF PermitTypeOK, PermitTick
  <2>6. ApprovedWindow'
    BY <1>t, <2>2, <2>3, TimePasses DEF ApprovedWindow
  <2> QED
    BY <2>5, <2>6 DEF PermitInv
<1>7. CASE UNCHANGED permitVars
  BY <1>t, <1>7 DEF permitVars, PermitInv, PermitTypeOK, ApprovedWindow
<1> QED
  BY <1>1, <1>2, <1>3, <1>4, <1>5, <1>6, <1>7 DEF PermitNext

(* The strengthened invariant always holds. *)
LEMMA PermitHolds == PermitSpec => []PermitInv
  BY PermitStarts, PermitStep, PTL DEF PermitSpec

-----------------------------------------------------------------------------
(* The table and the approve requests keep their types. *)
THEOREM PermitTypesHold == PermitSpec => []PermitTypeOK
<1>1. PermitInv => PermitTypeOK
  BY DEF PermitInv
<1> QED
  BY <1>1, PermitHolds, PTL

(* list_permits shows a permit as active exactly while validate_permit     *)
(* lets its holder into the permit's zone: an approval leaves nothing of   *)
(* the validity the requester had named.                                   *)
THEOREM ListAlwaysAgrees == PermitSpec => []ListAgreesWithScan
<1>1. PermitInv => ListAgreesWithScan
  BY DEF PermitInv, ApprovedWindow, ListAgreesWithScan, ListedActive, Allowed
<1> QED
  BY <1>1, PermitHolds, PTL

(* A cancelled or closed permit stays so once no approve request that had  *)
(* read it as pending is open.                                             *)
THEOREM SettledStays == PermitSpec => SettledIsFinal
<1>1. ASSUME PermitInv, [PermitNext]_permitVars, NEW p \in Permits, Settled(p)
      PROVE  Settled(p)' /\ row'[p].status = row[p].status
  <2>t. PermitTypeOK /\ row[p] \in Row
    BY <1>1 DEF PermitInv, PermitTypeOK
  <2>s. row[p].status \in Final /\ \A s \in Supervisors : approving[s] # p
    BY <1>1 DEF Settled
  <2>n. row[p].status \notin {"none", "pending", "active"}
    BY <2>s DEF Final
  <2> SUFFICES row'[p].status = row[p].status /\ \A s \in Supervisors : approving'[s] # p
    BY <2>s DEF Settled
  <2>1. ASSUME NEW q \in Permits, RequestPermit(q) \/ Cancel(q) \/ Close(q)
        PROVE  row'[p].status = row[p].status /\ \A s \in Supervisors : approving'[s] # p
    <3>1. q # p
      BY <2>1, <2>n DEF RequestPermit, Cancel, Close
    <3> QED
      BY <2>1, <2>s, <2>t, <3>1 DEF RequestPermit, Cancel, Close, PermitTypeOK
  <2>2. ASSUME NEW s \in Supervisors, NEW q \in Permits, ApproveSelect(s, q)
        PROVE  row'[p].status = row[p].status /\ \A t \in Supervisors : approving'[t] # p
    <3>1. q # p
      BY <2>2, <2>n DEF ApproveSelect
    <3> QED
      BY <2>2, <2>s, <2>t, <3>1 DEF ApproveSelect, PermitTypeOK
  <2>3. ASSUME NEW s \in Supervisors, ApproveUpdate(s)
        PROVE  row'[p].status = row[p].status /\ \A t \in Supervisors : approving'[t] # p
    <3>0. NoPermit # p
      BY PermitAssumption
    <3>1. PICK hours \in 1..MaxHours :
            row' = [row EXCEPT ![approving[s]].status = "active",
                               ![approving[s]].starts = 0, ![approving[s]].left = hours]
      BY <2>3 DEF ApproveUpdate
    <3>2. approving[s] # p
      BY <2>s
    <3>3. row'[p] = row[p]
      BY <3>1, <3>2, <2>t DEF PermitTypeOK
    <3> QED
      BY <2>3, <2>s, <2>t, <3>0, <3>3 DEF ApproveUpdate, Ends, PermitTypeOK
  <2>4. ASSUME NEW s \in Supervisors, ApproveFails(s)
        PROVE  row'[p].status = row[p].status /\ \A t \in Supervisors : approving'[t] # p
    BY <2>4, <2>s, <2>t, PermitAssumption DEF ApproveFails, Ends, PermitTypeOK
  <2>5. ASSUME PermitTick
        PROVE  row'[p].status = row[p].status /\ \A s \in Supervisors : approving'[s] # p
    BY <2>5, <2>s, <2>t DEF PermitTick, Row
  <2>6. CASE UNCHANGED permitVars
    BY <2>6, <2>s DEF permitVars
  <2> QED
    BY <1>1, <2>1, <2>2, <2>3, <2>4, <2>5, <2>6 DEF PermitNext
<1>2. PermitInv /\ [PermitNext]_permitVars
        => [\A p \in Permits : Settled(p) => Settled(p)' /\ row'[p].status = row[p].status]_permitVars
  BY <1>1
<1> QED
  BY <1>2, PermitHolds, PTL DEF PermitSpec, SettledIsFinal

-----------------------------------------------------------------------------
(* Fire alerts.  The engine's own count never runs ahead of the fire-free  *)
(* frames: it is the reason why reaching ClearFrames means that many quiet *)
(* frames.  And a fire that was not reported was seen after the engine's   *)
(* own stamp, which is why the stamp bounds how long it stays unreported.  *)
CountIsQuiet == clearCount <= quiet
SeenSinceAlert == \A t \in unreported : lastAlert <= t

FireInv == FireTypeOK /\ CountIsQuiet /\ ClearOnlyAfterQuiet /\ SeenSinceAlert

LEMMA FireStarts == FireInit => FireInv
<1> SUFFICES ASSUME FireInit PROVE FireInv
  OBVIOUS
<1>2. now \in 0..MaxNow /\ 0 \in 0..now /\ 0 \in 0..ClearFrames
  BY FireAssumption DEF FireInit
<1>1. FireTypeOK
  BY <1>2 DEF FireInit, FireTypeOK, States, Events, Frames, NoDetection
<1> QED
  BY <1>1, FireAssumption DEF FireInit, FireInv, CountIsQuiet, ClearOnlyAfterQuiet, SeenSinceAlert

(* A frame without fire: the count moves no further than the history.      *)
LEMMA CountedFacts ==
  ASSUME FireTypeOK, CountIsQuiet
  PROVE  Counted \in 0..ClearFrames /\ Counted <= UpTo(ClearFrames, quiet + 1)
<1>1. ClearFrames \in Nat /\ clearCount \in 0..ClearFrames /\ quiet \in 0..ClearFrames /\ clearCount <= quiet
  BY FireAssumption DEF FireTypeOK, CountIsQuiet
<1> QED
  BY <1>1 DEF Counted, UpTo

LEMMA EvaluateKeeps ==
  ASSUME FireInv, NEW f \in Frames, SeeFire(f) \/ SeeSmoke(f) \/ SeeNothing(f)
  PROVE  FireInv'
<1>0. FireTypeOK /\ CountIsQuiet /\ ClearFrames \in Nat \ {0} /\ MaxNow \in Nat
  BY FireAssumption DEF FireInv
<1>1. /\ Counted \in 0..ClearFrames /\ Counted <= UpTo(ClearFrames, quiet + 1)
      /\ UpTo(ClearFrames, quiet + 1) \in 0..ClearFrames
  BY <1>0, CountedFacts DEF UpTo, FireTypeOK
<1>2. f.fire \in BOOLEAN /\ f.smoke \in BOOLEAN
  BY DEF Frames
<1>3. CASE SeeFire(f)
  <2>1. /\ state' = "FIRE" /\ clearCount' = 0 /\ quiet' = 0 /\ now' = now /\ frame' = f
        /\ lastAlert' \in {lastAlert, now} /\ event' \in {"none", "fire_emergency"}
        /\ \/ unreported' = {}
           \/ lastAlert' = lastAlert /\ unreported' \in {unreported, {now}}
    BY <1>3 DEF SeeFire, Observe, Report
  <2>4. lastAlert \in 0..now /\ now \in 0..now /\ 0 \in 0..ClearFrames /\ unreported \subseteq 0..now
    BY <1>0 DEF FireTypeOK
  <2>3. unreported' \subseteq 0..now' /\ SeenSinceAlert'
    <3>1. lastAlert <= now /\ \A t \in unreported : lastAlert <= t
      BY <2>4 DEF FireInv, SeenSinceAlert
    <3>2. CASE unreported' = {}
      BY <3>2 DEF SeenSinceAlert
    <3>3. CASE lastAlert' = lastAlert /\ unreported' = unreported
      BY <2>1, <2>4, <3>1, <3>3 DEF SeenSinceAlert
    <3>4. CASE lastAlert' = lastAlert /\ unreported' = {now}
      BY <2>1, <2>4, <3>1, <3>4 DEF SeenSinceAlert
    <3> QED
      BY <2>1, <3>2, <3>3, <3>4
  <2>5. lastAlert' \in 0..now'
    BY <2>1, <2>4
  <2>6. state' \in States /\ event' \in Events
    BY <2>1 DEF States, Events
  <2>2. FireTypeOK'
    BY <1>0, <2>1, <2>3, <2>4, <2>5, <2>6 DEF FireTypeOK
  <2> QED
    BY <1>0, <2>1, <2>2, <2>3 DEF FireInv, CountIsQuiet, ClearOnlyAfterQuiet
<1>4. CASE SeeSmoke(f)
  <2>1. /\ state' \in {state, "SMOKE"} /\ clearCount' = Counted
        /\ quiet' = UpTo(ClearFrames, quiet + 1) /\ now' = now /\ frame' = f
        /\ lastAlert' = lastAlert /\ event' \in {"none", "smoke_detected"} /\ unreported' = unreported
    BY <1>4 DEF SeeSmoke, Observe
  <2>2. FireTypeOK'
    BY <1>0, <1>1, <2>1 DEF FireTypeOK, States, Events
  <2> QED
    BY <1>1, <2>1, <2>2 DEF FireInv, CountIsQuiet, ClearOnlyAfterQuiet, SeenSinceAlert
<1>5. CASE SeeNothing(f)
  <2>1. /\ clearCount' = Counted
        /\ quiet' = UpTo(ClearFrames, quiet + 1) /\ now' = now /\ frame' = f /\ ~f.smoke
        /\ lastAlert' = lastAlert /\ unreported' = unreported
    BY <1>5 DEF SeeNothing, Observe
  <2>2. /\ state' \in {state, "CLEARING", "NORMAL"} /\ event' \in {"none", "fire_all_clear"}
        /\ event' = "fire_all_clear" => Counted >= ClearFrames
    <3>1. CASE state = "FIRE"
      BY <1>5, <3>1 DEF SeeNothing
    <3>2. CASE state = "CLEARING" /\ Counted >= ClearFrames
      BY <1>5, <3>2 DEF SeeNothing
    <3>3. CASE state = "SMOKE"
      BY <1>5, <3>3 DEF SeeNothing
    <3>4. CASE state # "FIRE" /\ ~(state = "CLEARING" /\ Counted >= ClearFrames) /\ state # "SMOKE"
      BY <1>5, <3>4 DEF SeeNothing
    <3> QED
      BY <3>1, <3>2, <3>3, <3>4
  <2>3. FireTypeOK'
    BY <1>0, <1>1, <2>1, <2>2 DEF FireTypeOK, States, Events
  <2>4. event' = "fire_all_clear" => quiet' = ClearFrames
    BY <1>0, <1>1, <2>1, <2>2
  <2> QED
    BY <1>1, <2>1, <2>2, <2>3, <2>4 DEF FireInv, CountIsQuiet, ClearOnlyAfterQuiet, SeenSinceAlert
<1> QED
  BY <1>3, <1>4, <1>5

LEMMA FireStep == FireInv /\ [FireNext]_fireVars => FireInv'
<1> SUFFICES ASSUME FireInv, [FireNext]_fireVars PROVE FireInv'
  OBVIOUS
<1>0. FireTypeOK /\ CountIsQuiet /\ ClearOnlyAfterQuiet /\ ClearFrames \in Nat /\ MaxNow \in Nat
  BY FireAssumption DEF FireInv
<1>1. CASE FireEvaluate
  BY <1>1, EvaluateKeeps DEF FireEvaluate
<1>2. CASE FireReset
  BY <1>0, <1>2 DEF FireReset, FireInv, FireTypeOK, States, Events, CountIsQuiet, ClearOnlyAfterQuiet, SeenSinceAlert
<1>3. CASE FireTick
  BY <1>0, <1>3 DEF FireTick, FireInv, FireTypeOK, CountIsQuiet, ClearOnlyAfterQuiet, SeenSinceAlert
<1>4. CASE UNCHANGED fireVars
  BY <1>0, <1>4 DEF fireVars, FireInv, FireTypeOK, CountIsQuiet, ClearOnlyAfterQuiet, SeenSinceAlert
<1> QED
  BY <1>1, <1>2, <1>3, <1>4 DEF FireNext

LEMMA FireHolds == FireSpec => []FireInv
<1> QED
  BY FireStarts, FireStep, PTL DEF FireSpec

(* The engine's fields stay in their ranges; no alert is dated in the future. *)
THEOREM FireTypesHold == FireSpec => []FireTypeOK
<1>1. FireInv => FireTypeOK
  BY DEF FireInv
<1> QED
  BY <1>1, FireHolds, PTL

(* No all-clear before ClearFrames fire-free frames or while smoke shows.  *)
THEOREM AllClearIsSafe == FireSpec => []ClearOnlyAfterQuiet
<1>1. FireInv => ClearOnlyAfterQuiet
  BY DEF FireInv
<1> QED
  BY <1>1, FireHolds, PTL

(* A fire that shows is reported in time: the engine withholds an alert    *)
(* for less than the interval after its stamp, and every fire that was not *)
(* reported yet was seen no earlier than that stamp.                       *)
THEOREM FireAlwaysReported == FireSpec => FireGetsReported
<1>1. FireInv /\ [FireNext]_fireVars =>
        [frame'.fire /\ state' = "FIRE" /\ now' = now
           => \A t \in unreported' : now - t < AlertInterval]_fireVars
  <2> SUFFICES ASSUME FireInv, FireNext, frame'.fire, state' = "FIRE", now' = now,
                      NEW t \in unreported'
               PROVE  now - t < AlertInterval
    BY DEF fireVars
  <2>0. /\ now \in Nat /\ lastAlert \in Nat /\ lastAlert <= now /\ AlertInterval \in Nat \ {0}
        /\ unreported \subseteq Nat /\ \A u \in unreported : lastAlert <= u
    BY FireAssumption DEF FireInv, FireTypeOK, SeenSinceAlert
  <2>1. CASE FireEvaluate
    <3>1. PICK f \in Frames : SeeFire(f) \/ SeeSmoke(f) \/ SeeNothing(f)
      BY <2>1 DEF FireEvaluate
    <3>2. SeeFire(f)
      BY <3>1 DEF SeeSmoke, SeeNothing, Observe
    <3>3. ~(now - lastAlert >= AlertInterval) /\ t \in unreported \cup {now}
      BY <3>2 DEF SeeFire, Report
    <3> QED
      BY <2>0, <3>3
  <2>2. CASE FireReset
    BY <2>2 DEF FireReset
  <2>3. CASE FireTick
    BY <2>0, <2>3 DEF FireTick
  <2> QED
    BY <2>1, <2>2, <2>3 DEF FireNext
<1> QED
  BY <1>1, FireHolds, PTL DEF FireSpec, FireGetsReported

-----------------------------------------------------------------------------
(* Risk.  A day moves every row one day on, where it weighs no more than   *)
(* before; there is no row younger than the last violation.                *)
RiskInv ==
  /\ violations \in [Kinds -> Nat] /\ nights \in 0..HistoryDays + 1
  /\ \A k \in Kinds : k[1] < nights => violations[k] = 0

LEMMA RiskStarts == RiskInit => RiskInv
  BY RiskAssumption DEF RiskInit, RiskInv

LEMMA ViolationKeeps == ASSUME RiskInv, NEW l \in SeverityLevels, Violation(l) PROVE RiskInv'
<1>1. <<0, l>> \in Kinds
  BY RiskAssumption DEF Kinds, Ages
<1>2. violations' = [violations EXCEPT ![<<0, l>>] = violations[<<0, l>>] + 1] /\ nights' = 0
  BY DEF Violation
<1>3. violations' \in [Kinds -> Nat]
  BY <1>1, <1>2 DEF RiskInv
<1>4. \A k \in Kinds : ~(k[1] < 0)
  BY RiskAssumption DEF Kinds, Ages
<1> QED
  BY <1>2, <1>3, <1>4, RiskAssumption DEF RiskInv

LEMMA YoungerKind ==
  ASSUME NEW k \in Kinds, k[1] # 0
  PROVE  k[1] - 1 \in Ages /\ k[2] \in SeverityLevels /\ <<k[1] - 1, k[2]>> \in Kinds
  BY RiskAssumption DEF Kinds, Ages

LEMMA DayKeeps == ASSUME RiskInv, DayPasses PROVE RiskInv'
<1>1. /\ violations' = [k \in Kinds |-> IF k[1] = 0 \/ k[1] = HistoryDays + 1 THEN 0
                                        ELSE violations[<<k[1] - 1, k[2]>>]]
      /\ nights' = IF nights <= HistoryDays THEN nights + 1 ELSE nights
  BY DEF DayPasses
<1>2. violations' \in [Kinds -> Nat]
  BY <1>1, YoungerKind DEF RiskInv
<1>3. nights' \in 0..HistoryDays + 1
  BY <1>1, RiskAssumption DEF RiskInv
<1>4. ASSUME NEW k \in Kinds, k[1] < nights' PROVE violations'[k] = 0
  <2>1. CASE k[1] = 0 \/ k[1] = HistoryDays + 1
    BY <1>1, <2>1
  <2>2. CASE ~(k[1] = 0 \/ k[1] = HistoryDays + 1)
    <3>1. PICK j \in Kinds : j = <<k[1] - 1, k[2]>>
      BY <2>2, YoungerKind
    <3>2. j[1] = k[1] - 1 /\ k[1] \in Int
      BY <3>1 DEF Kinds, Ages
    <3>3. j[1] < nights
      BY <1>1, <1>4, <3>2, RiskAssumption DEF RiskInv, Kinds, Ages
    <3> QED
      BY <1>1, <2>2, <3>1, <3>3 DEF RiskInv
  <2> QED
    BY <2>1, <2>2
<1> QED
  BY <1>2, <1>3, <1>4 DEF RiskInv

LEMMA RiskStep == RiskInv /\ [RiskNext]_riskVars => RiskInv'
<1> SUFFICES ASSUME RiskInv, [RiskNext]_riskVars PROVE RiskInv'
  OBVIOUS
<1>1. CASE UNCHANGED riskVars
  BY <1>1 DEF riskVars, RiskInv
<1> QED
  BY <1>1, ViolationKeeps, DayKeeps DEF RiskNext

LEMMA Weights ==
  /\ \A l : SeverityWeight(SeverityOf(l)) \in Nat
  /\ \A d \in Ages : RecencyWeight(d) \in Nat /\ (d # 0 => RecencyWeight(d) <= RecencyWeight(d - 1))
<1>1. \A l : SeverityOf(l) \in {3, 5, 7, 10}
  BY DEF SeverityOf
<1>2. \A s \in {3, 5, 7, 10} : SeverityWeight(s) \in Nat
  BY DEF SeverityWeight
<1> QED
  BY <1>1, <1>2, RiskAssumption DEF RecencyWeight, Ages

LEMMA ContributionType ==
  ASSUME RiskInv
  PROVE  /\ \A k \in Kinds : Contribution[k] \in Nat
         /\ \A k \in Kinds : violations[k] = 0 => Contribution[k] = 0
<1> SUFFICES ASSUME NEW k \in Kinds
             PROVE  Contribution[k] \in Nat /\ (violations[k] = 0 => Contribution[k] = 0)
  OBVIOUS
<1>1. k[1] \in Ages /\ violations[k] \in Nat
  BY DEF RiskInv, Kinds
<1>2. PICK v \in Nat, a \in Nat, b \in Nat :
        v = violations[k] /\ a = SeverityWeight(SeverityOf(k[2])) /\ b = RecencyWeight(k[1])
  BY <1>1, Weights
<1>3. Contribution[k] = v * a * b
  BY <1>2 DEF Contribution
<1>4. v * a \in Nat /\ v * a * b \in Nat /\ (v = 0 => v * a * b = 0)
  OBVIOUS
<1> QED
  BY <1>2, <1>3, <1>4

LEMMA KindsFinite == IsFiniteSet(Kinds) /\ IsFiniteSet(Selected) /\ Selected \subseteq Kinds
<1>1. IsFiniteSet(Ages)
  BY RiskAssumption, FS_Interval DEF Ages
<1>2. IsFiniteSet(Kinds)
  BY <1>1, RiskAssumption, FS_Product DEF Kinds
<1> QED
  BY <1>2, FS_Subset DEF Selected

LEMMA Scores ==
  ASSUME RiskInv, NEW K \in SUBSET Selected
  PROVE  /\ ScoreOf(K) \in Nat
         /\ (\A k \in K : violations[k] = 0) => ScoreOf(K) = 0
<1>1. IsFiniteSet(K) /\ \A k \in K : k \in Kinds
  BY KindsFinite, FS_Subset
<1>2. \A k \in K : Contribution[k] \in Int /\ 0 <= Contribution[k]
  BY <1>1, ContributionType
<1>3. PICK n \in Nat : n = Cardinality(K)
  BY <1>1, FS_CardinalityType
<1>4. ScoreOf(K) \in Nat
  <2>1. SumFunctionOnSet({}, {}) = 0
    BY SumNone
  <2>2. SumFunctionOnSet(Contribution, {}) <= SumFunctionOnSet(Contribution, K)
    BY <1>1, ContributionType, SumOfPart
  <2>3. SumFunctionOnSet(Contribution, {}) = 0 /\ SumFunctionOnSet(Contribution, K) \in Int
    BY <1>1, <1>2, SumNone, SumType
  <2> QED
    BY <2>2, <2>3 DEF ScoreOf
<1>5. ASSUME \A k \in K : violations[k] = 0 PROVE ScoreOf(K) = 0
  <2>1. \A k \in K : Contribution[k] \in Int /\ 0 <= Contribution[k] /\ Contribution[k] <= 0
    BY <1>1, <1>5, ContributionType
  <2>2. /\ SumFunctionOnSet(Contribution, K) \in Int
        /\ 0 * Cardinality(K) <= SumFunctionOnSet(Contribution, K)
        /\ SumFunctionOnSet(Contribution, K) <= 0 * Cardinality(K)
    <3>1. PICK z \in Int : z = 0
      OBVIOUS
    <3>2. \A k \in K : Contribution[k] \in Int /\ z <= Contribution[k] /\ Contribution[k] <= z
      BY <2>1, <3>1
    <3> QED
      BY <1>1, <3>1, <3>2, SumBounded
  <2> QED
    BY <1>3, <1>4, <2>2 DEF ScoreOf
<1> QED
  BY <1>4, <1>5

(* A day without a violation: every contribution of the new day is at most *)
(* the one the same rows made the day before.                              *)
LEMMA ScoreFalls == ASSUME RiskInv, RiskInv', DayPasses PROVE Score' <= Score
<1> DEFINE D == {k \in Selected : k[1] # 0}
<1>1. PICK f : f = Contribution
  OBVIOUS
<1>2. PICK g : g = Contribution'
  OBVIOUS
<1>3. \A k \in Kinds : f[k] \in Nat
  BY <1>1, ContributionType
<1>4. \A k \in Kinds : g[k] \in Nat /\ (violations'[k] = 0 => g[k] = 0)
  <2>1. (\A k \in Kinds : Contribution[k] \in Nat)' /\ (\A k \in Kinds : violations[k] = 0 => Contribution[k] = 0)'
    BY ContributionType, PTL
  <2> QED
    BY <1>2, <2>1
<1>5. PICK m \in [D -> Selected] : \A k \in D : m[k] = <<k[1] - 1, k[2]>>
  <2>1. \A k \in D : <<k[1] - 1, k[2]>> \in Selected
    BY YoungerKind, RiskAssumption DEF Selected, Kinds, Ages
  <2>2. [k \in D |-> <<k[1] - 1, k[2]>>] \in [D -> Selected]
    BY <2>1
  <2> QED
    BY <2>2
<1>6. \A x, y \in D : m[x] = m[y] => x = y
  <2> SUFFICES ASSUME NEW x \in D, NEW y \in D, m[x] = m[y] PROVE x = y
    OBVIOUS
  <2>1. x[1] - 1 = y[1] - 1 /\ x[2] = y[2]
    BY <1>5
  <2>2. x[1] \in Int /\ y[1] \in Int /\ x = <<x[1], x[2]>> /\ y = <<y[1], y[2]>>
    BY DEF Selected, Kinds, Ages
  <2> QED
    BY <2>1, <2>2
<1>7. ASSUME NEW k \in D PROVE g[k] <= f[m[k]]
  <2>1. k \in Kinds /\ m[k] \in Kinds /\ m[k] = <<k[1] - 1, k[2]>> /\ k[1] \in Ages
    BY <1>5 DEF Selected, Kinds
  <2>2. violations'[k] = violations[m[k]]
    <3>1. k[1] # 0 /\ k[1] # HistoryDays + 1
      BY RiskAssumption DEF Selected
    <3> QED
      BY <2>1, <3>1 DEF DayPasses
  <2>3. PICK v \in Nat, a \in Nat, b \in Nat, c \in Nat :
          /\ v = violations[m[k]] /\ a = SeverityWeight(SeverityOf(k[2]))
          /\ b = RecencyWeight(k[1]) /\ c = RecencyWeight(k[1] - 1) /\ b <= c
    <3>1. k[1] - 1 \in Ages
      BY <2>1, YoungerKind
    <3> QED
      BY <2>1, <3>1, Weights DEF RiskInv
  <2>4. g[k] = v * a * b
    BY <1>2, <2>1, <2>2, <2>3 DEF Contribution
  <2>5. m[k][1] = k[1] - 1 /\ m[k][2] = k[2]
    BY <2>1
  <2>6. f[m[k]] = v * a * c
    BY <1>1, <2>1, <2>3, <2>5 DEF Contribution
  <2>7. PICK w \in Nat : w = v * a
    OBVIOUS
  <2>8. w * b <= w * c
    <3>1. PICK d \in Nat : c = b + d
      <4>1. c - b \in Nat /\ c = b + (c - b)
        BY <2>3
      <4> QED
        BY <4>1
    <3>2. w * c = w * b + w * d /\ w * d \in Nat /\ w * b \in Nat
      BY <3>1
    <3> QED
      BY <3>2
  <2> QED
    BY <2>4, <2>6, <2>7, <2>8
<1>8. \A k \in Selected \ D : g[k] = 0
  <2> SUFFICES ASSUME NEW k \in Selected \ D PROVE g[k] = 0
    OBVIOUS
  <2>1. k \in Kinds /\ k[1] = 0
    BY DEF Selected
  <2> QED
    BY <1>4, <2>1 DEF DayPasses
<1>9. D \in SUBSET Selected /\ IsFiniteSet(Selected) /\ \A k \in Selected : f[k] \in Nat /\ g[k] \in Nat
  BY <1>3, <1>4, KindsFinite
<1> HIDE DEF D
<1>10. SumFunctionOnSet(g, Selected) <= SumFunctionOnSet(f, Selected)
  BY <1>5, <1>6, <1>7, <1>8, <1>9, SumCovered
<1>11. Score = SumFunctionOnSet(f, Selected) /\ Score' = SumFunctionOnSet(g, Selected)
  BY <1>1, <1>2 DEF Score, ScoreOf, Selected, Kinds
<1> QED
  BY <1>10, <1>11

LEMMA ScoreIsNatural == ASSUME RiskInv PROVE Score \in Nat
  BY Scores DEF Score

(* Scores in any state with the invariant. *)
ScoreFacts ==
  /\ ScoreOf(RecentKinds) \in Nat /\ ScoreOf(Selected \ RecentKinds) \in Nat
  /\ (\A k \in RecentKinds : violations[k] = 0) => ScoreOf(RecentKinds) = 0
  /\ (\A k \in Selected : violations[k] = 0) => Score = 0 /\ ScoreOf(Selected \ RecentKinds) = 0

LEMMA ScoreFactsHold == RiskInv => ScoreFacts
<1> SUFFICES ASSUME RiskInv PROVE ScoreFacts
  OBVIOUS
<1>1. RecentKinds \in SUBSET Selected /\ Selected \ RecentKinds \in SUBSET Selected
  BY DEF RecentKinds
<1> QED
  BY <1>1, Scores DEF Score, ScoreFacts

(* For any severity levels, history and thresholds: a day without a        *)
(* violation never raises a worker's score or level, three such days end a *)
(* worsening trend, and a whole history without one leaves the worker LOW  *)
(* and stable (risk_scorer.py:207, :217, :321).                            *)
THEOREM RiskAlwaysFades == RiskSpec => RiskFades
<1> DEFINE Fades ==
      nights' > nights =>
        /\ Score' <= Score
        /\ Rank(RiskLevel') <= Rank(RiskLevel)
        /\ nights' >= 3 => Trend' # "worsening"
        /\ nights' > HistoryDays => RiskLevel' = "LOW" /\ Trend' = "stable"
<1>1. RiskInv /\ RiskInv' /\ [RiskNext]_riskVars => [Fades]_riskVars
  <2> SUFFICES ASSUME RiskInv, RiskInv', [RiskNext]_riskVars, nights' > nights PROVE Fades
    OBVIOUS
  <2>1. DayPasses
    <3>1. nights \in Nat
      BY RiskAssumption DEF RiskInv
    <3>2. nights' # 0 /\ nights' # nights
      BY <3>1
    <3> QED
      BY <3>2 DEF RiskNext, Violation, riskVars
  <2>2. Score \in Nat /\ Score' \in Nat /\ Score' <= Score
    <3>1. Score \in Nat /\ (Score \in Nat)'
      BY ScoreIsNatural, PTL
    <3> QED
      BY <2>1, <3>1, ScoreFalls
  <2>3. /\ RiskLevel = IF Score >= 70 * CriticalThreshold THEN "CRITICAL"
                       ELSE IF Score >= 70 * HighThreshold THEN "HIGH" ELSE "LOW"
        /\ (RiskLevel = IF Score >= 70 * CriticalThreshold THEN "CRITICAL"
                        ELSE IF Score >= 70 * HighThreshold THEN "HIGH" ELSE "LOW")'
    BY DEF RiskLevel
  <2>4. Rank(RiskLevel') <= Rank(RiskLevel)
    <3>1. Rank("LOW") = 0 /\ Rank("HIGH") = 1 /\ Rank("CRITICAL") = 2
      BY DEF Rank
    <3> QED
      BY <2>2, <2>3, <3>1, RiskAssumption
  <2>5. /\ (ScoreOf(RecentKinds) \in Nat /\ ScoreOf(Selected \ RecentKinds) \in Nat)'
        /\ ((\A k \in RecentKinds : violations[k] = 0) => ScoreOf(RecentKinds) = 0)'
        /\ ((\A k \in Selected : violations[k] = 0) => Score = 0 /\ ScoreOf(Selected \ RecentKinds) = 0)'
    <3>1. ScoreFacts'
      BY ScoreFactsHold, PTL
    <3> QED
      BY <3>1 DEF ScoreFacts
  <2>6. nights' \in Nat /\ \A k \in Kinds : k[1] \in Int /\ (k[1] < nights' => violations'[k] = 0)
    BY RiskAssumption DEF RiskInv, Kinds, Ages
  <2>7. RecentKinds' = RecentKinds /\ Selected' = Selected
    BY DEF RecentKinds, Selected, Kinds
  <2>8. RecentScore' = ScoreOf(RecentKinds)' /\ OlderScore' = ScoreOf(Selected \ RecentKinds)'
    BY DEF RecentScore, OlderScore
  <2>9. RecentScore' \in Nat /\ OlderScore' \in Nat
    BY <2>5, <2>8
  <2>10. ASSUME nights' >= 3 PROVE RecentScore' = 0
    <3>1. \A k \in RecentKinds : violations'[k] = 0
      BY <2>6, <2>10 DEF RecentKinds, Selected
    <3> QED
      BY <2>5, <2>7, <2>8, <3>1
  <2>11. ASSUME nights' >= 3 PROVE Trend' # "worsening"
    <3>1. PICK o \in Nat, r \in Nat : o = OlderScore' /\ r = RecentScore' /\ r = 0
      BY <2>9, <2>10, <2>11
    <3>2. r = 0
      BY <3>1
    <3>5. 2 * 0 <= 3 * o
      OBVIOUS
    <3>3. Trend' = CASE o > 0 /\ 2 * r > 3 * o -> "worsening"
                     [] o > 0 /\ 2 * r < o -> "improving"
                     [] o = 0 /\ r > 0 -> "worsening"
                     [] OTHER -> "stable"
      BY <3>1 DEF Trend
    <3>4. ~(o > 0 /\ 2 * r > 3 * o) /\ ~(o = 0 /\ r > 0)
      BY <3>2, <3>5
    <3> QED
      BY <3>2, <3>3, <3>4
  <2>12. ASSUME nights' > HistoryDays PROVE RiskLevel' = "LOW" /\ Trend' = "stable"
    <3>1. \A k \in Selected : violations'[k] = 0
      BY <2>6, <2>12, RiskAssumption DEF Selected
    <3>2. Score' = 0 /\ OlderScore' = 0 /\ RecentScore' = 0
      <4>1. \A k \in RecentKinds : violations'[k] = 0
        BY <3>1 DEF RecentKinds
      <4> QED
        BY <2>5, <2>7, <2>8, <3>1, <4>1
    <3>3. RiskLevel' = "LOW"
      BY <2>3, <3>2, RiskAssumption
    <3>4. Trend' = "stable"
      BY <3>2 DEF Trend
    <3> QED
      BY <3>3, <3>4
  <2> QED
    BY <2>2, <2>4, <2>11, <2>12
<1> QED
  BY RiskStarts, RiskStep, <1>1, PTL DEF RiskFades, RiskSpec

-----------------------------------------------------------------------------
(* Escalation. *)

(* What the check knows about the ids it holds: they are rows below the     *)
(* last level whose window has fully passed, even if they were acknowledged *)
(* since the SELECT.                                                        *)
DueWaited ==
  \A i \in due : matrix[i].level < MaxLevel /\ matrix[i].age = Timeout[matrix[i].level]

AgesSaturate == \A i \in DOMAIN matrix : matrix[i].age <= Timeout[matrix[i].level]

LevelsInv == TypeOK /\ DueWaited /\ AgesSaturate /\ HasPredecessor

(* A row is added at the end of the table with its first state. *)
LEMMA NewRowType ==
  ASSUME NEW v \in Violations, NEW l \in 1..MaxLevel
  PROVE  /\ NewRow(v, l) \in MatrixRow
         /\ NewRow(v, l).violation = v
         /\ NewRow(v, l).level = l
         /\ NewRow(v, l).status = "open"
         /\ NewRow(v, l).age = 0
  BY DEF NewRow, MatrixRow, RowStatus

(* The table is indexed from 1 and holds rows. *)
LEMMA TableType ==
  ASSUME TypeOK
  PROVE  /\ Len(matrix) \in Nat
         /\ DOMAIN matrix = 1..Len(matrix)
         /\ \A i \in DOMAIN matrix : /\ matrix[i] \in MatrixRow
                                     /\ matrix[i].violation \in Violations
                                     /\ matrix[i].level \in 1..MaxLevel
                                     /\ matrix[i].status \in RowStatus
                                     /\ matrix[i].age \in Nat
<1>1. matrix \in Seq(MatrixRow)
  BY DEF TypeOK
<1>2. Len(matrix) \in Nat /\ DOMAIN matrix = 1..Len(matrix) /\ \A i \in DOMAIN matrix : matrix[i] \in MatrixRow
  BY <1>1
<1> QED
  BY <1>2 DEF MatrixRow

(* Marking a row as escalated changes its status only. *)
LEMMA EscalatedType ==
  ASSUME TypeOK, NEW i \in DOMAIN matrix
  PROVE  /\ Escalated(i) \in MatrixRow
         /\ Escalated(i).violation = matrix[i].violation
         /\ Escalated(i).level = matrix[i].level
         /\ Escalated(i).status = "escalated"
         /\ Escalated(i).age = matrix[i].age
<1>1. matrix[i] \in MatrixRow
  BY TableType
<1> QED
  BY <1>1 DEF Escalated, MatrixRow, RowStatus

(* The ids held by a check are finitely many. *)
LEMMA DueFinite == TypeOK => Cardinality(due) \in Nat
<1> SUFFICES ASSUME TypeOK PROVE Cardinality(due) \in Nat
  OBVIOUS
<1>1. Len(matrix) \in Nat /\ DOMAIN matrix = 1..Len(matrix)
  BY TableType
<1>2. IsFiniteSet(1..Len(matrix))
  BY <1>1, FS_Interval
<1>3. IsFiniteSet(due)
  BY <1>1, <1>2, FS_Subset DEF TypeOK
<1> QED
  BY <1>3, FS_CardinalityType

(* What one commit of the check leaves in the table: the rows it held are   *)
(* escalated, the others untouched, and each row after them is an open row  *)
(* one level above a row it held.                                           *)
LEMMA CheckCommitEffect ==
  ASSUME TypeOK, DueWaited, CheckCommit
  PROVE  /\ matrix' \in Seq(MatrixRow)
         /\ Len(matrix') >= Len(matrix)
         /\ \A i \in DOMAIN matrix :
              /\ i \in due => matrix'[i] = Escalated(i)
              /\ i \notin due => matrix'[i] = matrix[i]
         /\ \A i \in DOMAIN matrix' \ DOMAIN matrix :
              \E j \in due : matrix'[i] = NewRow(matrix[j].violation, matrix[j].level + 1)
         /\ \E f \in Bijection(DOMAIN matrix' \ DOMAIN matrix, due) :
              \A i \in DOMAIN matrix' \ DOMAIN matrix :
                matrix'[i] = NewRow(matrix[f[i]].violation, matrix[f[i]].level + 1)
<1> DEFINE n == Cardinality(due)
           old == [i \in DOMAIN matrix |-> IF i \in due THEN Escalated(i) ELSE matrix[i]]
<1>1. n \in Nat
  BY DueFinite
<1>2. PICK order \in InIdOrder(due) :
        matrix' = old \o [k \in 1..n |-> NewRow(matrix[order[k]].violation, matrix[order[k]].level + 1)]
  BY DEF CheckCommit
<1> DEFINE new == [k \in 1..n |-> NewRow(matrix[order[k]].violation, matrix[order[k]].level + 1)]
<1>3. \A k \in 1..n : order[k] \in due
  BY <1>2 DEF InIdOrder
<1>4. \A i \in DOMAIN matrix : matrix[i] \in MatrixRow /\ Escalated(i) \in MatrixRow
  BY TableType, EscalatedType
<1>5. \A i \in due : matrix[i].violation \in Violations /\ matrix[i].level + 1 \in 1..MaxLevel
  <2>1. \A i \in due : i \in DOMAIN matrix /\ matrix[i].level < MaxLevel
    BY DEF TypeOK, DueWaited
  <2> QED
    BY <2>1, TableType, LevelsAssumption
<1>6. old \in Seq(MatrixRow) /\ Len(old) = Len(matrix)
  <2>1. Len(matrix) \in Nat /\ DOMAIN matrix = 1..Len(matrix)
    BY TableType
  <2>2. old \in [1..Len(matrix) -> MatrixRow]
    BY <2>1, <1>4
  <2> HIDE DEF old
  <2> QED
    BY <2>1, <2>2
<1>7. new \in Seq(MatrixRow) /\ Len(new) = n
  <2>1. \A k \in 1..n : NewRow(matrix[order[k]].violation, matrix[order[k]].level + 1) \in MatrixRow
    BY <1>3, <1>5, NewRowType
  <2>2. new \in [1..n -> MatrixRow]
    BY <2>1
  <2> HIDE DEF new, n
  <2> QED
    BY <1>1, <2>2
<1>8. \A i \in DOMAIN matrix : old[i] = IF i \in due THEN Escalated(i) ELSE matrix[i]
  OBVIOUS
<1>9. \A k \in 1..n : \E j \in due : new[k] = NewRow(matrix[j].violation, matrix[j].level + 1)
  BY <1>3
<1>10. matrix' = old \o new
  BY <1>2
<1>15. \A k \in 1..n : new[k] = NewRow(matrix[order[k]].violation, matrix[order[k]].level + 1)
  OBVIOUS
<1>16. order \in Surjection(1..n, due) /\ \A a, b \in 1..n : order[a] = order[b] => a = b
  <2>1. order \in [1..n -> due] /\ \A a, b \in 1..n : a < b => order[a] < order[b]
    BY <1>2 DEF InIdOrder
  <2>2. \A a \in 1..n : order[a] \in Nat
    BY <1>3, TableType DEF TypeOK
  <2>3. \A a, b \in 1..n : order[a] = order[b] => a = b
    BY <1>1, <2>1, <2>2
  <2>4. order \in Injection(1..n, due)
    BY <2>1, <2>3, Fun_IsInj
  <2>5. IsFiniteSet(due)
    <3>0. Len(matrix) \in Int /\ DOMAIN matrix = 1..Len(matrix)
      BY TableType
    <3>1. IsFiniteSet(1..Len(matrix)) /\ due \in SUBSET (1..Len(matrix))
      BY <3>0, FS_Interval DEF TypeOK
    <3> QED
      BY <3>1, FS_Subset
  <2>6. Cardinality(1..n) = n
    <3>1. Cardinality(1..n) = IF 1 > n THEN 0 ELSE n - 1 + 1
      BY <1>1, FS_Interval
    <3> HIDE DEF n
    <3> QED
      BY <1>1, <3>1
  <2>7. order \in Surjection(1..n, due)
    BY <2>4, <2>5, <2>6, FS_Injection
  <2> QED
    BY <2>3, <2>7
<1>11. DOMAIN matrix = 1..Len(matrix) /\ Len(matrix) \in Nat
  BY TableType
<1> HIDE DEF old, new, n
<1>12. /\ matrix' \in Seq(MatrixRow)
       /\ Len(matrix') = Len(matrix) + n
       /\ \A i \in 1..Len(matrix) : matrix'[i] = old[i]
       /\ \A i \in (Len(matrix) + 1)..(Len(matrix) + n) : matrix'[i] = new[i - Len(matrix)]
  <2>1. /\ Len(old \o new) = Len(old) + Len(new)
        /\ \A i \in 1..(Len(old) + Len(new)) :
             (old \o new)[i] = IF i <= Len(old) THEN old[i] ELSE new[i - Len(old)]
    BY <1>6, <1>7, ConcatProperties
  <2>2. old \o new \in Seq(MatrixRow)
    BY <1>6, <1>7, ConcatProperties
  <2> QED
    BY <1>1, <1>6, <1>7, <1>10, <1>11, <2>1, <2>2
<1>13. DOMAIN matrix' = 1..(Len(matrix) + n)
  BY <1>12
<1>14. ASSUME NEW i \in DOMAIN matrix' \ DOMAIN matrix
       PROVE  \E j \in due : matrix'[i] = NewRow(matrix[j].violation, matrix[j].level + 1)
  <2>1. i \in (Len(matrix) + 1)..(Len(matrix) + n) /\ i - Len(matrix) \in 1..n
    BY <1>1, <1>11, <1>13
  <2> QED
    BY <2>1, <1>9, <1>12
<1>17. \E f \in Bijection(DOMAIN matrix' \ DOMAIN matrix, due) :
         \A i \in DOMAIN matrix' \ DOMAIN matrix :
           matrix'[i] = NewRow(matrix[f[i]].violation, matrix[f[i]].level + 1)
  <2> DEFINE N == DOMAIN matrix' \ DOMAIN matrix
             f == [i \in N |-> order[i - Len(matrix)]]
  <2>1. N = (Len(matrix) + 1)..(Len(matrix) + n)
    BY <1>1, <1>11, <1>13
  <2>2. \A i \in N : i - Len(matrix) \in 1..n /\ i \in Int
    BY <1>1, <1>11, <2>1
  <2>3. \A k \in 1..n : k + Len(matrix) \in N /\ k + Len(matrix) - Len(matrix) = k
    BY <1>1, <1>11, <2>1
  <2> HIDE DEF N
  <2>4. f \in [N -> due]
    BY <1>3, <2>2
  <2>5. ASSUME NEW a \in N, NEW b \in N, f[a] = f[b] PROVE a = b
    <3>1. a - Len(matrix) = b - Len(matrix)
      BY <1>16, <2>2, <2>5
    <3> QED
      BY <1>11, <2>2, <3>1
  <2>6. ASSUME NEW t \in due PROVE \E i \in N : f[i] = t
    <3>1. PICK k \in 1..n : order[k] = t
      BY <1>16 DEF Surjection
    <3> QED
      BY <2>3, <3>1
  <2>7. f \in Bijection(N, due)
    BY <2>4, <2>5, <2>6, Fun_IsBij
  <2>8. \A i \in N : matrix'[i] = NewRow(matrix[f[i]].violation, matrix[f[i]].level + 1)
    BY <1>12, <1>15, <2>1, <2>2 DEF N
  <2> HIDE DEF f
  <2> QED
    BY <2>7, <2>8 DEF N
<1> QED
  BY <1>1, <1>8, <1>11, <1>12, <1>14, <1>17

(* What a trigger's INSERT leaves in the table. *)
LEMMA TriggerInsertEffect ==
  ASSUME TypeOK, NEW c \in Clients, TriggerInsert(c)
  PROVE  /\ matrix' \in Seq(MatrixRow)
         /\ DOMAIN matrix' = DOMAIN matrix \cup {Len(matrix) + 1}
         /\ \A i \in DOMAIN matrix : matrix'[i] = matrix[i]
         /\ matrix'[Len(matrix) + 1] \in MatrixRow
         /\ matrix'[Len(matrix) + 1].level = 1
         /\ matrix'[Len(matrix) + 1].status = "open"
         /\ matrix'[Len(matrix) + 1].age = 0
<1> DEFINE r == NewRow(trigger[c], 1)
<1>1. trigger[c] \in Violations
  BY DEF TypeOK, TriggerInsert
<1>2. r \in MatrixRow /\ r.level = 1 /\ r.status = "open" /\ r.age = 0
  BY <1>1, NewRowType, LevelsAssumption
<1>3. matrix' = Append(matrix, r) /\ matrix \in Seq(MatrixRow)
  BY DEF TypeOK, TriggerInsert
<1> HIDE DEF r
<1> QED
  BY <1>2, <1>3

(* A step that keeps every row's violation and level, forgets no escalation *)
(* and adds no row keeps every predecessor.                                 *)
LEMMA PredecessorsKept ==
  ASSUME HasPredecessor,
         DOMAIN matrix' = DOMAIN matrix,
         \A i \in DOMAIN matrix : /\ matrix'[i].violation = matrix[i].violation
                                  /\ matrix'[i].level = matrix[i].level
                                  /\ matrix[i].status = "escalated" => matrix'[i].status = "escalated"
  PROVE  HasPredecessor'
  BY DEF HasPredecessor

LEMMA LevelsStart == Init => LevelsInv
<1> SUFFICES ASSUME Init PROVE LevelsInv
  OBVIOUS
<1>1. TypeOK
  BY BoundsAssumption DEF Init, TypeOK
<1>2. DOMAIN matrix = {} /\ due = {}
  BY DEF Init
<1> QED
  BY <1>1, <1>2 DEF LevelsInv, DueWaited, AgesSaturate, HasPredecessor

LEMMA LevelsStep == LevelsInv /\ [Next]_vars => LevelsInv'
<1> SUFFICES ASSUME LevelsInv, [Next]_vars PROVE LevelsInv'
  OBVIOUS
<1>i. TypeOK /\ DueWaited /\ AgesSaturate /\ HasPredecessor
  BY DEF LevelsInv
<1>t. /\ Len(matrix) \in Nat
      /\ DOMAIN matrix = 1..Len(matrix)
      /\ \A i \in DOMAIN matrix : /\ matrix[i] \in MatrixRow
                                  /\ matrix[i].violation \in Violations
                                  /\ matrix[i].level \in 1..MaxLevel
                                  /\ matrix[i].status \in RowStatus
                                  /\ matrix[i].age \in Nat
  BY <1>i, TableType
<1>w. \A l \in 1..MaxLevel : Timeout[l] \in Nat
  BY LevelsAssumption
<1>1. ASSUME NEW c \in Clients, NEW v \in Violations, TriggerSelect(c, v) PROVE LevelsInv'
  <2>1. TypeOK'
    BY <1>1, <1>i, BoundsAssumption DEF TypeOK, TriggerSelect
  <2>2. UNCHANGED <<matrix, due>>
    BY <1>1 DEF TriggerSelect
  <2> QED
    BY <1>i, <2>1, <2>2 DEF LevelsInv, DueWaited, AgesSaturate, HasPredecessor
<1>2. ASSUME NEW c \in Clients, TriggerInsert(c) PROVE LevelsInv'
  <2>1. /\ matrix' \in Seq(MatrixRow)
        /\ DOMAIN matrix' = DOMAIN matrix \cup {Len(matrix) + 1}
        /\ \A i \in DOMAIN matrix : matrix'[i] = matrix[i]
        /\ matrix'[Len(matrix) + 1].level = 1
        /\ matrix'[Len(matrix) + 1].age = 0
    BY <1>2, <1>i, TriggerInsertEffect
  <2>2. due' = due /\ triggers' = triggers
        /\ trigger' \in [Clients -> Violations \cup {NoRequest}]
    BY <1>2, <1>i DEF TriggerInsert, TypeOK
  <2>3. TypeOK'
    BY <1>i, <2>1, <2>2 DEF TypeOK
  <2>4. DueWaited'
    BY <1>i, <2>1, <2>2 DEF DueWaited, TypeOK
  <2>5. AgesSaturate'
    BY <1>i, <1>w, <2>1, LevelsAssumption DEF AgesSaturate
  <2>6. HasPredecessor'
    BY <1>i, <2>1 DEF HasPredecessor
  <2> QED
    BY <2>3, <2>4, <2>5, <2>6 DEF LevelsInv
<1>3. ASSUME NEW c \in Clients, TriggerRollback(c) PROVE LevelsInv'
  <2>1. TypeOK'
    BY <1>3, <1>i DEF TypeOK, TriggerRollback
  <2>2. UNCHANGED <<matrix, due>>
    BY <1>3 DEF TriggerRollback
  <2> QED
    BY <1>i, <2>1, <2>2 DEF LevelsInv, DueWaited, AgesSaturate, HasPredecessor
<1>4. CASE CheckSelect
  <2>1. UNCHANGED <<matrix, trigger, triggers>> /\ due' = Overdue
    BY <1>4 DEF CheckSelect
  <2>2. \A i \in Overdue : /\ i \in DOMAIN matrix
                           /\ matrix[i].level < MaxLevel
                           /\ matrix[i].age >= Timeout[matrix[i].level]
    BY DEF Overdue, Scanned, OpenIds
  <2>3. TypeOK'
    BY <1>i, <2>1, <2>2 DEF TypeOK
  <2>4. DueWaited'
    <3>1. \A i \in Overdue : matrix[i].age = Timeout[matrix[i].level]
      BY <1>i, <1>t, <1>w, <2>2 DEF AgesSaturate
    <3> QED
      BY <2>1, <2>2, <3>1 DEF DueWaited
  <2> QED
    BY <1>i, <2>1, <2>3, <2>4 DEF LevelsInv, AgesSaturate, HasPredecessor
<1>5. CASE CheckCommit
  <2>1. /\ matrix' \in Seq(MatrixRow)
        /\ Len(matrix') >= Len(matrix)
        /\ \A i \in DOMAIN matrix :
             /\ i \in due => matrix'[i] = Escalated(i)
             /\ i \notin due => matrix'[i] = matrix[i]
        /\ \A i \in DOMAIN matrix' \ DOMAIN matrix :
             \E j \in due : matrix'[i] = NewRow(matrix[j].violation, matrix[j].level + 1)
    BY <1>5, <1>i, CheckCommitEffect
  <2>2. due' = {} /\ UNCHANGED <<trigger, triggers>>
    BY <1>5 DEF CheckCommit
  <2>3. TypeOK'
    BY <1>i, <2>1, <2>2 DEF TypeOK
  <2>4. DueWaited'
    BY <2>2 DEF DueWaited
  <2>5. DOMAIN matrix \subseteq DOMAIN matrix'
    BY <1>t, <2>1
  <2>6. \A i \in DOMAIN matrix : /\ matrix'[i].violation = matrix[i].violation
                                 /\ matrix'[i].level = matrix[i].level
                                 /\ matrix'[i].age = matrix[i].age
                                 /\ matrix[i].status = "escalated" => matrix'[i].status = "escalated"
                                 /\ i \in due => matrix'[i].status = "escalated"
    BY <1>i, <2>1, EscalatedType
  <2>7. \A j \in due : /\ j \in DOMAIN matrix
                       /\ matrix[j].violation \in Violations
                       /\ matrix[j].level + 1 \in 1..MaxLevel
    BY <1>i, <1>t, LevelsAssumption DEF TypeOK, DueWaited
  <2>8. \A i \in DOMAIN matrix' \ DOMAIN matrix :
          \E j \in due : /\ matrix'[i].violation = matrix[j].violation
                         /\ matrix'[i].level = matrix[j].level + 1
                         /\ matrix'[i].age = 0
    BY <2>1, <2>7, NewRowType
  <2>9. AgesSaturate'
    <3>1. ASSUME NEW i \in DOMAIN matrix PROVE matrix'[i].age <= Timeout[matrix'[i].level]
      BY <1>i, <2>6 DEF AgesSaturate
    <3>2. ASSUME NEW i \in DOMAIN matrix' \ DOMAIN matrix
          PROVE  matrix'[i].age <= Timeout[matrix'[i].level]
      BY <1>w, <2>7, <2>8
    <3> QED
      BY <3>1, <3>2 DEF AgesSaturate
  <2>10. HasPredecessor'
    <3>1. ASSUME NEW i \in DOMAIN matrix, matrix'[i].level > 1
          PROVE  \E j \in DOMAIN matrix' : /\ matrix'[j].violation = matrix'[i].violation
                                           /\ matrix'[j].level + 1 = matrix'[i].level
                                           /\ matrix'[j].status = "escalated"
      BY <1>i, <2>5, <2>6, <3>1 DEF HasPredecessor
    <3>2. ASSUME NEW i \in DOMAIN matrix' \ DOMAIN matrix
          PROVE  \E j \in DOMAIN matrix' : /\ matrix'[j].violation = matrix'[i].violation
                                           /\ matrix'[j].level + 1 = matrix'[i].level
                                           /\ matrix'[j].status = "escalated"
      BY <2>5, <2>6, <2>7, <2>8
    <3> QED
      BY <3>1, <3>2 DEF HasPredecessor
  <2> QED
    BY <2>3, <2>4, <2>9, <2>10 DEF LevelsInv
<1>6. CASE CheckRollback
  <2>1. UNCHANGED <<matrix, trigger, triggers>> /\ due' = {}
    BY <1>6 DEF CheckRollback
  <2>2. TypeOK' /\ DueWaited'
    BY <1>i, <2>1 DEF TypeOK, DueWaited
  <2> QED
    BY <1>i, <2>1, <2>2 DEF LevelsInv, AgesSaturate, HasPredecessor
<1>7. ASSUME NEW a \in DOMAIN matrix, Acknowledge(a) PROVE LevelsInv'
  <2>1. /\ UNCHANGED <<trigger, due, triggers>>
        /\ matrix[a].status = "open"
        /\ matrix' = [matrix EXCEPT ![a] = [matrix[a] EXCEPT !.status = "acknowledged"]]
    BY <1>7 DEF Acknowledge
  <2>2. [matrix[a] EXCEPT !.status = "acknowledged"] \in MatrixRow
    BY <1>t DEF MatrixRow, RowStatus
  <2>3. matrix' \in Seq(MatrixRow) /\ DOMAIN matrix' = DOMAIN matrix
    BY <1>i, <1>t, <2>1, <2>2 DEF TypeOK
  <2>4. \A i \in DOMAIN matrix : /\ matrix'[i].violation = matrix[i].violation
                                 /\ matrix'[i].level = matrix[i].level
                                 /\ matrix'[i].age = matrix[i].age
                                 /\ matrix[i].status = "escalated" => matrix'[i].status = "escalated"
    BY <1>t, <2>1 DEF MatrixRow
  <2>5. TypeOK'
    BY <1>i, <2>1, <2>3 DEF TypeOK
  <2>6. DueWaited' /\ AgesSaturate'
    BY <1>i, <2>1, <2>3, <2>4 DEF DueWaited, AgesSaturate, TypeOK
  <2>7. HasPredecessor'
    BY <1>i, <2>3, <2>4, PredecessorsKept
  <2> QED
    BY <2>5, <2>6, <2>7 DEF LevelsInv
<1>8. CASE Tick
  <2>1. /\ UNCHANGED <<trigger, due, triggers>>
        /\ matrix' = [i \in DOMAIN matrix |->
                      IF Waiting(i) THEN [matrix[i] EXCEPT !.age = @ + 1] ELSE matrix[i]]
    BY <1>8 DEF Tick
  <2>2. DOMAIN matrix' = DOMAIN matrix
    BY <2>1
  <2>3. ASSUME NEW i \in DOMAIN matrix
        PROVE  /\ matrix'[i] \in MatrixRow
               /\ matrix'[i].violation = matrix[i].violation
               /\ matrix'[i].level = matrix[i].level
               /\ matrix'[i].status = matrix[i].status
               /\ matrix'[i].age <= Timeout[matrix[i].level]
               /\ matrix[i].age = Timeout[matrix[i].level] => matrix'[i].age = matrix[i].age
    <3>1. CASE Waiting(i)
      <4>1. matrix'[i] = [matrix[i] EXCEPT !.age = matrix[i].age + 1]
        BY <2>1, <3>1
      <4>2. matrix[i].age + 1 \in Nat /\ matrix[i].age + 1 <= Timeout[matrix[i].level]
            /\ matrix[i].age # Timeout[matrix[i].level]
        BY <1>t, <1>w, <3>1 DEF Waiting
      <4> QED
        BY <1>t, <4>1, <4>2 DEF MatrixRow
    <3>2. CASE ~Waiting(i)
      BY <1>i, <1>t, <2>1, <3>2 DEF AgesSaturate
    <3> QED
      BY <3>1, <3>2
  <2>4. matrix' \in Seq(MatrixRow)
    <3>1. matrix' \in [1..Len(matrix) -> MatrixRow]
      BY <1>t, <2>1, <2>2, <2>3
    <3> QED
      BY <1>t, <3>1
  <2>5. TypeOK'
    BY <1>i, <2>1, <2>2, <2>4 DEF TypeOK
  <2>6. DueWaited' /\ AgesSaturate'
    BY <1>i, <2>1, <2>2, <2>3 DEF DueWaited, AgesSaturate, TypeOK
  <2>7. HasPredecessor'
    BY <1>i, <2>2, <2>3, PredecessorsKept
  <2> QED
    BY <2>5, <2>6, <2>7 DEF LevelsInv
<1>9. CASE UNCHANGED vars
  BY <1>i, <1>9 DEF vars, LevelsInv, TypeOK, DueWaited, AgesSaturate, HasPredecessor
<1> QED
  BY <1>1, <1>2, <1>3, <1>4, <1>5, <1>6, <1>7, <1>8, <1>9 DEF Next

(* Type correctness of the escalation table and of the sessions on it. *)
THEOREM EscalationTypesHold == Spec => []TypeOK
<1>1. LevelsInv => TypeOK
  BY DEF LevelsInv
<1> QED
  BY <1>1, LevelsStart, LevelsStep, PTL DEF Spec

(* No level above L1 is ever notified unless the level below it was left    *)
(* to expire for the same violation.                                        *)
THEOREM PredecessorAlways == Spec => []HasPredecessor
<1>1. LevelsInv => HasPredecessor
  BY DEF LevelsInv
<1> QED
  BY <1>1, LevelsStart, LevelsStep, PTL DEF Spec

(* No check, however stale what it read, escalates a row early. *)
THEOREM WindowAlwaysRespected == Spec => WindowRespected
<1>1. LevelsInv /\ [Next]_vars => [EscalatesAfterWindow]_vars
  <2> SUFFICES ASSUME LevelsInv, Next, NEW i \in DOMAIN matrix,
                      matrix[i].status # "escalated", matrix'[i].status = "escalated"
               PROVE  matrix[i].age = Timeout[matrix[i].level]
    BY DEF EscalatesAfterWindow
  <2>i. TypeOK /\ DueWaited
    BY DEF LevelsInv
  <2>t. matrix[i] \in MatrixRow
    BY <2>i, TableType
  <2>1. ASSUME NEW c \in Clients, TriggerInsert(c) PROVE matrix'[i] = matrix[i]
    BY <2>1, <2>i, TriggerInsertEffect
  <2>2. CASE CheckCommit
    BY <2>2, <2>i, CheckCommitEffect DEF DueWaited
  <2>3. ASSUME NEW a \in DOMAIN matrix, Acknowledge(a) PROVE matrix'[i].status # "escalated"
    BY <2>3, <2>t DEF Acknowledge, MatrixRow
  <2>4. CASE Tick
    BY <2>4, <2>t DEF Tick, MatrixRow
  <2>5. CASE UNCHANGED matrix
    BY <2>5
  <2> QED
    BY <2>1, <2>2, <2>3, <2>4, <2>5
    DEF Next, TriggerSelect, TriggerRollback, CheckSelect, CheckRollback
<1> QED
  BY <1>1, LevelsStart, LevelsStep, PTL DEF Spec, WindowRespected

-----------------------------------------------------------------------------
(* Successors.  No row a check holds is escalated yet: only its own commit  *)
(* escalates, and checks follow each other.                                 *)
Expired(v, l) == {i \in IdsAt(v, l) : matrix[i].status = "escalated"}
DueNotEscalated == \A i \in due : matrix[i].status # "escalated"
SuccessorsInv == LevelsInv /\ DueNotEscalated /\ OneSuccessorEach

(* Adding as many elements to each of two equal sets keeps them equal. *)
LEMMA GrowTogether ==
  ASSUME NEW A, NEW B, NEW C, NEW D, IsFiniteSet(A), IsFiniteSet(B), IsFiniteSet(D),
         A \cap D = {}, B \cap C = {}, ExistsBijection(C, D), IsFiniteSet(C),
         Cardinality(A) = Cardinality(B)
  PROVE  Cardinality(A \cup D) = Cardinality(B \cup C)
<1>1. Cardinality(C) = Cardinality(D) /\ Cardinality({}) = 0
  BY FS_Bijection, FS_EmptySet
<1>2. Cardinality(A) \in Nat /\ Cardinality(B) \in Nat /\ Cardinality(C) \in Nat /\ Cardinality(D) \in Nat
  BY FS_CardinalityType
<1>3. Cardinality(A \cup D) = Cardinality(A) + Cardinality(D) - Cardinality(A \cap D)
  BY FS_Union
<1>4. Cardinality(B \cup C) = Cardinality(B) + Cardinality(C) - Cardinality(B \cap C)
  BY FS_Union
<1> QED
  BY <1>1, <1>2, <1>3, <1>4

LEMMA RowsFinite == TypeOK => \A S \in SUBSET (DOMAIN matrix) : IsFiniteSet(S)
<1> SUFFICES ASSUME TypeOK, NEW S \in SUBSET (DOMAIN matrix) PROVE IsFiniteSet(S)
  OBVIOUS
<1>1. Len(matrix) \in Int /\ DOMAIN matrix = 1..Len(matrix)
  BY TableType
<1>2. IsFiniteSet(1..Len(matrix))
  BY <1>1, FS_Interval
<1> QED
  BY <1>1, <1>2, FS_Subset

(* The commit of a check: the rows of v it held at level l leave a          *)
(* successor each.                                                          *)
LEMMA CommitCounts ==
  ASSUME SuccessorsInv, CheckCommit, TypeOK', NEW v \in Violations, NEW l \in 1..(MaxLevel - 1)
  PROVE  Cardinality(Expired(v, l)') = Cardinality(IdsAt(v, l + 1)')
<1> DEFINE N == DOMAIN matrix' \ DOMAIN matrix
           D == {i \in due : matrix[i].violation = v /\ matrix[i].level = l}
<1>0. TypeOK /\ DueWaited
  BY DEF SuccessorsInv, LevelsInv
<1>1. /\ Len(matrix') >= Len(matrix)
      /\ \A i \in DOMAIN matrix : /\ i \in due => matrix'[i] = Escalated(i)
                                  /\ i \notin due => matrix'[i] = matrix[i]
      /\ \E f \in Bijection(N, due) :
           \A i \in N : matrix'[i] = NewRow(matrix[f[i]].violation, matrix[f[i]].level + 1)
  BY <1>0, CheckCommitEffect
<1>2. PICK f \in Bijection(N, due) :
        \A i \in N : matrix'[i] = NewRow(matrix[f[i]].violation, matrix[f[i]].level + 1)
  BY <1>1
<1>3. DOMAIN matrix \subseteq DOMAIN matrix'
  <2>1. Len(matrix) \in Nat /\ DOMAIN matrix = 1..Len(matrix) /\ matrix' \in Seq(MatrixRow)
    BY <1>0, TableType DEF TypeOK
  <2>2. DOMAIN matrix' = 1..Len(matrix') /\ Len(matrix') \in Nat
    BY <2>1
  <2> QED
    BY <1>1, <2>1, <2>2
<1> HIDE DEF N
<1>4. /\ f \in [N -> due] /\ \A a, b \in N : f[a] = f[b] => a = b
      /\ \A t \in due : \E i \in N : f[i] = t
  BY <1>2, Fun_BijectionProperties
<1>5. \A t \in due : /\ t \in DOMAIN matrix /\ matrix[t].violation \in Violations
                     /\ matrix[t].level \in Nat /\ matrix[t].level + 1 \in 1..MaxLevel
  BY <1>0, TableType, LevelsAssumption DEF TypeOK, DueWaited
<1>6. \A i \in N : /\ matrix'[i].violation = matrix[f[i]].violation
                   /\ matrix'[i].level = matrix[f[i]].level + 1
                   /\ matrix'[i].status = "open"
  BY <1>2, <1>4, <1>5, NewRowType
<1>7. \A i \in DOMAIN matrix : /\ matrix'[i].violation = matrix[i].violation /\ matrix'[i].level = matrix[i].level
                            /\ matrix'[i].status = IF i \in due THEN "escalated" ELSE matrix[i].status
  BY <1>0, <1>1, EscalatedType
<1> DEFINE C == {i \in N : f[i] \in D}
<1>8. DOMAIN matrix' = DOMAIN matrix \cup N /\ DOMAIN matrix \cap N = {}
  BY <1>3 DEF N
<1>9. Expired(v, l)' = Expired(v, l) \cup D
  <2>1. \A i \in DOMAIN matrix : i \in Expired(v, l)' <=> i \in Expired(v, l) \/ i \in D
    BY <1>7, <1>8 DEF Expired, IdsAt
  <2>2. \A i \in N : i \notin Expired(v, l)'
    BY <1>6 DEF Expired, IdsAt
  <2>3. Expired(v, l)' \subseteq DOMAIN matrix \cup N /\ Expired(v, l) \subseteq DOMAIN matrix
    BY <1>8 DEF Expired, IdsAt
  <2>4. D \subseteq DOMAIN matrix
    BY <1>5
  <2> QED
    BY <2>1, <2>2, <2>3, <2>4
<1>10. IdsAt(v, l + 1)' = IdsAt(v, l + 1) \cup C
  <2>1. \A i \in DOMAIN matrix : i \in IdsAt(v, l + 1)' <=> i \in IdsAt(v, l + 1)
    BY <1>7, <1>8 DEF IdsAt
  <2>2. \A i \in N : i \in IdsAt(v, l + 1)' <=> i \in C
    <3> SUFFICES ASSUME NEW i \in N PROVE i \in IdsAt(v, l + 1)' <=> i \in C
      OBVIOUS
    <3>1. f[i] \in due /\ matrix[f[i]].level \in Nat
      BY <1>4, <1>5
    <3>2. matrix[f[i]].level + 1 = l + 1 <=> matrix[f[i]].level = l
      BY <3>1
    <3> QED
      BY <1>6, <1>8, <3>1, <3>2 DEF IdsAt
  <2>3. IdsAt(v, l + 1)' \subseteq DOMAIN matrix \cup N /\ IdsAt(v, l + 1) \subseteq DOMAIN matrix
    BY <1>8 DEF IdsAt
  <2> QED
    BY <1>8, <2>1, <2>2, <2>3
<1>11. ExistsBijection(C, D)
  <2> DEFINE g == [i \in C |-> f[i]]
  <2>1. g \in [C -> D] /\ \A a, b \in C : g[a] = g[b] => a = b
    BY <1>4
  <2>2. \A t \in D : \E i \in C : g[i] = t
    <3> SUFFICES ASSUME NEW t \in D PROVE \E i \in C : g[i] = t
      OBVIOUS
    <3>1. PICK i \in N : f[i] = t
      BY <1>4
    <3> QED
      BY <3>1
  <2>3. g \in Bijection(C, D)
    BY <2>1, <2>2, Fun_IsBij
  <2> QED
    BY <2>3 DEF ExistsBijection
<1>12. Expired(v, l) \cap D = {} /\ IdsAt(v, l + 1) \cap C = {}
  BY <1>8 DEF SuccessorsInv, DueNotEscalated, Expired, IdsAt
<1>13. IsFiniteSet(Expired(v, l)) /\ IsFiniteSet(IdsAt(v, l + 1)) /\ IsFiniteSet(D) /\ IsFiniteSet(C)
  <2>1. Expired(v, l) \subseteq DOMAIN matrix /\ IdsAt(v, l + 1) \subseteq DOMAIN matrix /\ D \subseteq DOMAIN matrix
    BY <1>5 DEF Expired, IdsAt
  <2>2. C \subseteq DOMAIN matrix'
    BY <1>8
  <2>3. IsFiniteSet(C)
    <3>1. \E n \in Nat : DOMAIN matrix' = 1..n
      BY DEF TypeOK
    <3>2. PICK n \in Nat : DOMAIN matrix' = 1..n
      BY <3>1
    <3>3. IsFiniteSet(1..n)
      BY FS_Interval
    <3> QED
      BY <2>2, <3>2, <3>3, FS_Subset
  <2> QED
    BY <1>0, <2>1, <2>3, RowsFinite
<1>14. Cardinality(Expired(v, l)) = Cardinality(IdsAt(v, l + 1))
  BY DEF SuccessorsInv, OneSuccessorEach, Expired
<1> HIDE DEF C, D
<1> QED
  BY <1>9, <1>10, <1>11, <1>12, <1>13, <1>14, GrowTogether

(* A step that leaves the old rows at their level, escalates none, forgets  *)
(* no escalation and adds rows of the first level only.                     *)
LEMMA SuccessorsKept ==
  ASSUME OneSuccessorEach, TypeOK,
         DOMAIN matrix \subseteq DOMAIN matrix',
         \A i \in DOMAIN matrix : /\ matrix'[i].violation = matrix[i].violation
                                  /\ matrix'[i].level = matrix[i].level
                                  /\ matrix[i].status = "escalated" <=> matrix'[i].status = "escalated",
         \A i \in DOMAIN matrix' \ DOMAIN matrix : matrix'[i].level = 1 /\ matrix'[i].status = "open"
  PROVE  OneSuccessorEach'
<1> SUFFICES ASSUME NEW v \in Violations, NEW l \in 1..(MaxLevel - 1)
             PROVE  Cardinality(Expired(v, l)') = Cardinality(IdsAt(v, l + 1)')
  BY DEF OneSuccessorEach, Expired
<1>1. l + 1 # 1
  OBVIOUS
<1>2. Expired(v, l)' = Expired(v, l)
  BY DEF Expired, IdsAt
<1>3. IdsAt(v, l + 1)' = IdsAt(v, l + 1)
  BY <1>1 DEF IdsAt
<1>4. Cardinality(Expired(v, l)) = Cardinality(IdsAt(v, l + 1))
  BY DEF OneSuccessorEach, Expired
<1> QED
  BY <1>2, <1>3, <1>4

LEMMA SuccessorsStart == Init => SuccessorsInv
<1> SUFFICES ASSUME Init PROVE SuccessorsInv
  OBVIOUS
<1>1. DOMAIN matrix = {} /\ due = {}
  BY DEF Init
<1>2. OneSuccessorEach
  <2> SUFFICES ASSUME NEW v \in Violations, NEW l \in 1..(MaxLevel - 1)
               PROVE  Cardinality({i \in IdsAt(v, l) : matrix[i].status = "escalated"}) = Cardinality(IdsAt(v, l + 1))
    BY DEF OneSuccessorEach
  <2>1. {i \in IdsAt(v, l) : matrix[i].status = "escalated"} = {} /\ IdsAt(v, l + 1) = {}
    BY <1>1 DEF IdsAt
  <2> QED
    BY <2>1
<1> QED
  BY <1>1, <1>2, LevelsStart DEF SuccessorsInv, DueNotEscalated

LEMMA SuccessorsStep == SuccessorsInv /\ [Next]_vars => SuccessorsInv'
<1> SUFFICES ASSUME SuccessorsInv, [Next]_vars PROVE SuccessorsInv'
  OBVIOUS
<1>0. LevelsInv /\ TypeOK /\ DueNotEscalated /\ OneSuccessorEach
  BY DEF SuccessorsInv, LevelsInv
<1>1. LevelsInv' /\ TypeOK'
  BY <1>0, LevelsStep DEF LevelsInv
<1>2. CASE CheckCommit
  <2>1. due' = {}
    BY <1>2 DEF CheckCommit
  <2>2. ASSUME NEW v \in Violations, NEW l \in 1..(MaxLevel - 1)
        PROVE  Cardinality(Expired(v, l)') = Cardinality(IdsAt(v, l + 1)')
    BY <1>1, <1>2, CommitCounts
  <2>3. OneSuccessorEach'
    BY <2>2 DEF OneSuccessorEach, Expired
  <2> QED
    BY <1>1, <2>1, <2>3 DEF SuccessorsInv, DueNotEscalated
<1>3. CASE matrix' = matrix /\ (due' = due \/ due' = {} \/ due' = Overdue)
  <2>1. \A i \in Overdue : matrix[i].status = "open"
    BY DEF Overdue, Scanned, OpenIds
  <2>2. DueNotEscalated'
    BY <1>0, <1>3, <2>1 DEF DueNotEscalated
  <2>3. OneSuccessorEach'
    BY <1>0, <1>3, SuccessorsKept
  <2> QED
    BY <1>1, <2>2, <2>3 DEF SuccessorsInv
<1>4. ASSUME due' = due, DOMAIN matrix \subseteq DOMAIN matrix',
             \A i \in DOMAIN matrix : /\ matrix'[i].violation = matrix[i].violation
                                      /\ matrix'[i].level = matrix[i].level
                                      /\ matrix[i].status = "escalated" <=> matrix'[i].status = "escalated",
             \A i \in DOMAIN matrix' \ DOMAIN matrix : matrix'[i].level = 1 /\ matrix'[i].status = "open"
      PROVE  SuccessorsInv'
  <2>1. OneSuccessorEach'
    BY <1>0, <1>4, SuccessorsKept
  <2>2. DueNotEscalated'
    BY <1>0, <1>4 DEF DueNotEscalated, TypeOK
  <2> QED
    BY <1>1, <2>1, <2>2 DEF SuccessorsInv
<1>5. ASSUME NEW c \in Clients, TriggerInsert(c) PROVE SuccessorsInv'
  <2>1. /\ DOMAIN matrix' = DOMAIN matrix \cup {Len(matrix) + 1}
        /\ \A i \in DOMAIN matrix : matrix'[i] = matrix[i]
        /\ matrix'[Len(matrix) + 1].level = 1
        /\ matrix'[Len(matrix) + 1].status = "open"
    BY <1>0, <1>5, TriggerInsertEffect
  <2>2. due' = due
    BY <1>5 DEF TriggerInsert
  <2> QED
    BY <1>4, <2>1, <2>2
<1>6. ASSUME NEW a \in DOMAIN matrix, Acknowledge(a) PROVE SuccessorsInv'
  <2>1. /\ due' = due /\ matrix[a].status = "open"
        /\ matrix' = [matrix EXCEPT ![a].status = "acknowledged"]
    BY <1>6 DEF Acknowledge
  <2>2. \A i \in DOMAIN matrix : matrix[i] \in MatrixRow
    BY <1>0, TableType
  <2>3. DOMAIN matrix' = DOMAIN matrix
    BY <2>1
  <2>4. ASSUME NEW i \in DOMAIN matrix
        PROVE  /\ matrix'[i].violation = matrix[i].violation
               /\ matrix'[i].level = matrix[i].level
               /\ matrix[i].status = "escalated" <=> matrix'[i].status = "escalated"
    BY <2>1, <2>2 DEF MatrixRow
  <2> QED
    BY <1>4, <2>1, <2>3, <2>4
<1>7. CASE Tick
  <2>1. /\ due' = due
        /\ matrix' = [i \in DOMAIN matrix |->
                      IF Waiting(i) THEN [matrix[i] EXCEPT !.age = @ + 1] ELSE matrix[i]]
    BY <1>7 DEF Tick
  <2>2. \A i \in DOMAIN matrix : matrix[i] \in MatrixRow
    BY <1>0, TableType
  <2>3. DOMAIN matrix' = DOMAIN matrix
    BY <2>1
  <2>4. ASSUME NEW i \in DOMAIN matrix
        PROVE  /\ matrix'[i].violation = matrix[i].violation
               /\ matrix'[i].level = matrix[i].level
               /\ matrix[i].status = "escalated" <=> matrix'[i].status = "escalated"
    BY <2>1, <2>2 DEF MatrixRow
  <2> QED
    BY <1>4, <2>1, <2>3, <2>4
<1>9. CASE CheckSelect \/ CheckRollback \/ UNCHANGED vars
  <2>1. matrix' = matrix /\ (due' = due \/ due' = {} \/ due' = Overdue)
    BY <1>9 DEF CheckSelect, CheckRollback, vars
  <2> QED
    BY <1>3, <2>1
<1>10. ASSUME NEW c \in Clients, TriggerRollback(c) PROVE SuccessorsInv'
  BY <1>3, <1>10 DEF TriggerRollback
<1>11. ASSUME NEW c \in Clients, NEW v \in Violations, TriggerSelect(c, v) PROVE SuccessorsInv'
  BY <1>3, <1>11 DEF TriggerSelect
<1> QED
  BY <1>2, <1>5, <1>6, <1>7, <1>9, <1>10, <1>11 DEF Next

(* No check, however it is interleaved with triggers, acknowledgements and  *)
(* failures, loses the next level's row of a row it gave up, or notifies    *)
(* the next level twice (escalation_route.py:107-202).                      *)
THEOREM SuccessorAlways == Spec => []OneSuccessorEach
<1>1. SuccessorsInv => OneSuccessorEach
  BY DEF SuccessorsInv
<1> QED
  BY <1>1, SuccessorsStart, SuccessorsStep, PTL DEF Spec
=============================================================================
