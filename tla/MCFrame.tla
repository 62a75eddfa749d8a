------------------------------ MODULE MCFrame -------------------------------
(***************************************************************************)
(* The frames of one camera, and the zones that change between them.       *)
(***************************************************************************)
EXTENDS FramePath

(***************************************************************************)
(* Five scenes: one exercises the heatmap, one the fire heatmap, one a     *)
(* worker's pose, one two workers near a machine with failing stages, one  *)
(* the zones.  A run follows one scene, so their states add up instead of  *)
(* multiplying.                                                            *)
(***************************************************************************)

MCPlaces == {"gate", "press"}
MCPairs == {<<1, 1>>, <<2, 1>>}
MCZone == {[id |-> "A", polygon |-> {"gate"}], [id |-> "A", polygon |-> {"gate", "press"}],
           [id |-> "B", polygon |-> {"press"}]}

Def(i, p, parse) == [zone |-> [id |-> i, polygon |-> p], parse |-> parse]
MCZoneFiles ==
  {[read |-> "nothing", defs |-> << >>],
   [read |-> "raises", defs |-> << >>],
   [read |-> "list", defs |-> <<Def("A", {"gate"}, "valid"), Def("A", {"press"}, "valid")>>],
   [read |-> "list", defs |-> <<Def("B", {"press"}, "valid"), Def("C", {"gate"}, "skipped"),
                                Def("A", {"gate", "press"}, "raises")>>]}

Empty == [fails |-> {}, boxes |-> {}, pose |-> [seen |-> FALSE],
          ranges |-> [p \in MCPairs |-> "absent"], flames |-> {}]

Worker(p) == [id |-> 1, violation |-> TRUE, place |-> p]
HeatScene ==
  {[Empty EXCEPT !.boxes = {Worker(p) : p \in s}, !.fails = f] :
     s \in SUBSET MCPlaces, f \in {{}, {"detect"}}}

FireScene ==
  {[Empty EXCEPT !.flames = s, !.fails = f] :
     s \in SUBSET [place : {"gate"}, kind : {"fire", "smoke"}], f \in {{}, {"fire"}}}

Poses == [seen : {TRUE}, back : {"bent", "straight"}, head : {"up", "down", "hidden"},
          hipSeen : BOOLEAN, hip : {0, 2}]
PoseShots ==
  {[Empty EXCEPT !.pose = q] : q \in {q \in Poses : q.back = "straight" \/ (~q.hipSeen /\ q.hip = 0)}}
PoseScene ==
  PoseShots \cup
  {Empty, [Empty EXCEPT !.pose = [seen |-> TRUE, back |-> "bent", head |-> "up", hipSeen |-> TRUE, hip |-> 2],
                        !.fails = {"pose"}]}

RangeShots ==
  {[Empty EXCEPT !.ranges = [p \in MCPairs |-> IF p[1] = 1 THEN r ELSE q], !.fails = f] :
     r \in {"absent", "far", "warning", "critical"}, q \in {"absent", "warning"}, f \in {{}, {"pose"}}}
ProximityScene ==
  RangeShots \cup
  {[Empty EXCEPT !.ranges = [p \in MCPairs |-> "critical"], !.fails = {f}] : f \in {"machines", "detect"}}

ZoneScene == {[Empty EXCEPT !.boxes = {Worker(p)}] : p \in MCPlaces}

MCScenes == {HeatScene, FireScene, PoseScene, ProximityScene, ZoneScene}
MCRezoning == {ZoneScene}
=============================================================================
