---------------------------- MODULE ZoneRegistry ----------------------------
(***************************************************************************)
(* The zones of one camera are kept three times: InferencePipeline.zones,  *)
(* the tracker's _zones (which zone is this worker in) and the heatmap's   *)
(* _zone_masks (how risky is this zone).  Zones are added, removed and     *)
(* reloaded at runtime, and the three copies follow one after the other.   *)
(*                                                                         *)
(* A dictionary is a sequence of zones in insertion order: assigning to a  *)
(* key that is there keeps its position.  A polygon is the set of places   *)
(* inside it.  A zones file either yields nothing (absent, not YAML, no    *)
(* zones), or makes the loader raise, or lists definitions, each of which  *)
(* is valid, skipped with a warning, or raises because a coordinate does   *)
(* not fit a C integer.                                                    *)
(***************************************************************************)
EXTENDS Naturals, Sequences

CONSTANTS
  Zone,       \* the zones that can be drawn: [id, polygon]
  ZoneFiles   \* [read : {"nothing", "raises", "list"}, defs : Seq([zone, parse])]

VARIABLES zones, trackerZones, heatZones

registryVars == <<zones, trackerZones, heatZones>>

Ids(d) == {d[i].id : i \in DOMAIN d}
Zones(d) == {d[i] : i \in DOMAIN d}

Put(d, z) ==
  IF z.id \in Ids(d)
  THEN [i \in DOMAIN d |-> IF d[i].id = z.id THEN z ELSE d[i]]
  ELSE Append(d, z)
PutAll(d, e) ==
  LET put[n \in 0..Len(e)] == IF n = 0 THEN d ELSE Put(put[n - 1], e[n])
  IN  put[Len(e)]
Without(d, ids) ==
  LET kept[n \in 0..Len(d)] ==
        IF n = 0 THEN << >> ELSE IF d[n].id \in ids THEN kept[n - 1] ELSE Append(kept[n - 1], d[n])
  IN  kept[Len(d)]

(* ByteTracker._assign_zone: the first zone, in insertion order, around a  *)
(* place; "none" outside all of them.                                      *)
ZoneOf(d, place) ==
  LET around == SelectSeq(d, LAMBDA z : place \in z.polygon)
  IN  IF around = << >> THEN "none" ELSE Head(around).id

-----------------------------------------------------------------------------
(* zones.load_zones: the first valid definition of every id, up to the one *)
(* that raises.                                                            *)
Raised(f, n) == \E i \in 1..n : f.defs[i].parse = "raises"

LoadZones(f) ==
  LET load[n \in 0..Len(f.defs)] ==
        IF n = 0 THEN << >>
        ELSE LET d == f.defs[n]
             IN  IF Raised(f, n) \/ d.parse # "valid" \/ d.zone.id \in Ids(load[n - 1]) THEN load[n - 1]
                 ELSE Append(load[n - 1], d.zone)
  IN  IF f.read # "list" THEN << >> ELSE load[Len(f.defs)]
LoadRaises(f) == f.read = "raises" \/ (f.read = "list" /\ Raised(f, Len(f.defs)))

(* InferencePipeline.__init__: a loader that raises leaves the pipeline    *)
(* without zones, whatever it had registered by then.                      *)
RegistryInit ==
  \E f \in ZoneFiles :
    /\ trackerZones = LoadZones(f)
    /\ heatZones = LoadZones(f)
    /\ zones = IF LoadRaises(f) THEN << >> ELSE LoadZones(f)

AddZone(z) ==
  /\ trackerZones' = Put(trackerZones, z)
  /\ heatZones' = Put(heatZones, z)
  /\ zones' = Put(zones, z)

RemoveZone(id) ==
  /\ id \in Ids(zones)
  /\ zones' = Without(zones, {id})
  /\ trackerZones' = Without(trackerZones, {id})
  /\ heatZones' = Without(heatZones, {id})

\* Mutant: the rollback restores the dictionary and registers nothing.
ReloadZones_ForgetsRollback(f) ==
  LET reload(d) == PutAll(Without(d, Ids(zones)), LoadZones(f))
  IN  /\ trackerZones' = reload(trackerZones)
      /\ heatZones' = reload(heatZones)
      /\ zones' = IF LoadRaises(f) THEN zones ELSE LoadZones(f)

(* InferencePipeline.reload_zones: clear, load, and after an exception     *)
(* register the previous zones again.                                      *)
ReloadZones(f) ==
  LET loaded(d) == PutAll(Without(d, Ids(zones)), LoadZones(f))
      reload(d) == IF LoadRaises(f) THEN PutAll(loaded(d), zones) ELSE loaded(d)
  IN  /\ trackerZones' = reload(trackerZones)
      /\ heatZones' = reload(heatZones)
      /\ zones' = IF LoadRaises(f) THEN zones ELSE LoadZones(f)

(* Every zone the pipeline lists is registered, with the same polygon, in  *)
(* the tracker and in the heatmap: after any adds, removals and reloads,   *)
(* those that fail half way included, no listed zone goes unwatched.       *)
ZonesWatched ==
  /\ Zones(zones) \subseteq Zones(trackerZones)
  /\ Zones(zones) \subseteq Zones(heatZones)
=============================================================================
