------------------------------- MODULE Cache -------------------------------
(***************************************************************************)
(* The Redis cache (cache/redis_cache.py), an optimisation that fails soft *)
(* : zones, face embeddings and canary state with a life time, and the     *)
(* marks by which a violation counts as seen.  Redis may be away, lose an  *)
(* answer, and be shared with a process that encodes otherwise.  Nothing   *)
(* outside backend/cache calls it; its counters are left out.              *)
(***************************************************************************)
EXTENDS Naturals, FiniteSets

CONSTANTS
  ZoneCameras, SanitizedKey,   \* cameras and the key part of each: not one-to-one
  CachedWorkers, SeenPairs,
  MaxVersion,                  \* bound on the versions of the data
  ConnectTries,                \* REDIS_MAX_RETRIES
  ZoneTtl, EmbeddingTtl, CanaryTtl, DedupTtl, LastCacheTick

VARIABLES
  cacheClock,
  redisUp,
  enabled,    \* _enabled, with its client
  tries,      \* attempts of a connect under way, 0 for none
  store,      \* Redis: key -> value and its end
  answer      \* what the last call returned
cacheVars == <<cacheClock, redisUp, enabled, tries, store, answer>>

None == [kind |-> "none"]
Told(b) == [kind |-> "bool", is |-> b]
Value(v) == [kind |-> "value", is |-> v]

CacheInit ==
  /\ cacheClock = 0 /\ redisUp \in BOOLEAN
  /\ enabled = FALSE /\ tries = 0
  /\ store = [k \in {} |-> 0]
  /\ answer = None

CachedVersions == 1 .. MaxVersion
ZoneKey(cam) == <<"zones", SanitizedKey[cam]>>
EmbeddingKey(w) == <<"embedding", w>>
CanaryKey == <<"canary", "state">>
SeenKey(p) == <<"viol", p>>
PutIn(k, v, ttl) ==
  [x \in DOMAIN store \cup {k} |-> IF x = k THEN [value |-> v, until |-> cacheClock + ttl] ELSE store[x]]
DropAll(keys) == [x \in DOMAIN store \ keys |-> store[x]]

-----------------------------------------------------------------------------
(* connect: up to ConnectTries pings; when all fail the cache stays off    *)
(* until somebody connects again.                                          *)
ConnectTry ==
  /\ tries > 0 \/ ~enabled
  /\ \/ redisUp /\ enabled' = TRUE /\ tries' = 0 /\ answer' = Told(TRUE)
     \/ tries + 1 < ConnectTries /\ tries' = tries + 1 /\ UNCHANGED <<enabled, answer>>
     \/ tries + 1 = ConnectTries /\ enabled' = FALSE /\ tries' = 0 /\ answer' = Told(FALSE)
  /\ UNCHANGED <<cacheClock, redisUp, store>>

Disconnect ==
  /\ enabled /\ tries = 0
  /\ enabled' = FALSE
  /\ UNCHANGED <<cacheClock, redisUp, tries, store, answer>>

(* A command of a cache that is on: its effect with its answer, its effect *)
(* with the answer lost, or neither; of one that is off or whose Redis is  *)
(* away, nothing.                                                          *)
Reached(after, result, failure) ==
  \/ enabled /\ redisUp /\ store' = after /\ answer' \in {result, failure}
  \/ store' = store /\ answer' = failure

SetZones(cam) ==
  /\ \E v \in CachedVersions :
       Reached(PutIn(ZoneKey(cam), [version |-> v, readable |-> TRUE], ZoneTtl), Told(TRUE), Told(FALSE))
  /\ UNCHANGED <<cacheClock, redisUp, enabled, tries>>

(* a process without msgpack shares the namespace: its entries do not decode *)
OtherSetsZones(cam) ==
  /\ redisUp
  /\ \E v \in CachedVersions : store' = PutIn(ZoneKey(cam), [version |-> v, readable |-> FALSE], ZoneTtl)
  /\ UNCHANGED <<cacheClock, redisUp, enabled, tries, answer>>

(* get_zones: an entry that does not decode is deleted *)
GetZones(cam) ==
  LET k == ZoneKey(cam) IN
  /\ \/ answer' = None /\ UNCHANGED store
     \/ /\ enabled /\ redisUp /\ k \in DOMAIN store
        /\ \/ store[k].value.readable /\ answer' = Value(store[k].value.version) /\ UNCHANGED store
           \/ ~store[k].value.readable /\ answer' = None /\ store' \in {DropAll({k}), store}
  /\ UNCHANGED <<cacheClock, redisUp, enabled, tries>>

InvalidateZones(cam) ==
  /\ Reached(DropAll({ZoneKey(cam)}), Told(ZoneKey(cam) \in DOMAIN store), Told(FALSE))
  /\ UNCHANGED <<cacheClock, redisUp, enabled, tries>>

InvalidateAllZones ==
  /\ Reached(DropAll({ZoneKey(cam) : cam \in ZoneCameras}), None, None)
  /\ UNCHANGED <<cacheClock, redisUp, enabled, tries>>

-----------------------------------------------------------------------------
SetEmbedding(w) ==
  /\ \E v \in CachedVersions : Reached(PutIn(EmbeddingKey(w), v, EmbeddingTtl), Told(TRUE), Told(FALSE))
  /\ UNCHANGED <<cacheClock, redisUp, enabled, tries>>

InvalidateEmbedding(w) ==
  /\ Reached(DropAll({EmbeddingKey(w)}), Told(EmbeddingKey(w) \in DOMAIN store), Told(FALSE))
  /\ UNCHANGED <<cacheClock, redisUp, enabled, tries>>

SetCanaryState ==
  /\ \E v \in CachedVersions : Reached(PutIn(CanaryKey, v, CanaryTtl), Told(TRUE), Told(FALSE))
  /\ UNCHANGED <<cacheClock, redisUp, enabled, tries>>

(* get_embedding and get_canary_state *)
GetPlain(k) ==
  /\ \/ answer' = None
     \/ enabled /\ redisUp /\ k \in DOMAIN store /\ answer' = Value(store[k].value)
  /\ UNCHANGED <<cacheClock, redisUp, enabled, tries, store>>

(* mark_violation_seen, SET with NX: new unless the key is there.  Without *)
(* Redis, and on an error, every violation is new.  The client repeats a   *)
(* command that timed out: if it was the answer that was lost, the second  *)
(* finds the mark of the first, and nobody is told "new".                  *)
MarkSeen(p) ==
  LET k == SeenKey(p) IN
  /\ \/ store' = store /\ answer' = Told(TRUE)
     \/ /\ enabled /\ redisUp /\ k \in DOMAIN store
        /\ store' = store /\ answer' = Told(FALSE)
     \/ /\ enabled /\ redisUp /\ k \notin DOMAIN store
        /\ store' = PutIn(k, 1, DedupTtl) /\ answer' \in {Told(TRUE), Told(FALSE)}
  /\ UNCHANGED <<cacheClock, redisUp, enabled, tries>>

-----------------------------------------------------------------------------
RedisGoes == redisUp /\ redisUp' = FALSE /\ UNCHANGED <<cacheClock, enabled, tries, store, answer>>
RedisComes == ~redisUp /\ redisUp' = TRUE /\ UNCHANGED <<cacheClock, enabled, tries, store, answer>>

CacheTick ==
  /\ cacheClock < LastCacheTick
  /\ cacheClock' = cacheClock + 1
  /\ store' = [k \in {x \in DOMAIN store : store[x].until > cacheClock'} |-> store[k]]
  /\ UNCHANGED <<redisUp, enabled, tries, answer>>

CacheNext ==
  \/ ConnectTry \/ Disconnect \/ InvalidateAllZones \/ SetCanaryState
  \/ \E cam \in ZoneCameras :
       SetZones(cam) \/ OtherSetsZones(cam) \/ GetZones(cam) \/ InvalidateZones(cam)
  \/ \E w \in CachedWorkers : SetEmbedding(w) \/ InvalidateEmbedding(w) \/ GetPlain(EmbeddingKey(w))
  \/ GetPlain(CanaryKey)
  \/ \E p \in SeenPairs : MarkSeen(p)
  \/ RedisGoes \/ RedisComes \/ CacheTick
=============================================================================
