--------------------------- MODULE WorkerIdentity ---------------------------
(***************************************************************************)
(* Workers and their faces: the routes that create and enrol them          *)
(* (routes/workers_route.py), the recogniser that keeps every known face   *)
(* in memory (identity/face_recognizer.py), and the registry that          *)
(* anonymises and deletes (identity/worker_registry.py), which imports a   *)
(* table class that backend.database does not define.  A photo is the face *)
(* on it; distances are kept as "the same", "close enough" and "apart".    *)
(***************************************************************************)
EXTENDS Naturals, Sequences, FiniteSets

CONSTANTS
  WorkerTables,     \* whether backend.database has WorkerProfile
  HasUpdatedAt,     \* worker_profiles.updated_at: migrations add it, init_db does not
  RecognitionOn,    \* FACE_RECOGNITION_ENABLED
  RiskLevels,       \* LOW, HIGH, CRITICAL
  IdWorkers, Faces,
  Lookalikes,       \* pairs of faces within DISTANCE_THRESHOLD of each other
  WorkerCalls,      \* concurrent requests that change a worker
  FaceCameras, FaceLimit, FaceWindow,   \* rate limit of identify
  ResultFor, KeepFor,                   \* life of a cached result; age at which it goes
  LastFaceSecond                        \* bound on the clock

VARIABLES
  faceClock,
  profile,      \* worker_profiles: status, stored face, risk level
  known,        \* _embeddings: worker -> face
  asking,       \* requests between two awaits
  lookups,      \* _calls of the rate limiter: times per camera
  recent        \* _recognition_cache: frame -> match and time
identityVars == <<faceClock, profile, known, asking, lookups, recent>>

NoFace == "no face"
NoProfile == [status |-> "none", face |-> NoFace, risk |-> "LOW"]
Fresh(f) == [status |-> "active", face |-> f, risk |-> "LOW"]
NotAsking == [at |-> "idle"]

IdentityInit ==
  /\ faceClock = 0
  /\ profile = [w \in IdWorkers |-> NoProfile]
  /\ known = [w \in {} |-> NoFace]        \* nothing loads the faces at startup
  /\ asking = [k \in WorkerCalls |-> NotAsking]
  /\ lookups = [c \in FaceCameras |-> <<>>]
  /\ recent = [x \in {} |-> NoFace]

recognised == <<lookups, recent>>
Exists(w) == profile[w].status # "none"
Learn(w, f) == [v \in DOMAIN known \cup {w} |-> IF v = w THEN f ELSE known[v]]
Goes(k, step) == asking' = [asking EXCEPT ![k] = step]

-----------------------------------------------------------------------------
(* create_worker: enroll_from_image puts the face into memory before the   *)
(* row exists; no face on the photo raises and nothing has happened.       *)
CreateAsked(k, w) ==
  /\ asking[k] = NotAsking
  /\ \E f \in Faces \cup {NoFace} :    \* NoFace: no photo, or recognition off
       /\ f # NoFace => RecognitionOn
       /\ known' = IF f = NoFace THEN known ELSE Learn(w, f)
       /\ Goes(k, [at |-> "insert", worker |-> w, face |-> f])
  /\ UNCHANGED <<faceClock, profile, recognised>>

(* the insert: a worker that exists answers 409, and the face just learnt  *)
(* for it stays                                                            *)
CreateInserted(k) ==
  /\ asking[k].at = "insert"
  /\ \/ /\ ~Exists(asking[k].worker)
        /\ profile' = [profile EXCEPT ![asking[k].worker] = Fresh(asking[k].face)]
        /\ Goes(k, [at |-> "load"])
     \/ UNCHANGED profile /\ Goes(k, NotAsking)
  /\ UNCHANGED <<faceClock, known, recognised>>

(* enroll_worker: look the worker up, await the photo, learn the face,     *)
(* store it; a store that fails leaves the new face in memory              *)
EnrolLookedUp(k, w) ==
  /\ asking[k] = NotAsking /\ RecognitionOn /\ Exists(w)
  /\ \E f \in Faces : Goes(k, [at |-> "learn", worker |-> w, face |-> f])
  /\ UNCHANGED <<faceClock, profile, known, recognised>>

EnrolLearnt(k) ==
  /\ asking[k].at = "learn"
  /\ \/ /\ known' = Learn(asking[k].worker, asking[k].face)
        /\ Goes(k, [asking[k] EXCEPT !.at = "store"])
     \/ UNCHANGED known /\ Goes(k, NotAsking)        \* no face on the photo
  /\ UNCHANGED <<faceClock, profile, recognised>>

EnrolStored(k) ==
  /\ asking[k].at = "store"
  /\ LET w == asking[k].worker IN
     \/ /\ HasUpdatedAt
        /\ profile' = IF Exists(w) THEN [profile EXCEPT ![w].face = asking[k].face] ELSE profile
        /\ Goes(k, [at |-> "load"])
     \/ UNCHANGED profile /\ Goes(k, NotAsking)
  /\ UNCHANGED <<faceClock, known, recognised>>

(* load_embeddings: the rows with a face are read, and once the session is *)
(* closed they are added; a face without a row is never taken away.        *)
(* Nothing ever clears the column active.                                  *)
LoadRead(k) ==
  /\ asking[k].at = "load"
  /\ LET stored == {w \in IdWorkers : Exists(w) /\ profile[w].face # NoFace} IN
     Goes(k, [at |-> "add", rows |-> [w \in stored |-> profile[w].face]])
  /\ UNCHANGED <<faceClock, profile, known, recognised>>

LoadAdded(k) ==
  /\ asking[k].at = "add"
  /\ LET rows == asking[k].rows IN
     known' = IF RecognitionOn
                THEN [w \in DOMAIN known \cup DOMAIN rows |->
                        IF w \in DOMAIN rows THEN rows[w] ELSE known[w]]
                ELSE known
  /\ Goes(k, NotAsking)
  /\ UNCHANGED <<faceClock, profile, recognised>>

-----------------------------------------------------------------------------
(* The registry, none of which tells the recogniser.  An update carries    *)
(* every field, so one built from a profile read without its embedding     *)
(* wipes the stored face.                                                  *)
Upsert(w) ==
  /\ WorkerTables
  /\ \E f \in {NoFace, profile[w].face}, s \in {"active", "inactive"} :
       profile' = [profile EXCEPT ![w] = [status |-> s, face |-> f, risk |-> @.risk]]
  /\ UNCHANGED <<faceClock, known, asking, recognised>>

(* anonymize_worker; delete_worker_data without hard_delete is the same    *)
Anonymize(w) ==
  /\ WorkerTables /\ Exists(w)
  /\ profile' = [profile EXCEPT ![w] = [NoProfile EXCEPT !.status = "anonymized"]]
  /\ UNCHANGED <<faceClock, known, asking, recognised>>

HardDelete(w) ==
  /\ WorkerTables /\ Exists(w)
  /\ profile' = [profile EXCEPT ![w] = NoProfile]
  /\ UNCHANGED <<faceClock, known, asking, recognised>>

(* bulk_update_risk_levels: one transaction per worker, any of which may   *)
(* fail; anonymised workers are left alone                                 *)
BulkRisk ==
  /\ WorkerTables
  /\ \E done \in SUBSET IdWorkers, level \in RiskLevels :
       profile' = [w \in IdWorkers |->
                     IF w \in done /\ profile[w].status \notin {"none", "anonymized"}
                       THEN [profile[w] EXCEPT !.risk = level] ELSE profile[w]]
  /\ UNCHANGED <<faceClock, known, asking, recognised>>

-----------------------------------------------------------------------------
(* identify *)
BestMatches(f) ==
  LET same == {w \in DOMAIN known : known[w] = f} IN
  IF same # {} THEN same ELSE {w \in DOMAIN known : {known[w], f} \in Lookalikes}

InWindow(c) == SelectSeq(lookups[c], LAMBDA t : faceClock - t < FaceWindow)
RateAllows(c) == Len(InWindow(c)) < FaceLimit

(* beyond the limit it raises, and still forgets the lookups gone by *)
IdentifyRefused(c) ==
  /\ RecognitionOn /\ DOMAIN known # {} /\ ~RateAllows(c)
  /\ lookups' = [lookups EXCEPT ![c] = InWindow(c)]
  /\ UNCHANGED <<faceClock, profile, known, asking, recent>>

(* a frame seen within the last second answers with the one match kept for *)
(* it, however many workers are on it and whoever has been enrolled since; *)
(* what identify returns has no reader in this repository                  *)
Cached(frame) == frame \in DOMAIN recent /\ faceClock - recent[frame].at < ResultFor
IdentifyCached(c, frame) ==
  /\ RecognitionOn /\ DOMAIN known # {} /\ RateAllows(c)
  /\ lookups' = [lookups EXCEPT ![c] = Append(InWindow(c), faceClock)]
  /\ Cached(frame)
  /\ UNCHANGED <<faceClock, profile, known, asking, recent>>

(* the matches of a frame's faces, the last of them cached *)
Kept(cache) == [x \in {y \in DOMAIN cache : faceClock - cache[y].at <= KeepFor} |-> cache[x]]
Remember(frame, match) ==
  [x \in DOMAIN recent \cup {frame} |->
     IF x = frame THEN [match |-> match, at |-> faceClock] ELSE recent[x]]
LastMatch(frame) ==
  LET matched == {i \in 1 .. Len(frame) : BestMatches(frame[i]) # {}} IN
  IF matched = {} THEN {} ELSE BestMatches(frame[CHOOSE i \in matched : \A j \in matched : j <= i])
Identify(c, frame) ==
  /\ RecognitionOn /\ DOMAIN known # {} /\ RateAllows(c)
  /\ lookups' = [lookups EXCEPT ![c] = Append(InWindow(c), faceClock)]
  /\ ~Cached(frame)
  /\ \/ LastMatch(frame) = {} /\ recent' = Kept(recent)
     \/ \E w \in LastMatch(frame) : recent' = Kept(Remember(frame, w))
     \/ UNCHANGED recent                               \* DeepFace failed
  /\ UNCHANGED <<faceClock, profile, known, asking>>

(* a restart of the process: the memory is empty until somebody enrols *)
RecogniserRestarts ==
  /\ known' = [w \in {} |-> NoFace]
  /\ asking' = [k \in WorkerCalls |-> NotAsking]
  /\ lookups' = [c \in FaceCameras |-> <<>>]
  /\ recent' = [x \in {} |-> NoFace]
  /\ UNCHANGED <<faceClock, profile>>

FaceTick ==
  /\ faceClock < LastFaceSecond
  /\ faceClock' = faceClock + 1
  /\ UNCHANGED <<profile, known, asking, recognised>>

Frames == {<<f>> : f \in Faces} \cup {<<f, g>> : f \in Faces, g \in Faces}
IdentityNext ==
  \/ \E k \in WorkerCalls :
       \/ \E w \in IdWorkers : CreateAsked(k, w) \/ EnrolLookedUp(k, w)
       \/ CreateInserted(k) \/ EnrolLearnt(k) \/ EnrolStored(k)
       \/ LoadRead(k) \/ LoadAdded(k)
  \/ \E w \in IdWorkers : Upsert(w) \/ Anonymize(w) \/ HardDelete(w)
  \/ BulkRisk
  \/ \E c \in FaceCameras :
       IdentifyRefused(c) \/ \E frame \in Frames : IdentifyCached(c, frame) \/ Identify(c, frame)
  \/ RecogniserRestarts
  \/ FaceTick
IdentitySpec == IdentityInit /\ [][IdentityNext]_identityVars
=============================================================================
