----------------------------- MODULE FrameProofs -----------------------------
(***************************************************************************)
(* Proofs about the frame path (FramePath), for every value of the         *)
(* constants: the proximity alerts and the fatigue alerts, whatever the    *)
(* camera sees, whichever stages raise and however the zones change.       *)
(***************************************************************************)
EXTENDS FramePath, RecursionFacts, SequenceTheorems, TLAPS

-----------------------------------------------------------------------------
(* Proximity.  For every pair, the caller's last alert is as old as the    *)
(* engine's stamp, which is young while the pair is close; and a pair that *)
(* is critical has been told of as CRITICAL at that stamp, or the stamp is *)
(* older than its being critical, so that it runs out first.               *)
PairInv(p) ==
  /\ told[p].any = since[p]
  /\ range[p] \in {"warning", "critical"} => since[p] < Debounce
  /\ critical[p] # 0 => range[p] = "critical"
  /\ range[p] = "critical" => told[p].critical = since[p] \/ critical[p] < since[p]

NearInv ==
  /\ since \in [Pairs -> 0..Debounce] /\ critical \in [Pairs -> 0..Debounce]
  /\ told \in [Pairs -> [any : 0..Debounce, critical : 0..Debounce]]
  /\ \A p \in Pairs : PairInv(p)

LEMMA NearStarts == FrameInit => NearInv
  BY DebounceAssumption DEF FrameInit, Near!ProximityInit, NearInv, PairInv

LEMMA OlderIs ==
  ASSUME NEW age \in 0..Debounce, NEW dt \in 1..MaxGap
  PROVE  /\ Near!Older(age, dt) \in 1..Debounce
         /\ Near!Older(age, dt) # Debounce => Near!Older(age, dt) = age + dt
         /\ Near!Older(age, dt) = Debounce => age + dt >= Debounce
  BY DebounceAssumption DEF Near!Older

(* What a frame does to the fields of a pair, by whether it raises. *)
LEMMA PairsAfter ==
  ASSUME NearInv, NEW dt \in 1..MaxGap, NEW shot, Frame(dt, shot), NEW p \in Pairs
  PROVE  LET r == Ranges(shot)[p]
             due == Near!Older(since[p], dt) = Debounce /\ r \in {"warning", "critical"}
         IN  /\ range'[p] = r
             /\ since'[p] = IF due THEN 0 ELSE Near!Older(since[p], dt)
             /\ critical'[p] = IF r = "critical" /\ range[p] = "critical" THEN Near!Older(critical[p], dt) ELSE 0
             /\ told'[p].any = IF due THEN 0 ELSE Near!Older(told[p].any, dt)
             /\ told'[p].critical = IF due /\ r = "critical" THEN 0 ELSE Near!Older(told[p].critical, dt)
             /\ since' \in [Pairs -> 0..Debounce] /\ critical' \in [Pairs -> 0..Debounce]
             /\ told' \in [Pairs -> [any : 0..Debounce, critical : 0..Debounce]]
<1> DEFINE ranges == Ranges(shot)
           due(q) == Near!Older(since[q], dt) = Debounce /\ ranges[q] \in {"warning", "critical"}
           levels(q) == {a.level : a \in {b \in alerts' : b.pair = q}}
<1>1. /\ range' = ranges
      /\ critical' = [q \in Pairs |-> IF ranges[q] = "critical" /\ range[q] = "critical"
                                      THEN Near!Older(critical[q], dt) ELSE 0]
      /\ told' = [q \in Pairs |->
                   [any      |-> IF levels(q) # {} THEN 0 ELSE Near!Older(told[q].any, dt),
                    critical |-> IF "CRITICAL" \in levels(q) THEN 0 ELSE Near!Older(told[q].critical, dt)]]
  BY DEF Frame, Near!Observe
<1>2. /\ since' = [q \in Pairs |-> IF due(q) THEN 0 ELSE Near!Older(since[q], dt)]
      /\ alerts' = {[pair |-> q, level |-> Near!Level(ranges[q])] : q \in {x \in Pairs : due(x)}}
  <2>1. CASE \A q \in Pairs : ranges[q] = "absent"
    <3>1. since' = [q \in Pairs |-> Near!Older(since[q], dt)] /\ alerts' = {}
      BY <2>1 DEF Frame, ProximityStage, Near!NotEvaluated
    <3>2. \A q \in Pairs : ~due(q)
      BY <2>1
    <3> QED
      BY <3>1, <3>2
  <2>2. CASE ~\A q \in Pairs : ranges[q] = "absent"
    BY <2>2 DEF Frame, ProximityStage, Near!Evaluate, Near!Raised
  <2> QED
    BY <2>1, <2>2
<1> HIDE DEF ranges
<1>3. ASSUME NEW q \in Pairs
      PROVE  /\ levels(q) # {} <=> due(q)
             /\ "CRITICAL" \in levels(q) <=> due(q) /\ ranges[q] = "critical"
  <2>1. \A a \in alerts' : a.pair = q => due(q) /\ a.level = Near!Level(ranges[q])
    BY <1>2
  <2>2. due(q) => [pair |-> q, level |-> Near!Level(ranges[q])] \in alerts'
    BY <1>2
  <2>3. due(q) => levels(q) = {Near!Level(ranges[q])}
    BY <2>1, <2>2
  <2>4. ~due(q) => levels(q) = {}
    BY <2>1
  <2> QED
    BY <2>3, <2>4 DEF Near!Level
<1> HIDE DEF levels, due
<1>4. \A q \in Pairs : /\ since[q] \in 0..Debounce /\ critical[q] \in 0..Debounce
                       /\ told[q].any \in 0..Debounce /\ told[q].critical \in 0..Debounce
  BY DEF NearInv
<1>5. \A q \in Pairs : /\ Near!Older(since[q], dt) \in 0..Debounce /\ Near!Older(critical[q], dt) \in 0..Debounce
                       /\ Near!Older(told[q].any, dt) \in 0..Debounce
                       /\ Near!Older(told[q].critical, dt) \in 0..Debounce /\ 0 \in 0..Debounce
  BY <1>4, OlderIs, DebounceAssumption
<1>6. since' \in [Pairs -> 0..Debounce] /\ critical' \in [Pairs -> 0..Debounce]
  BY <1>1, <1>2, <1>5
<1>7. told' \in [Pairs -> [any : 0..Debounce, critical : 0..Debounce]]
  BY <1>1, <1>5
<1>8. /\ range'[p] = ranges[p]
      /\ since'[p] = IF due(p) THEN 0 ELSE Near!Older(since[p], dt)
      /\ critical'[p] = IF ranges[p] = "critical" /\ range[p] = "critical" THEN Near!Older(critical[p], dt) ELSE 0
  BY <1>1, <1>2
<1>9. /\ told'[p].any = IF due(p) THEN 0 ELSE Near!Older(told[p].any, dt)
      /\ told'[p].critical = IF due(p) /\ ranges[p] = "critical" THEN 0 ELSE Near!Older(told[p].critical, dt)
  BY <1>1, <1>3
<1> QED
  BY <1>6, <1>7, <1>8, <1>9 DEF due, ranges

LEMMA FrameKeepsNear ==
  ASSUME NearInv, NEW dt \in 1..MaxGap, NEW shot, Frame(dt, shot)
  PROVE  NearInv'
<1>1. ASSUME NEW p \in Pairs PROVE PairInv(p)'
  <2> DEFINE r == Ranges(shot)[p]
             due == Near!Older(since[p], dt) = Debounce /\ r \in {"warning", "critical"}
  <2>1. /\ range'[p] = r
        /\ since'[p] = IF due THEN 0 ELSE Near!Older(since[p], dt)
        /\ critical'[p] = IF r = "critical" /\ range[p] = "critical" THEN Near!Older(critical[p], dt) ELSE 0
        /\ told'[p].any = IF due THEN 0 ELSE Near!Older(told[p].any, dt)
        /\ told'[p].critical = IF due /\ r = "critical" THEN 0 ELSE Near!Older(told[p].critical, dt)
    BY PairsAfter
  <2> HIDE DEF r
  <2>2. /\ since[p] \in 0..Debounce /\ critical[p] \in 0..Debounce
        /\ told[p].any \in 0..Debounce /\ told[p].critical \in 0..Debounce
    BY DEF NearInv
  <2>3. PairInv(p)
    BY DEF NearInv
  <2>o. PICK o \in 1..Debounce : o = Near!Older(since[p], dt) /\ (o # Debounce => o = since[p] + dt)
    BY <2>2, OlderIs
  <2>4. since'[p] \in 0..Debounce /\ told'[p].any = since'[p]
    BY <2>1, <2>2, <2>3, OlderIs, DebounceAssumption DEF PairInv
  <2>5. r \in {"warning", "critical"} => since'[p] < Debounce
    BY <2>1, <2>o, DebounceAssumption
  <2>6. critical'[p] # 0 => r = "critical"
    BY <2>1
  <2>7. r = "critical" => told'[p].critical = since'[p] \/ critical'[p] < since'[p]
    <3> SUFFICES ASSUME r = "critical", ~due PROVE told'[p].critical = since'[p] \/ critical'[p] < since'[p]
      BY <2>1
    <3>1. since'[p] = o /\ o # Debounce /\ o = since[p] + dt
      BY <2>1, <2>o
    <3>2. CASE range[p] # "critical"
      <4>1. critical'[p] = 0
        BY <2>1, <3>2
      <4> QED
        BY <3>1, <4>1
    <3>3. CASE range[p] = "critical" /\ told[p].critical = since[p]
      BY <2>1, <2>o, <3>1, <3>3
    <3>4. CASE range[p] = "critical" /\ critical[p] < since[p]
      <4>1. critical'[p] = Near!Older(critical[p], dt)
        BY <2>1, <3>4
      <4>2. PICK c \in 1..Debounce : c = critical'[p] /\ (c = Debounce => critical[p] + dt >= Debounce)
                                    /\ (c # Debounce => c = critical[p] + dt)
        BY <2>2, <4>1, OlderIs
      <4> QED
        BY <2>2, <3>1, <3>4, <4>2, DebounceAssumption
    <3> QED
      BY <2>3, <3>2, <3>3, <3>4 DEF PairInv
  <2> QED
    BY <2>1, <2>4, <2>5, <2>6, <2>7 DEF PairInv
<1>2. /\ since' \in [Pairs -> 0..Debounce] /\ critical' \in [Pairs -> 0..Debounce]
      /\ told' \in [Pairs -> [any : 0..Debounce, critical : 0..Debounce]]
  <2>1. CASE Pairs = {}
    BY <2>1 DEF Frame, ProximityStage, Near!NotEvaluated, Near!Observe
  <2>2. CASE Pairs # {}
    BY <2>2, PairsAfter
  <2> QED
    BY <2>1, <2>2
<1> QED
  BY <1>1, <1>2 DEF NearInv

LEMMA NearStep == NearInv /\ [FrameNext]_pathVars => NearInv'
<1> SUFFICES ASSUME NearInv, [FrameNext]_pathVars PROVE NearInv'
  OBVIOUS
<1>1. CASE UNCHANGED <<since, range, critical, told>>
  BY <1>1 DEF NearInv, PairInv
<1>2. ASSUME NEW dt \in 1..MaxGap, NEW shot \in scene, Frame(dt, shot) PROVE NearInv'
  BY <1>2, FrameKeepsNear
<1>3. CASE Rezone \/ UNCHANGED pathVars
  BY <1>1, <1>3 DEF Rezone, pathVars, frameVars
<1> QED
  BY <1>2, <1>3 DEF FrameNext

(* For any pairs, debounce, gaps between frames and failing stages: a pair *)
(* that is close has been told of within the debounce, and as CRITICAL     *)
(* when it has been critical that long (proximity_engine.py, evaluate).    *)
THEOREM CloseIsAlwaysTold == FrameSpec => []CloseIsTold
<1>1. NearInv => CloseIsTold
  BY DebounceAssumption DEF NearInv, PairInv, CloseIsTold, Near!CloseIsTold
<1> QED
  BY NearStarts, NearStep, <1>1, PTL DEF FrameSpec

-----------------------------------------------------------------------------
(* Fatigue.  The samples that end in a run of drooping ones were taken     *)
(* after the head was last seen up: an upright sample ends every run, and  *)
(* samples age as fast as that sighting does, up to the age at which both  *)
(* stop.                                                                   *)
Drooping(s, i) == \A j \in i..Len(s) : s[j].droop
Sample == [age : 0..HistoryTime + 1, droop : BOOLEAN]
RunsAreYounger(s, up) == \A i \in DOMAIN s : Drooping(s, i) => s[i].age < up \/ up = HistoryTime + 1

FatigueInv ==
  /\ droops \in Seq(Sample) /\ upright \in 0..HistoryTime + 1
  /\ RunsAreYounger(droops, upright)
  /\ FatigueIsSustained

LEMMA FatigueStarts == FrameInit => FatigueInv
<1> SUFFICES ASSUME FrameInit PROVE FatigueInv
  OBVIOUS
<1>1. droops = << >> /\ upright = HistoryTime + 1 /\ hazards = << >>
  BY DEF FrameInit, Pose!PoseInit
<1>2. droops \in Seq(Sample) /\ DOMAIN droops = {} /\ DOMAIN hazards = {}
  BY <1>1
<1> QED
  BY <1>1, <1>2, PoseAssumption DEF FatigueInv, RunsAreYounger, FatigueIsSustained, Pose!FatigueIsSustained

LEMMA UpToIs ==
  ASSUME NEW limit \in Nat, NEW n \in Nat
  PROVE  /\ Pose!UpTo(limit, n) \in 0..limit
         /\ Pose!UpTo(limit, n) # limit => Pose!UpTo(limit, n) = n
         /\ Pose!UpTo(limit, n) = limit => n >= limit
  BY DEF Pose!UpTo

(* Ageing keeps the run and its distance to the last upright sample. *)
LEMMA AgedRuns ==
  ASSUME NEW s \in Seq(Sample), NEW up \in 0..HistoryTime + 1, RunsAreYounger(s, up), NEW dt \in 1..MaxGap
  PROVE  /\ Pose!Aged(s, dt) \in Seq(Sample) /\ Len(Pose!Aged(s, dt)) = Len(s)
         /\ Pose!UpTo(HistoryTime + 1, up + dt) \in 1..HistoryTime + 1
         /\ RunsAreYounger(Pose!Aged(s, dt), Pose!UpTo(HistoryTime + 1, up + dt))
<1> DEFINE a == Pose!Aged(s, dt)
           later == Pose!UpTo(HistoryTime + 1, up + dt)
           aged(i) == [s[i] EXCEPT !.age = Pose!UpTo(HistoryTime + 1, s[i].age + dt)]
<1>h. HistoryTime + 1 \in Nat /\ HistoryTime + 1 >= 1
  BY PoseAssumption
<1>1. Len(s) \in Nat /\ DOMAIN s = 1..Len(s) /\ \A i \in 1..Len(s) : s[i] \in Sample
  BY LenProperties, ElementOfSeq
<1>2. a = [i \in 1..Len(s) |-> aged(i)]
  BY <1>1 DEF Pose!Aged
<1>3. ASSUME NEW i \in 1..Len(s)
      PROVE  /\ aged(i) \in Sample /\ aged(i).droop = s[i].droop
             /\ aged(i).age = Pose!UpTo(HistoryTime + 1, s[i].age + dt)
  <2>1. s[i] \in Sample /\ s[i].age + dt \in Nat
    BY <1>1 DEF Sample
  <2>2. Pose!UpTo(HistoryTime + 1, s[i].age + dt) \in 0..HistoryTime + 1
    BY <1>h, <2>1, UpToIs
  <2> QED
    BY <2>1, <2>2 DEF Sample
<1> HIDE DEF aged
<1>4. a \in Seq(Sample) /\ Len(a) = Len(s) /\ \A i \in 1..Len(s) : a[i] = aged(i)
  BY <1>1, <1>2, <1>3, IsASeq
<1>5. up + dt \in Nat /\ up + dt >= 1
  OBVIOUS
<1>6. later \in 1..HistoryTime + 1 /\ (later # HistoryTime + 1 => later = up + dt)
  <2>1. PICK n \in Nat : n = up + dt
    BY <1>5
  <2>2. PICK g : g = later
    OBVIOUS
  <2>3. g \in 0..HistoryTime + 1 /\ (g # HistoryTime + 1 => g = n)
    BY <1>h, <2>1, <2>2, UpToIs
  <2>4. g \in 1..HistoryTime + 1
    BY <1>h, <1>5, <2>1, <2>3
  <2> QED
    BY <2>1, <2>2, <2>3, <2>4
<1>7. ASSUME NEW i \in DOMAIN a, Drooping(a, i) PROVE a[i].age < later \/ later = HistoryTime + 1
  <2>1. i \in 1..Len(s)
    BY <1>1, <1>2
  <2>2. Drooping(s, i)
    BY <1>1, <1>3, <1>4, <1>7, <2>1 DEF Drooping
  <2>3. s[i].age < up \/ up = HistoryTime + 1
    BY <1>1, <2>1, <2>2 DEF RunsAreYounger
  <2>4. s[i].age \in 0..HistoryTime + 1 /\ s[i].age + dt \in Nat
    BY <1>1, <2>1 DEF Sample
  <2>5. PICK g \in 0..HistoryTime + 1 : g = a[i].age /\ (g # HistoryTime + 1 => g = s[i].age + dt)
                                       /\ (g = HistoryTime + 1 => s[i].age + dt >= HistoryTime + 1)
    BY <1>h, <1>3, <1>4, <2>1, <2>4, UpToIs
  <2>6. CASE later = HistoryTime + 1
    BY <2>6
  <2>7. CASE later # HistoryTime + 1
    <3>1. later = up + dt /\ later < HistoryTime + 1 /\ up # HistoryTime + 1
      BY <1>6, <2>7, PoseAssumption
    <3> QED
      BY <2>3, <2>4, <2>5, <3>1, PoseAssumption
  <2> QED
    BY <2>6, <2>7
<1> QED
  BY <1>4, <1>6, <1>7 DEF RunsAreYounger

(* Samples that have grown too old leave from the front. *)
LEMMA RecentRuns ==
  ASSUME NEW s \in Seq(Sample), NEW up \in 0..HistoryTime + 1, RunsAreYounger(s, up), NEW limit
  PROVE  Pose!Recent(s, limit) \in Seq(Sample) /\ RunsAreYounger(Pose!Recent(s, limit), up)
<1> DEFINE young == {i \in DOMAIN s : s[i].age <= limit}
           first == CHOOSE i \in young : \A j \in young : i <= j
           t == SubSeq(s, first, Len(s))
<1>1. Len(s) \in Nat /\ DOMAIN s = 1..Len(s)
  BY LenProperties
<1>2. CASE young = {}
  <2>1. Pose!Recent(s, limit) = << >>
    BY <1>2 DEF Pose!Recent
  <2> QED
    BY <2>1 DEF RunsAreYounger
<1>3. CASE young # {}
  <2>1. Pose!Recent(s, limit) = t
    BY <1>3 DEF Pose!Recent
  <2>2. young \subseteq Nat
    BY <1>1
  <2>3. first \in young
    BY <1>3, <2>2, FirstOf
  <2>4. first \in 1..Len(s)
    BY <1>1, <2>3
  <2> HIDE DEF first
  <2>5. /\ t \in Seq(Sample) /\ Len(t) = Len(s) - first + 1
        /\ \A i \in 1..Len(t) : t[i] = s[first + i - 1]
    BY <1>1, <2>4, SubSeqProperties
  <2> HIDE DEF t
  <2>6. Len(t) \in Nat /\ DOMAIN t = 1..Len(t)
    BY <2>5, LenProperties
  <2>7. ASSUME NEW i \in DOMAIN t, Drooping(t, i) PROVE t[i].age < up \/ up = HistoryTime + 1
    <3> DEFINE k == first + i - 1
    <3>1. i \in 1..Len(t) /\ k \in DOMAIN s /\ t[i] = s[k]
      BY <1>1, <2>4, <2>5, <2>6
    <3>2. ASSUME NEW j \in k..Len(s) PROVE s[j].droop
      <4>1. j - first + 1 \in i..Len(t) /\ j - first + 1 \in 1..Len(t) /\ first + (j - first + 1) - 1 = j
        BY <1>1, <2>4, <2>5, <3>1
      <4>2. t[j - first + 1].droop
        BY <2>7, <4>1 DEF Drooping
      <4> QED
        BY <2>5, <4>1, <4>2
    <3>3. Drooping(s, k)
      BY <3>2 DEF Drooping
    <3> QED
      BY <3>1, <3>3 DEF RunsAreYounger
  <2> QED
    BY <2>1, <2>5, <2>7 DEF RunsAreYounger
<1> QED
  BY <1>2, <1>3

(* A sample taken now ends the runs, or prolongs them by itself. *)
LEMMA SampleRuns ==
  ASSUME NEW s \in Seq(Sample), NEW up \in 1..HistoryTime + 1, RunsAreYounger(s, up), NEW d \in BOOLEAN
  PROVE  LET t == Append(s, [age |-> 0, droop |-> d])
         IN  t \in Seq(Sample) /\ RunsAreYounger(t, up) /\ (~d => \A i \in DOMAIN t : ~Drooping(t, i))
<1> DEFINE new == [age |-> 0, droop |-> d]
           t == Append(s, new)
           n == Len(s) + 1
<1>1. new \in Sample /\ new.age = 0 /\ new.droop = d
  BY PoseAssumption DEF Sample
<1> HIDE DEF new
<1>2. Len(s) \in Nat /\ DOMAIN s = 1..Len(s)
  BY LenProperties
<1>3. t \in Seq(Sample) /\ Len(t) = n /\ t[n] = new /\ \A i \in 1..Len(s) : t[i] = s[i]
  BY <1>1, <1>2, AppendProperties
<1>4. DOMAIN t = 1..n
  BY <1>3, LenProperties
<1> HIDE DEF t
<1>5. ASSUME ~d, NEW i \in DOMAIN t PROVE ~Drooping(t, i)
  BY <1>1, <1>2, <1>3, <1>4, <1>5 DEF Drooping
<1>6. ASSUME NEW i \in DOMAIN t, Drooping(t, i) PROVE t[i].age < up \/ up = HistoryTime + 1
  <2>1. CASE i = n
    BY <1>1, <1>3, <2>1
  <2>2. CASE i # n
    <3>1. i \in 1..Len(s) /\ \A j \in i..Len(s) : j \in i..Len(t) /\ t[j] = s[j]
      BY <1>2, <1>3, <1>4, <2>2
    <3>2. Drooping(s, i)
      BY <1>6, <3>1 DEF Drooping
    <3> QED
      BY <1>2, <1>3, <3>1, <3>2 DEF RunsAreYounger
  <2> QED
    BY <2>1, <2>2
<1> QED
  BY <1>3, <1>5, <1>6 DEF RunsAreYounger, t, new

(* The drooping time is the age of a sample that begins a run. *)
LEMMA DroopingForIs ==
  ASSUME NEW s \in Seq(Sample)
  PROVE  Pose!DroopingFor(s) = 0 \/ \E i \in DOMAIN s : Drooping(s, i) /\ Pose!DroopingFor(s) = s[i].age
<1> DEFINE run == {i \in DOMAIN s : \A j \in i..Len(s) : s[j].droop}
           first == CHOOSE i \in run : \A j \in run : i <= j
<1>1. CASE run = {}
  BY <1>1 DEF Pose!DroopingFor
<1>2. CASE run # {}
  <2>1. run \subseteq Nat
    BY LenProperties
  <2>2. first \in run
    BY <1>2, <2>1, FirstOf
  <2>3. Pose!DroopingFor(s) = s[first].age
    BY <1>2 DEF Pose!DroopingFor
  <2> QED
    BY <2>2, <2>3 DEF Drooping
<1> QED
  BY <1>1, <1>2

LEMMA EvaluatedFatigue ==
  ASSUME FatigueInv, NEW dt \in 1..MaxGap, NEW pose, NEW violating, Pose!Evaluate(dt, pose, violating)
  PROVE  FatigueInv'
<1> DEFINE aged == Pose!Aged(droops, dt)
           later == Pose!UpTo(HistoryTime + 1, upright + dt)
           d == Pose!Droops(dt, pose)
           h == pose.head = "down"
<1>1. /\ droops' = d /\ upright' = IF pose.head = "up" THEN 0 ELSE later
      /\ "fatigue_posture" \in DOMAIN hazards' => Pose!Fatigue(dt, pose)
  BY DEF Pose!Evaluate
<1>2. aged \in Seq(Sample) /\ later \in 1..HistoryTime + 1 /\ RunsAreYounger(aged, later)
  BY AgedRuns DEF FatigueInv
<1> HIDE DEF aged, later
<1>3. CASE pose.head = "hidden"
  <2>1. droops' = aged /\ upright' = later /\ "fatigue_posture" \notin DOMAIN hazards'
    BY <1>1, <1>3 DEF Pose!Droops, Pose!Fatigue, aged
  <2> QED
    BY <1>2, <2>1 DEF FatigueInv, FatigueIsSustained, Pose!FatigueIsSustained
<1>4. CASE pose.head # "hidden"
  <2> DEFINE recent == Pose!Recent(aged, HistoryTime)
  <2>1. recent \in Seq(Sample) /\ RunsAreYounger(recent, later)
    BY <1>2, RecentRuns
  <2>2. d = Append(recent, [age |-> 0, droop |-> h])
    BY <1>4 DEF Pose!Droops, aged
  <2> HIDE DEF recent
  <2>3. h \in BOOLEAN
    OBVIOUS
  <2> HIDE DEF h
  <2>4. d \in Seq(Sample) /\ RunsAreYounger(d, later) /\ (~h => \A i \in DOMAIN d : ~Drooping(d, i))
    BY <1>2, <2>1, <2>2, <2>3, SampleRuns
  <2>5. pose.head = "up" => ~h
    BY DEF h
  <2>6. upright' \in 0..HistoryTime + 1 /\ RunsAreYounger(d, upright')
    <3>1. CASE pose.head = "up"
      BY <1>1, <2>4, <2>5, <3>1, PoseAssumption DEF RunsAreYounger
    <3>2. CASE pose.head # "up"
      BY <1>1, <1>2, <2>4, <3>2
    <3> QED
      BY <3>1, <3>2
  <2>7. ASSUME "fatigue_posture" \in DOMAIN hazards' PROVE upright' > DroopTime
    <3>1. Pose!DroopingFor(d) >= DroopTime
      BY <1>1, <2>7 DEF Pose!Fatigue
    <3>2. PICK i \in DOMAIN d : Drooping(d, i) /\ Pose!DroopingFor(d) = d[i].age
      BY <2>4, <3>1, DroopingForIs, PoseAssumption
    <3>3. d[i].age \in 0..HistoryTime + 1
      <4>1. PICK t \in Seq(Sample) : t = d
        BY <2>4
      <4>2. t[i] \in Sample
        BY <3>2, <4>1, LenProperties, ElementOfSeq
      <4> QED
        BY <4>1, <4>2 DEF Sample
    <3>4. d[i].age < upright' \/ upright' = HistoryTime + 1
      BY <2>6, <3>2 DEF RunsAreYounger
    <3> QED
      BY <2>6, <3>1, <3>2, <3>3, <3>4, PoseAssumption
  <2> QED
    BY <1>1, <2>4, <2>6, <2>7 DEF FatigueInv, FatigueIsSustained, Pose!FatigueIsSustained
<1> QED
  BY <1>3, <1>4

LEMMA FatigueStep == FatigueInv /\ [FrameNext]_pathVars => FatigueInv'
<1> SUFFICES ASSUME FatigueInv, [FrameNext]_pathVars PROVE FatigueInv'
  OBVIOUS
<1>1. ASSUME NEW dt \in 1..MaxGap, NEW shot \in scene, Frame(dt, shot) PROVE FatigueInv'
  <2>1. CASE PoseFound(shot)
    BY <1>1, <2>1, EvaluatedFatigue DEF Frame, PoseStage
  <2>2. CASE ~PoseFound(shot)
    <3> DEFINE later == Pose!UpTo(HistoryTime + 1, upright + dt)
    <3>1. droops' = Pose!Aged(droops, dt) /\ upright' = later /\ hazards' = << >>
      BY <1>1, <2>2 DEF Frame, PoseStage, Pose!NotEvaluated
    <3>2. droops' \in Seq(Sample) /\ upright' \in 1..HistoryTime + 1 /\ RunsAreYounger(droops', upright')
      BY <3>1, AgedRuns DEF FatigueInv
    <3>3. DOMAIN hazards' = {}
      BY <3>1
    <3> QED
      BY <3>2, <3>3 DEF FatigueInv, FatigueIsSustained, Pose!FatigueIsSustained
  <2> QED
    BY <2>1, <2>2
<1>2. CASE Rezone \/ UNCHANGED pathVars
  <2>1. UNCHANGED <<droops, upright, hazards>>
    BY <1>2 DEF Rezone, pathVars, frameVars
  <2> QED
    BY <2>1 DEF FatigueInv, FatigueIsSustained, Pose!FatigueIsSustained
<1> QED
  BY <1>1, <1>2 DEF FrameNext

(* A fatigue alert is never raised on a head that was up within the        *)
(* persistence time, whatever the samples, the frames without a visible    *)
(* head and the failing stages (pose_alert_engine.py, FatigueDetector).    *)
THEOREM FatigueIsAlwaysSustained == FrameSpec => []FatigueIsSustained
<1>1. FatigueInv => FatigueIsSustained
  BY DEF FatigueInv
<1> QED
  BY FatigueStarts, FatigueStep, <1>1, PTL DEF FrameSpec

-----------------------------------------------------------------------------
(* The zones are kept three times.  Every copy is a dictionary: no id      *)
(* twice.  A reload that fails puts back what was there, so the copies may *)
(* hold more than the pipeline lists, never less.                          *)
AllZones == Zone \cup UNION {{f.defs[i].zone : i \in DOMAIN f.defs} : f \in {f \in ZoneFiles : f.read = "list"}}
Distinct(d) == \A i, j \in DOMAIN d : d[i].id = d[j].id => i = j

WatchedInv ==
  /\ zones \in Seq(AllZones) /\ trackerZones \in Seq(AllZones) /\ heatZones \in Seq(AllZones)
  /\ Distinct(zones)
  /\ ZonesWatched

LEMMA PutIs ==
  ASSUME NEW U, NEW d \in Seq(U), NEW z \in U
  PROVE  /\ Registry!Put(d, z) \in Seq(U)
         /\ Registry!Zones(Registry!Put(d, z)) = {y \in Registry!Zones(d) : y.id # z.id} \cup {z}
         /\ Distinct(d) => Distinct(Registry!Put(d, z))
<1> DEFINE p == Registry!Put(d, z)
<1>1. Len(d) \in Nat /\ DOMAIN d = 1..Len(d) /\ \A i \in 1..Len(d) : d[i] \in U
  BY LenProperties, ElementOfSeq
<1>2. CASE z.id \in Registry!Ids(d)
  <2>1. p = [i \in 1..Len(d) |-> IF d[i].id = z.id THEN z ELSE d[i]]
    BY <1>1, <1>2 DEF Registry!Put
  <2>2. p \in Seq(U) /\ DOMAIN p = 1..Len(d) /\ \A i \in 1..Len(d) : p[i] = IF d[i].id = z.id THEN z ELSE d[i]
    BY <1>1, <2>1, IsASeq
  <2>3. \E i \in 1..Len(d) : d[i].id = z.id
    BY <1>1, <1>2 DEF Registry!Ids
  <2> HIDE DEF p
  <2>4. Registry!Zones(p) = {y \in Registry!Zones(d) : y.id # z.id} \cup {z}
    BY <1>1, <2>2, <2>3 DEF Registry!Zones
  <2>5. Distinct(d) => Distinct(p)
    BY <1>1, <2>2 DEF Distinct
  <2> QED
    BY <2>2, <2>4, <2>5 DEF p
<1>3. CASE z.id \notin Registry!Ids(d)
  <2>1. p = Append(d, z)
    BY <1>3 DEF Registry!Put
  <2>2. p \in Seq(U) /\ DOMAIN p = 1..Len(d) + 1 /\ p[Len(d) + 1] = z /\ \A i \in 1..Len(d) : p[i] = d[i]
    BY <1>1, <2>1, AppendProperties, LenProperties
  <2>3. \A i \in 1..Len(d) : d[i].id # z.id
    BY <1>1, <1>3 DEF Registry!Ids
  <2> HIDE DEF p
  <2>4. \A i \in DOMAIN p : i \in 1..Len(d) \/ i = Len(d) + 1
    BY <1>1, <2>2
  <2>5. 1..Len(d) \subseteq DOMAIN p /\ Len(d) + 1 \in DOMAIN p
    BY <1>1, <2>2
  <2>6. Registry!Zones(p) = {y \in Registry!Zones(d) : y.id # z.id} \cup {z}
    BY <1>1, <2>2, <2>3, <2>4, <2>5 DEF Registry!Zones
  <2>7. Distinct(d) => Distinct(p)
    BY <1>1, <2>2, <2>3, <2>4 DEF Distinct
  <2> QED
    BY <2>2, <2>6, <2>7 DEF p
<1> QED
  BY <1>2, <1>3

LEMMA PutAllSteps ==
  ASSUME NEW U, NEW d \in Seq(U), NEW e \in Seq(U)
  PROVE  \E g \in [0..Len(e) -> Seq(U)] :
           /\ g[0] = d /\ \A n \in 1..Len(e) : g[n] = Registry!Put(g[n - 1], e[n])
           /\ Registry!PutAll(d, e) = g[Len(e)]
<1> DEFINE N == Len(e)
           Steps(h) == h = [n \in 0..N |-> IF n = 0 THEN d ELSE Registry!Put(h[n - 1], e[n])]
           put == CHOOSE h : Steps(h)
           step == [p \in (1..N) \X Seq(U) |-> Registry!Put(p[2], e[p[1]])]
<1>1. N \in Nat /\ \A n \in 1..N : e[n] \in U
  BY LenProperties, ElementOfSeq
<1>2. step \in [(1..N) \X Seq(U) -> Seq(U)]
  BY <1>1, PutIs
<1>3. \A n \in 1..N, s \in Seq(U) : step[<<n, s>>] = Registry!Put(s, e[n])
  OBVIOUS
<1> HIDE DEF step
<1>4. PICK g : Solution(N, Seq(U), d, step, g)
  BY <1>1, <1>2, Recursion
<1>10. g \in [0..N -> Seq(U)] /\ g[0] = d
  BY <1>4 DEF Solution
<1>5. ASSUME NEW n \in 1..N PROVE g[n] = Registry!Put(g[n - 1], e[n])
  <2>1. n - 1 \in 0..N /\ g[n] = step[<<n, g[n - 1]>>]
    BY <1>1, <1>4 DEF Solution
  <2>2. PICK s \in Seq(U) : s = g[n - 1]
    BY <1>10, <2>1
  <2> QED
    BY <1>3, <2>1, <2>2
<1>6. Steps(g)
  BY <1>1, <1>5, <1>10
<1>7. Steps(put)
  BY <1>6
<1>8. Registry!PutAll(d, e) = put[N]
  BY DEF Registry!PutAll
<1> HIDE DEF put
<1>9. put[N] = g[N]
  <2>1. put[0] = d
    BY <1>1, <1>7
  <2>2. ASSUME NEW n \in 1..N, put[n - 1] \in Seq(U) PROVE put[n] = step[<<n, put[n - 1]>>]
    <3>1. put[n] = Registry!Put(put[n - 1], e[n])
      BY <1>1, <1>7
    <3> QED
      BY <1>3, <2>2, <3>1
  <2>3. \A n \in 0..N : put[n] = g[n]
    BY <1>4, <2>1, <2>2 DEF Solution
  <2> QED
    BY <1>1, <2>3
<1> QED
  BY <1>5, <1>8, <1>9, <1>10

LEMMA PutAllIs ==
  ASSUME NEW U, NEW d \in Seq(U), NEW e \in Seq(U)
  PROVE  /\ Registry!PutAll(d, e) \in Seq(U)
         /\ Distinct(e) => Registry!Zones(e) \subseteq Registry!Zones(Registry!PutAll(d, e))
<1> DEFINE N == Len(e)
<1>1. N \in Nat /\ DOMAIN e = 1..N /\ \A n \in 1..N : e[n] \in U
  BY LenProperties, ElementOfSeq
<1>2. PICK g \in [0..N -> Seq(U)] :
        /\ g[0] = d /\ \A n \in 1..N : g[n] = Registry!Put(g[n - 1], e[n])
        /\ Registry!PutAll(d, e) = g[N]
  BY PutAllSteps
<1>3. ASSUME Distinct(e) PROVE Registry!Zones(e) \subseteq Registry!Zones(g[N])
  <2> DEFINE P == {n \in 0..N : \A k \in 1..n : e[k] \in Registry!Zones(g[n])}
  <2>1. 0 \in P
    BY <1>1
  <2>2. ASSUME NEW n \in 0..N - 1, n \in P PROVE n + 1 \in P
    <3>1. n \in Nat /\ n + 1 \in 1..N /\ (n + 1) - 1 = n /\ g[n] \in Seq(U) /\ e[n + 1] \in U
      BY <1>1
    <3>4. g[n + 1] = Registry!Put(g[n], e[n + 1])
      BY <1>2, <3>1
    <3>2. Registry!Zones(g[n + 1]) = {y \in Registry!Zones(g[n]) : y.id # e[n + 1].id} \cup {e[n + 1]}
      <4>1. PICK s \in Seq(U), z \in U : s = g[n] /\ z = e[n + 1]
        BY <3>1
      <4>2. Registry!Zones(Registry!Put(s, z)) = {y \in Registry!Zones(s) : y.id # z.id} \cup {z}
        BY PutIs
      <4> QED
        BY <3>4, <4>1, <4>2
    <3>3. ASSUME NEW k \in 1..n PROVE e[k].id # e[n + 1].id
      <4>1. k \in DOMAIN e /\ n + 1 \in DOMAIN e /\ k # n + 1
        BY <1>1, <3>1
      <4> QED
        BY <1>3, <4>1 DEF Distinct
    <3>5. ASSUME NEW k \in 1..n + 1 PROVE e[k] \in Registry!Zones(g[n + 1])
      <4>1. k \in 1..n \/ k = n + 1
        BY <3>1
      <4> QED
        BY <2>2, <3>2, <3>3, <4>1
    <3> QED
      BY <3>1, <3>5
  <2> HIDE DEF P
  <2>3. \A n \in 0..N : n \in P
    BY <1>1, <2>1, <2>2, StepByStep
  <2>4. N \in P
    BY <1>1, <2>3
  <2> QED
    BY <1>1, <2>4 DEF P, Registry!Zones
<1> QED
  BY <1>1, <1>2, <1>3

LEMMA WithoutSteps ==
  ASSUME NEW U, NEW d \in Seq(U), NEW ids
  PROVE  \E g \in [0..Len(d) -> Seq(U)] :
           /\ g[0] = << >>
           /\ \A n \in 1..Len(d) : g[n] = IF d[n].id \in ids THEN g[n - 1] ELSE Append(g[n - 1], d[n])
           /\ Registry!Without(d, ids) = g[Len(d)]
<1> DEFINE N == Len(d)
           Step(s, n) == IF d[n].id \in ids THEN s ELSE Append(s, d[n])
           Steps(h) == h = [n \in 0..N |-> IF n = 0 THEN << >> ELSE Step(h[n - 1], n)]
           kept == CHOOSE h : Steps(h)
           step == [p \in (1..N) \X Seq(U) |-> Step(p[2], p[1])]
<1>1. N \in Nat /\ << >> \in Seq(U) /\ \A n \in 1..N : d[n] \in U
  BY LenProperties, ElementOfSeq, EmptySeq
<1>11. Registry!Without(d, ids) = kept[N]
  BY DEF Registry!Without
<1>2. step \in [(1..N) \X Seq(U) -> Seq(U)]
  BY <1>1, AppendProperties
<1>3. \A n \in 1..N, s \in Seq(U) : step[<<n, s>>] = Step(s, n)
  OBVIOUS
<1> HIDE DEF step, Step
<1>4. PICK g : Solution(N, Seq(U), << >>, step, g)
  BY <1>1, <1>2, Recursion
<1>10. g \in [0..N -> Seq(U)] /\ g[0] = << >>
  BY <1>4 DEF Solution
<1>5. ASSUME NEW n \in 1..N PROVE g[n] = Step(g[n - 1], n)
  <2>1. n - 1 \in 0..N /\ g[n] = step[<<n, g[n - 1]>>]
    BY <1>1, <1>4 DEF Solution
  <2>2. PICK s \in Seq(U) : s = g[n - 1]
    BY <1>10, <2>1
  <2> QED
    BY <1>3, <2>1, <2>2
<1>6. Steps(g)
  BY <1>1, <1>5, <1>10
<1>7. Steps(kept)
  BY <1>6
<1> HIDE DEF kept
<1>9. kept[N] = g[N]
  <2>1. kept[0] = << >>
    BY <1>1, <1>7
  <2>2. ASSUME NEW n \in 1..N, kept[n - 1] \in Seq(U) PROVE kept[n] = step[<<n, kept[n - 1]>>]
    <3>1. kept[n] = Step(kept[n - 1], n)
      BY <1>1, <1>7
    <3> QED
      BY <1>3, <2>2, <3>1
  <2>3. \A n \in 0..N : kept[n] = g[n]
    BY <1>4, <2>1, <2>2 DEF Solution
  <2> QED
    BY <1>1, <2>3
<1> QED
  BY <1>5, <1>9, <1>10, <1>11 DEF Step

LEMMA WithoutIs ==
  ASSUME NEW U, NEW d \in Seq(U), NEW ids
  PROVE  /\ Registry!Without(d, ids) \in Seq(U)
         /\ Registry!Zones(Registry!Without(d, ids)) = {z \in Registry!Zones(d) : z.id \notin ids}
         /\ Distinct(d) => Distinct(Registry!Without(d, ids))
<1> DEFINE N == Len(d)
<1>1. N \in Nat /\ N \in 0..N /\ DOMAIN d = 1..N /\ \A n \in 1..N : d[n] \in U
  BY LenProperties, ElementOfSeq
<1>2. PICK g \in [0..N -> Seq(U)] :
        /\ g[0] = << >>
        /\ \A n \in 1..N : g[n] = IF d[n].id \in ids THEN g[n - 1] ELSE Append(g[n - 1], d[n])
        /\ Registry!Without(d, ids) = g[N]
  BY WithoutSteps
<1> DEFINE P == {n \in 0..N :
                   /\ Registry!Zones(g[n]) = {d[i] : i \in {i \in 1..n : d[i].id \notin ids}}
                   /\ Distinct(d) => Distinct(g[n])}
<1>3. 0 \in P
  BY <1>1, <1>2 DEF Registry!Zones, Distinct
<1>4. ASSUME NEW n \in 0..N - 1, n \in P PROVE n + 1 \in P
  <2>1. n \in Nat /\ n + 1 \in 1..N /\ n + 1 \in 0..N /\ (n + 1) - 1 = n /\ d[n + 1] \in U
    BY <1>1
  <2>2. PICK s \in Seq(U), z \in U : s = g[n] /\ z = d[n + 1]
    BY <2>1
  <2>3. g[n + 1] = IF z.id \in ids THEN s ELSE Append(s, z)
    BY <1>2, <2>1, <2>2
  <2>4. /\ Registry!Zones(s) = {d[i] : i \in {i \in 1..n : d[i].id \notin ids}}
        /\ Distinct(d) => Distinct(s)
    BY <1>4, <2>2
  <2>5. \A i \in 1..n + 1 : i \in 1..n \/ i = n + 1
    BY <2>1
  <2>6. CASE z.id \in ids
    <3>1. {i \in 1..n + 1 : d[i].id \notin ids} = {i \in 1..n : d[i].id \notin ids}
      BY <2>1, <2>2, <2>5, <2>6
    <3> QED
      BY <2>1, <2>3, <2>4, <2>6, <3>1
  <2>7. CASE z.id \notin ids
    <3> DEFINE t == Append(s, z)
               k == Len(s) + 1
    <3>1. /\ Len(s) \in Nat /\ DOMAIN s = 1..Len(s)
          /\ DOMAIN t = 1..k /\ t[k] = z /\ \A i \in 1..Len(s) : t[i] = s[i]
      BY AppendProperties, LenProperties
    <3>2. \A i \in DOMAIN t : i \in DOMAIN s \/ i = k
      BY <3>1
    <3>3. DOMAIN s \subseteq DOMAIN t /\ k \in DOMAIN t
      BY <3>1
    <3> HIDE DEF t, k
    <3>4. Registry!Zones(t) = Registry!Zones(s) \cup {z}
      BY <3>1, <3>2, <3>3 DEF Registry!Zones
    <3>5. {d[i] : i \in {i \in 1..n + 1 : d[i].id \notin ids}} = Registry!Zones(s) \cup {z}
      BY <2>1, <2>2, <2>4, <2>5, <2>7
    <3>6. ASSUME Distinct(d) PROVE Distinct(t)
      <4>1. ASSUME NEW i \in DOMAIN s PROVE s[i].id # z.id
        <5>1. s[i] \in Registry!Zones(s)
          BY DEF Registry!Zones
        <5>2. PICK j \in 1..n : s[i] = d[j]
          BY <2>4, <5>1
        <5>3. j \in DOMAIN d /\ n + 1 \in DOMAIN d /\ j # n + 1
          BY <1>1, <2>1
        <5> QED
          BY <2>2, <3>6, <5>2, <5>3 DEF Distinct
      <4> QED
        BY <2>4, <3>1, <3>2, <3>6, <4>1 DEF Distinct
    <3>7. g[n + 1] = t
      BY <2>3, <2>7 DEF t
    <3> QED
      BY <2>1, <3>4, <3>5, <3>6, <3>7
  <2> QED
    BY <2>6, <2>7
<1> HIDE DEF P
<1>5. \A n \in 0..N : n \in P
  BY <1>1, <1>3, <1>4, StepByStep
<1>6. N \in P
  BY <1>1, <1>5
<1> QED
  BY <1>1, <1>2, <1>6 DEF P, Registry!Zones

LEMMA LoadIs ==
  ASSUME NEW f \in ZoneFiles
  PROVE  Registry!LoadZones(f) \in Seq(AllZones) /\ Distinct(Registry!LoadZones(f))
<1> DEFINE U == AllZones
           S == {s \in Seq(U) : Distinct(s)}
<1>1. << >> \in S
  BY EmptySeq DEF Distinct
<1>2. CASE f.read # "list"
  BY <1>1, <1>2 DEF Registry!LoadZones
<1>3. CASE f.read = "list"
  <2> DEFINE N == Len(f.defs)
             Step(s, n) == LET d == f.defs[n]
                           IN  IF Registry!Raised(f, n) \/ d.parse # "valid" \/ d.zone.id \in Registry!Ids(s) THEN s
                               ELSE Append(s, d.zone)
             Steps(h) == h = [n \in 0..N |-> IF n = 0 THEN << >> ELSE Step(h[n - 1], n)]
             load == CHOOSE h : Steps(h)
             step == [p \in (1..N) \X S |-> Step(p[2], p[1])]
  <2>1. N \in Nat /\ N \in 0..N /\ \A n \in 1..N : f.defs[n].zone \in U
    <3>1. PICK D : f.defs \in Seq(D)
      BY <1>3, ZoneFilesAssumption
    <3>2. N \in Nat /\ N \in 0..N /\ DOMAIN f.defs = 1..N
      BY <3>1, LenProperties
    <3> QED
      BY <1>3, <3>2 DEF AllZones
  <2>2. Registry!LoadZones(f) = load[N]
    BY <1>3 DEF Registry!LoadZones
  <2>3. ASSUME NEW n \in 1..N, NEW s \in S PROVE Step(s, n) \in S
    <3> DEFINE z == f.defs[n].zone
    <3>1. z \in U
      BY <2>1
    <3>2. CASE z.id \in Registry!Ids(s) \/ Step(s, n) = s
      BY <3>2
    <3>3. CASE z.id \notin Registry!Ids(s) /\ Step(s, n) = Append(s, z)
      <4> HIDE DEF z
      <4>1. Registry!Put(s, z) = Append(s, z)
        BY <3>3 DEF Registry!Put
      <4>3. s \in Seq(U) /\ Distinct(s)
        OBVIOUS
      <4>4. PICK r \in Seq(U), y \in U : r = s /\ y = z
        BY <3>1, <4>3
      <4>5. Registry!Put(r, y) \in Seq(U) /\ (Distinct(r) => Distinct(Registry!Put(r, y)))
        BY PutIs
      <4>2. Append(s, z) \in Seq(U) /\ Distinct(Append(s, z))
        BY <4>1, <4>3, <4>4, <4>5
      <4> QED
        BY <3>3, <4>2
    <3> QED
      BY <3>2, <3>3
  <2>4. step \in [(1..N) \X S -> S]
    BY <2>3
  <2>5. \A n \in 1..N, s \in S : step[<<n, s>>] = Step(s, n)
    OBVIOUS
  <2> HIDE DEF step, Step, S
  <2>6. PICK g : Solution(N, S, << >>, step, g)
    BY <1>1, <2>1, <2>4, Recursion
  <2>7. g \in [0..N -> S] /\ g[0] = << >>
    BY <2>6 DEF Solution
  <2>8. ASSUME NEW n \in 1..N PROVE g[n] = Step(g[n - 1], n)
    <3>1. n - 1 \in 0..N /\ g[n] = step[<<n, g[n - 1]>>]
      BY <2>1, <2>6 DEF Solution
    <3>2. PICK s \in S : s = g[n - 1]
      BY <2>7, <3>1
    <3> QED
      BY <2>5, <3>1, <3>2
  <2>9. Steps(g)
    BY <2>1, <2>7, <2>8
  <2>10. Steps(load)
    BY <2>9
  <2> HIDE DEF load
  <2>11. load[N] = g[N]
    <3>1. load[0] = << >>
      BY <2>1, <2>10
    <3>2. ASSUME NEW n \in 1..N, load[n - 1] \in S PROVE load[n] = step[<<n, load[n - 1]>>]
      <4>1. load[n] = Step(load[n - 1], n)
        BY <2>1, <2>10
      <4> QED
        BY <2>5, <3>2, <4>1
    <3>3. \A n \in 0..N : load[n] = g[n]
      BY <2>6, <3>1, <3>2 DEF Solution
    <3> QED
      BY <2>1, <3>3
  <2>12. g[N] \in S
    BY <2>1, <2>7
  <2> QED
    BY <2>2, <2>11, <2>12 DEF S
<1> QED
  BY <1>2, <1>3

LEMMA WatchedStarts == FrameInit => WatchedInv
<1> SUFFICES ASSUME FrameInit PROVE WatchedInv
  OBVIOUS
<1>1. PICK f \in ZoneFiles : /\ trackerZones = Registry!LoadZones(f) /\ heatZones = Registry!LoadZones(f)
                            /\ zones = IF Registry!LoadRaises(f) THEN << >> ELSE Registry!LoadZones(f)
  BY DEF FrameInit, Registry!RegistryInit
<1>2. Registry!LoadZones(f) \in Seq(AllZones) /\ Distinct(Registry!LoadZones(f))
  BY LoadIs
<1>3. << >> \in Seq(AllZones) /\ Distinct(<< >>) /\ Registry!Zones(<< >>) = {}
  BY EmptySeq DEF Distinct, Registry!Zones
<1> QED
  BY <1>1, <1>2, <1>3 DEF WatchedInv, ZonesWatched, Registry!ZonesWatched

LEMMA ReloadWatched ==
  ASSUME WatchedInv, NEW f \in ZoneFiles, Registry!ReloadZones(f)
  PROVE  WatchedInv'
<1> DEFINE l == Registry!LoadZones(f)
           loaded(d) == Registry!PutAll(Registry!Without(d, Registry!Ids(zones)), l)
           reload(d) == IF Registry!LoadRaises(f) THEN Registry!PutAll(loaded(d), zones) ELSE loaded(d)
<1>1. l \in Seq(AllZones) /\ Distinct(l)
  BY LoadIs
<1>2. /\ trackerZones' = reload(trackerZones) /\ heatZones' = reload(heatZones)
      /\ zones' = IF Registry!LoadRaises(f) THEN zones ELSE l
  BY DEF Registry!ReloadZones
<1> HIDE DEF l
<1>3. ASSUME NEW d \in Seq(AllZones)
      PROVE  reload(d) \in Seq(AllZones) /\ Registry!Zones(zones') \subseteq Registry!Zones(reload(d))
  <2>1. PICK w \in Seq(AllZones) : w = Registry!Without(d, Registry!Ids(zones))
    BY WithoutIs
  <2>2. PICK p \in Seq(AllZones) : p = loaded(d) /\ Registry!Zones(l) \subseteq Registry!Zones(p)
    BY <1>1, <2>1, PutAllIs
  <2> HIDE DEF loaded
  <2>3. CASE Registry!LoadRaises(f)
    <3>1. Registry!PutAll(p, zones) \in Seq(AllZones) /\ Registry!Zones(zones) \subseteq Registry!Zones(Registry!PutAll(p, zones))
      BY PutAllIs DEF WatchedInv
    <3> QED
      BY <1>2, <2>2, <2>3, <3>1
  <2>4. CASE ~Registry!LoadRaises(f)
    BY <1>2, <2>2, <2>4
  <2> QED
    BY <2>3, <2>4
<1> HIDE DEF reload
<1>4. zones' \in Seq(AllZones) /\ Distinct(zones')
  BY <1>1, <1>2 DEF WatchedInv
<1> QED
  BY <1>2, <1>3, <1>4 DEF WatchedInv, ZonesWatched, Registry!ZonesWatched

LEMMA WatchedStep == WatchedInv /\ [FrameNext]_pathVars => WatchedInv'
<1> SUFFICES ASSUME WatchedInv, [FrameNext]_pathVars PROVE WatchedInv'
  OBVIOUS
<1>1. CASE UNCHANGED zoneVars
  BY <1>1 DEF WatchedInv, ZonesWatched, Registry!ZonesWatched, zoneVars
<1>2. ASSUME NEW z \in Zone, Registry!AddZone(z) PROVE WatchedInv'
  <2>1. z \in AllZones
    BY DEF AllZones
  <2>2. /\ zones' = Registry!Put(zones, z) /\ trackerZones' = Registry!Put(trackerZones, z)
        /\ heatZones' = Registry!Put(heatZones, z)
    BY <1>2 DEF Registry!AddZone
  <2>3. \A d \in Seq(AllZones) :
          /\ Registry!Put(d, z) \in Seq(AllZones)
          /\ Registry!Zones(Registry!Put(d, z)) = {y \in Registry!Zones(d) : y.id # z.id} \cup {z}
          /\ Distinct(d) => Distinct(Registry!Put(d, z))
    BY <2>1, PutIs
  <2> QED
    BY <2>2, <2>3 DEF WatchedInv, ZonesWatched, Registry!ZonesWatched
<1>3. ASSUME NEW id, Registry!RemoveZone(id) PROVE WatchedInv'
  <2>1. /\ zones' = Registry!Without(zones, {id}) /\ trackerZones' = Registry!Without(trackerZones, {id})
        /\ heatZones' = Registry!Without(heatZones, {id})
    BY <1>3 DEF Registry!RemoveZone
  <2>2. \A d \in Seq(AllZones) :
          /\ Registry!Without(d, {id}) \in Seq(AllZones)
          /\ Registry!Zones(Registry!Without(d, {id})) = {y \in Registry!Zones(d) : y.id \notin {id}}
          /\ Distinct(d) => Distinct(Registry!Without(d, {id}))
    BY WithoutIs
  <2> QED
    BY <2>1, <2>2 DEF WatchedInv, ZonesWatched, Registry!ZonesWatched
<1>4. CASE Rezone
  BY <1>2, <1>3, <1>4, ReloadWatched DEF Rezone
<1>5. ASSUME NEW dt \in 1..MaxGap, NEW shot \in scene, Frame(dt, shot) PROVE WatchedInv'
  BY <1>1, <1>5 DEF Frame
<1> QED
  BY <1>1, <1>4, <1>5 DEF FrameNext, pathVars

(* For any zones, zones files and any sequence of additions, removals and  *)
(* reloads, those that fail half way included: every zone the pipeline     *)
(* lists is in the tracker and in the heatmap (pipeline.py:403-456).       *)
THEOREM ZonesAlwaysWatched == FrameSpec => []ZonesWatched
<1>1. WatchedInv => ZonesWatched
  BY DEF WatchedInv
<1> QED
  BY WatchedStarts, WatchedStep, <1>1, PTL DEF FrameSpec

-----------------------------------------------------------------------------
(* The heatmap.  The last three maxima are kept, and a place that has been *)
(* quiet since one of them has halved as often as there were frames since. *)
HeatInv ==
  /\ scene \in Scenes
  /\ heat \in [Places -> Nat] /\ quiet \in [Places -> Nat] /\ peaks \in Seq(Nat)
  /\ Len(peaks) <= Window
  /\ \A p \in Places :
       /\ quiet[p] <= Len(peaks)
       /\ Len(peaks) >= 1 => heat[p] <= peaks[Len(peaks)]
       /\ Len(peaks) >= 2 /\ quiet[p] >= 1 => 2 * heat[p] <= peaks[Len(peaks) - 1]
       /\ Len(peaks) >= 3 /\ quiet[p] >= 2 => 4 * heat[p] <= peaks[Len(peaks) - 2]

LEMMA HeatStarts == FrameInit => HeatInv
<1> SUFFICES ASSUME FrameInit PROVE HeatInv
  OBVIOUS
<1>1. heat = [p \in Places |-> 0] /\ peaks = << >> /\ quiet = [p \in Places |-> 0] /\ scene \in Scenes
  BY DEF FrameInit, Ppe!HeatInit
<1>2. << >> \in Seq(Nat) /\ Len(<< >>) = 0
  BY EmptySeq
<1> QED
  BY <1>1, <1>2, HeatAssumption DEF HeatInv

LEMMA HighestIs ==
  ASSUME NEW h \in [Places -> Nat]
  PROVE  Ppe!Highest(h) \in Nat /\ \A p \in Places : h[p] <= Ppe!Highest(h)
<1>1. h \in [Places -> Int]
  OBVIOUS
<1>2. PICK x \in Places : \A y \in Places : h[y] <= h[x]
  BY <1>1, Greatest, PlacesAssumption
<1> DEFINE V == {h[p] : p \in Places}
<1>3. h[x] \in V /\ \A v \in V : h[x] >= v
  BY <1>2
<1>4. Ppe!Highest(h) \in V /\ \A v \in V : Ppe!Highest(h) >= v
  BY <1>3 DEF Ppe!Highest, Ppe!Max
<1> QED
  BY <1>4

LEMMA TickedHeat ==
  ASSUME HeatInv, NEW w \in [Places -> Nat], Ppe!UpdateAndTick(w), UNCHANGED scene
  PROVE  HeatInv'
<1>1. /\ heat' \in [Places -> Nat] /\ quiet' \in [Places -> Nat]
      /\ \A p \in Places : /\ w[p] = 0 => 2 * heat'[p] <= heat[p]
                           /\ quiet'[p] >= 1 => w[p] = 0 /\ quiet'[p] <= quiet[p] + 1
                           /\ quiet'[p] <= quiet[p] + 1 /\ quiet'[p] <= Window
  <2>1. /\ heat' = [p \in Places |-> (heat[p] + Bump * w[p]) \div 2]
        /\ quiet' = [p \in Places |-> IF w[p] > 0 THEN 0 ELSE IF quiet[p] < Window THEN quiet[p] + 1 ELSE Window]
    BY DEF Ppe!UpdateAndTick, Ppe!Decayed, Ppe!Bumped
  <2>2. ASSUME NEW p \in Places
        PROVE  (heat[p] + Bump * w[p]) \div 2 \in Nat /\ (w[p] = 0 => 2 * ((heat[p] + Bump * w[p]) \div 2) <= heat[p])
    <3>1. Bump * w[p] \in Nat /\ heat[p] \in Nat /\ (w[p] = 0 => Bump * w[p] = 0)
      BY HeatAssumption DEF HeatInv
    <3> QED
      BY <3>1
  <2>3. \A p \in Places : w[p] \in Nat /\ quiet[p] \in Nat
    BY DEF HeatInv
  <2> QED
    BY <2>1, <2>2, <2>3, HeatAssumption
<1>2. PICK top \in Nat : top = Ppe!Highest(heat') /\ \A p \in Places : heat'[p] <= top
  BY <1>1, HighestIs
<1>3. PICK long : long = Append(peaks, top)
  OBVIOUS
<1>4. peaks' = IF Len(long) > Window THEN Tail(long) ELSE long
  BY <1>2, <1>3 DEF Ppe!UpdateAndTick, Ppe!LastFew
<1>5. PICK n \in Nat : n = Len(peaks) /\ n <= Window
  BY LenProperties DEF HeatInv
<1>6. peaks \in Seq(Nat)
  BY DEF HeatInv
<1>7. \A i \in 1..n : peaks[i] \in Nat
  BY <1>5, <1>6, ElementOfSeq
<1>8. long \in Seq(Nat) /\ Len(long) = n + 1 /\ long[n + 1] = top /\ \A i \in 1..n : long[i] = peaks[i]
  BY <1>2, <1>3, <1>5, <1>6, AppendProperties
<1>9. Window \in Nat /\ Window >= 3
  BY HeatAssumption
<1>10. PICK m \in Nat : m = IF n + 1 > Window THEN n ELSE n + 1
  OBVIOUS
<1>11. m >= 1 /\ m <= Window /\ m <= n + 1
  BY <1>5, <1>9, <1>10
<1>12. /\ peaks' \in Seq(Nat) /\ Len(peaks') = m
       /\ \A i \in 0..m - 1 : peaks'[m - i] = long[(n + 1) - i]
  <2>1. CASE n + 1 > Window
    <3>1. peaks' = Tail(long) /\ m = n /\ long # << >>
      BY <1>4, <1>8, <1>10, <2>1
    <3>2. Tail(long) \in Seq(Nat) /\ Len(Tail(long)) = n /\ \A i \in 1..n : Tail(long)[i] = long[i + 1]
      BY <1>8, <3>1, HeadTailProperties
    <3>3. ASSUME NEW i \in 0..m - 1 PROVE peaks'[m - i] = long[(n + 1) - i]
      <4>1. n - i \in 1..n /\ (n - i) + 1 = (n + 1) - i
        BY <3>1
      <4> QED
        BY <3>1, <3>2, <4>1
    <3> QED
      BY <3>1, <3>2, <3>3
  <2>2. CASE ~(n + 1 > Window)
    BY <1>4, <1>8, <1>9, <1>10, <2>2
  <2> QED
    BY <2>1, <2>2
<1>13. PICK q \in Seq(Nat) : q = peaks'
  BY <1>12
<1>14. /\ Len(q) = m /\ q[m] = top
       /\ (m >= 2 => q[m - 1] = peaks[n] /\ peaks[n] \in Nat)
       /\ (m >= 3 => q[m - 2] = peaks[n - 1] /\ peaks[n - 1] \in Nat)
  <2>1. q[m] = top
    <3>1. 0 \in 0..m - 1 /\ m - 0 = m /\ (n + 1) - 0 = n + 1
      BY <1>11
    <3> QED
      BY <1>8, <1>12, <1>13, <3>1
  <2>2. ASSUME m >= 2 PROVE q[m - 1] = peaks[n] /\ peaks[n] \in Nat
    <3>1. 1 \in 0..m - 1 /\ (n + 1) - 1 = n /\ n \in 1..n
      BY <1>11, <2>2
    <3> QED
      BY <1>7, <1>8, <1>12, <1>13, <3>1
  <2>3. ASSUME m >= 3 PROVE q[m - 2] = peaks[n - 1] /\ peaks[n - 1] \in Nat
    <3>1. 2 \in 0..m - 1 /\ (n + 1) - 2 = n - 1 /\ n - 1 \in 1..n
      BY <1>11, <2>3
    <3> QED
      BY <1>7, <1>8, <1>12, <1>13, <3>1
  <2> QED
    BY <1>12, <1>13, <2>1, <2>2, <2>3
<1>15. ASSUME NEW p \in Places
       PROVE  /\ quiet'[p] <= m
              /\ heat'[p] <= q[m]
              /\ (m >= 2 /\ quiet'[p] >= 1 => 2 * heat'[p] <= q[m - 1])
              /\ (m >= 3 /\ quiet'[p] >= 2 => 4 * heat'[p] <= q[m - 2])
  <2>1. PICK x \in Nat, y \in Nat, x1 \in Nat, y1 \in Nat :
          x = heat[p] /\ y = quiet[p] /\ x1 = heat'[p] /\ y1 = quiet'[p]
    BY <1>1 DEF HeatInv
  <2>2. /\ y <= n
        /\ n >= 1 => x <= peaks[n]
        /\ n >= 2 /\ y >= 1 => 2 * x <= peaks[n - 1]
    BY <1>5, <2>1 DEF HeatInv
  <2>3. y1 <= y + 1 /\ y1 <= Window /\ (y1 >= 1 => 2 * x1 <= x)
    BY <1>1, <2>1
  <2>4. y1 <= m
    BY <1>5, <1>9, <1>10, <2>2, <2>3
  <2>5. x1 <= q[m]
    BY <1>2, <1>14, <2>1
  <2>6. ASSUME m >= 2, y1 >= 1 PROVE 2 * x1 <= q[m - 1]
    <3>1. x <= peaks[n] /\ q[m - 1] = peaks[n] /\ peaks[n] \in Nat
      BY <1>11, <1>14, <2>2, <2>6
    <3> QED
      BY <2>3, <2>6, <3>1
  <2>7. ASSUME m >= 3, y1 >= 2 PROVE 4 * x1 <= q[m - 2]
    <3>1. y >= 1 /\ 2 * x <= peaks[n - 1] /\ q[m - 2] = peaks[n - 1] /\ peaks[n - 1] \in Nat
      BY <1>11, <1>14, <2>2, <2>3, <2>7
    <3> QED
      BY <2>3, <2>7, <3>1
  <2> QED
    BY <2>1, <2>4, <2>5, <2>6, <2>7
<1> QED
  BY <1>1, <1>11, <1>13, <1>14, <1>15 DEF HeatInv

LEMMA HeatStep == HeatInv /\ [FrameNext]_pathVars => HeatInv'
<1> SUFFICES ASSUME HeatInv, [FrameNext]_pathVars PROVE HeatInv'
  OBVIOUS
<1>1. ASSUME NEW dt \in 1..MaxGap, NEW shot \in scene, Frame(dt, shot) PROVE HeatInv'
  <2> DEFINE At(p) == {b \in Violating(shot) : b.place = p}
             weight == [p \in Places |-> Cardinality(At(p))]
  <2>1. ASSUME NEW p \in Places PROVE Cardinality(At(p)) \in Nat
    <3>1. IsFiniteSet(shot.boxes) /\ At(p) \subseteq shot.boxes
      <4>1. scene \in Scenes
        BY DEF HeatInv
      <4>2. IsFiniteSet(shot.boxes)
        BY <4>1, ShotsAssumption
      <4> QED
        BY <4>2 DEF Violating, Predicted
    <3> HIDE DEF At
    <3> QED
      BY <3>1, FS_Subset, FS_CardinalityType
  <2>2. weight \in [Places -> Nat]
    BY <2>1
  <2>3. Ppe!UpdateAndTick(weight) /\ UNCHANGED scene
    BY <1>1 DEF Frame
  <2> HIDE DEF weight
  <2> QED
    BY <2>2, <2>3, TickedHeat
<1>2. ASSUME Rezone \/ UNCHANGED pathVars PROVE HeatInv'
  BY <1>2 DEF Rezone, pathVars, frameVars, HeatInv
<1> QED
  BY <1>1, <1>2 DEF FrameNext

LEMMA PeaksPeak ==
  ASSUME peaks \in Seq(Nat)
  PROVE  Ppe!StablePeak \in Nat /\ \A i \in 1..Len(peaks) : peaks[i] <= Ppe!StablePeak
<1> DEFINE V == {peaks[i] : i \in DOMAIN peaks} \cup {0}
<1>1. PICK n \in Nat : n = Len(peaks) /\ DOMAIN peaks = 1..n /\ peaks \in [1..n -> Nat]
  BY LenProperties
<1>2. \E v \in V : v \in Nat /\ \A w \in V : v >= w
  <2>1. CASE n = 0
    BY <1>1, <2>1
  <2>2. CASE n # 0
    <3>1. IsFiniteSet(1..n)
      BY FS_Interval
    <3>0. 1 \in 1..n /\ peaks \in [1..n -> Int]
      BY <1>1, <2>2
    <3>2. PICK x \in 1..n : \A y \in 1..n : peaks[y] <= peaks[x]
      BY <3>0, <3>1, Greatest
    <3> QED
      BY <1>1, <3>2
  <2> QED
    BY <2>1, <2>2
<1>3. Ppe!StablePeak \in V /\ \A w \in V : Ppe!StablePeak >= w
  BY <1>2 DEF Ppe!StablePeak, Ppe!Max
<1>4. V \subseteq Nat
  BY <1>1
<1> QED
  BY <1>1, <1>3, <1>4

(* A place that has been quiet for a whole window is at most a quarter as  *)
(* hot as the scale.                                                       *)
LEMMA QuietPlace ==
  ASSUME HeatInv, NEW p \in Places, quiet[p] = Window
  PROVE  Ppe!Intensity(p) \in 0..25
<1>1. PICK n \in Nat : n = Len(peaks) /\ n = Window /\ n >= 3
  BY LenProperties, HeatAssumption DEF HeatInv
<1>2. PICK s \in Nat : s = Ppe!StablePeak /\ peaks[n - 2] <= s
  BY <1>1, PeaksPeak DEF HeatInv
<1>3. PICK h \in Nat : h = heat[p]
  BY DEF HeatInv
<1>4. peaks[n - 2] \in Nat
  <2>1. n - 2 \in 1..Len(peaks)
    BY <1>1
  <2> QED
    BY <2>1, ElementOfSeq DEF HeatInv
<1>5. 4 * h <= s
  <2>1. 4 * h <= peaks[n - 2]
    BY <1>1, <1>3 DEF HeatInv
  <2> QED
    BY <1>2, <1>4, <2>1
<1>6. CASE s = 0
  BY <1>2, <1>6 DEF Ppe!Intensity
<1>7. CASE s # 0
  <2>1. 100 * h \in Nat /\ 100 * h <= 25 * s
    BY <1>5
  <2>2. PICK q \in Nat : q = (100 * h) \div s /\ q <= 25
    BY <1>7, <2>1, Quotient
  <2>3. Ppe!Intensity(p) = Ppe!Min({100, q})
    BY <1>2, <1>3, <1>7, <2>2 DEF Ppe!Intensity
  <2>4. Ppe!Min({100, q}) = q
    BY <2>2 DEF Ppe!Min
  <2> QED
    BY <2>2, <2>3, <2>4
<1> QED
  BY <1>6, <1>7

LEMMA QuietZone ==
  ASSUME HeatInv, NEW polygon \in SUBSET Places
  PROVE  Ppe!QuietPlaceCools(polygon)
<1> SUFFICES ASSUME polygon # {}, \A p \in polygon : quiet[p] = Window
             PROVE  Ppe!RiskLevel(polygon) \in {"low", "medium"}
  BY DEF Ppe!QuietPlaceCools
<1> DEFINE f == [p \in polygon |-> Ppe!Intensity(p)]
<1>1. \A p \in polygon : Ppe!Intensity(p) \in 0..25
  BY QuietPlace
<1>2. f \in [polygon -> Int] /\ DOMAIN f = polygon /\ \A p \in polygon : 0 <= f[p] /\ f[p] <= 25
  BY <1>1
<1>3. IsFiniteSet(polygon)
  BY PlacesAssumption, FS_Subset
<1>4. Cardinality(polygon) \in Nat /\ Cardinality(polygon) # 0
  BY <1>3, FS_CardinalityType, FS_EmptySet
<1> HIDE DEF f
<1>5. PICK t \in Int : t = SumFunctionOnSet(f, polygon) /\ 0 * Cardinality(polygon) <= t /\ t <= 25 * Cardinality(polygon)
  BY <1>2, <1>3, SumBounded
<1>6. Ppe!MeanIntensity(polygon) = t \div Cardinality(polygon)
  <2>1. Ppe!SumFunctionOnSet(f, polygon) = SumFunctionOnSet(f, polygon)
    BY DEF Ppe!SumFunctionOnSet, Ppe!FoldFunctionOnSet, Ppe!MapThenFoldSet,
           SumFunctionOnSet, FoldFunctionOnSet, MapThenFoldSet
  <2>2. Ppe!MeanIntensity(polygon) = Ppe!SumFunctionOnSet(f, polygon) \div Cardinality(polygon)
    BY <1>2 DEF Ppe!MeanIntensity, Ppe!SumFunction, Ppe!Cardinality, Cardinality, f
  <2> QED
    BY <1>5, <2>1, <2>2
<1>7. t \in Nat
  BY <1>4, <1>5
<1>8. PICK m \in Nat : m = Ppe!MeanIntensity(polygon) /\ m <= 25
  BY <1>4, <1>5, <1>6, <1>7, Quotient
<1> QED
  BY <1>8 DEF Ppe!RiskLevel

(* For any places, zones, window of at least three frames and any frames:  *)
(* a zone whose places have all been without a violation for the whole     *)
(* normalisation window is at most "medium" (heatmap.py:118-260).          *)
THEOREM QuietZonesAlwaysCool == FrameSpec => []QuietZonesCool
<1>1. WatchedInv /\ HeatInv => QuietZonesCool
  <2> SUFFICES ASSUME WatchedInv, HeatInv, NEW z \in Registry!Zones(heatZones)
               PROVE  Ppe!QuietPlaceCools(z.polygon)
    BY DEF QuietZonesCool
  <2>1. z \in AllZones
    BY LenProperties, ElementOfSeq DEF WatchedInv, Registry!Zones
  <2>2. z.polygon \in SUBSET Places
    BY <2>1, PlacesAssumption DEF AllZones
  <2> QED
    BY <2>2, QuietZone
<1> QED
  BY WatchedStarts, WatchedStep, HeatStarts, HeatStep, <1>1, PTL DEF FrameSpec
=============================================================================
