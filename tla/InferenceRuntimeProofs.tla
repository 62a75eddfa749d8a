----------------------- MODULE InferenceRuntimeProofs -----------------------
(* Proofs about InferenceRuntime, for any queue size, snapshot interval,    *)
(* frames, failures and restarts.                                           *)
EXTENDS InferenceRuntime, SequenceTheorems, TLAPS

(* The bounds that the types need: a frame in work still fits below        *)
(* MaxFrames, and the writer has taken no more results than were queued.   *)
CountsAgree ==
  /\ loop = "processing" => produced < MaxFrames
  /\ taken + Len(queue) <= produced

(* What was committed is older than what the writer holds for its next     *)
(* commit, which is older than everything queued.                          *)
CommitsBehind ==
  /\ \A i \in DOMAIN stored : stored[i] <= produced
  /\ \A i \in DOMAIN stored, j \in DOMAIN queue : stored[i] < queue[j]
  /\ writer = "violations" =>
       /\ held \in 1..produced
       /\ \A i \in DOMAIN stored : stored[i] < held
       /\ \A j \in DOMAIN queue : held < queue[j]

(* How far the shutdown has come says which tasks can still be alive.      *)
Idle ==
  /\ loop \notin {"opening", "reading", "processing"}
  /\ writer \notin WriterBusy

Phases ==
  /\ worker \notin {"serving"} => shap # "loading"
  /\ worker \notin {"serving", "await_writer"} => Idle
  /\ worker \in {"off", "booting"} =>
       ~app.pipeline /\ ~app.shap /\ app.frame = NoFrame /\ app.status # "running"

IInv == TypeOK /\ CountsAgree /\ QueueIsNewest /\ CommitsBehind /\ StoredInOrder /\ Phases

(* Indices and elements of a sequence, for the provers. *)
LEMMA SeqFacts ==
  ASSUME NEW S, NEW s \in Seq(S)
  PROVE  Len(s) \in Nat /\ DOMAIN s = 1..Len(s) /\ \A i \in DOMAIN s : s[i] \in S
  OBVIOUS

LEMMA AppendFacts ==
  ASSUME NEW S, NEW s \in Seq(S), NEW e \in S
  PROVE  /\ Append(s, e) \in Seq(S)
         /\ Len(Append(s, e)) = Len(s) + 1
         /\ \A i \in 1..Len(s) : Append(s, e)[i] = s[i]
         /\ Append(s, e)[Len(s) + 1] = e
  OBVIOUS

LEMMA TailFacts ==
  ASSUME NEW S, NEW s \in Seq(S), s # << >>
  PROVE  /\ Head(s) \in S /\ Head(s) = s[1] /\ Len(s) >= 1
         /\ Tail(s) \in Seq(S)
         /\ Len(Tail(s)) = Len(s) - 1
         /\ \A i \in 1..(Len(s) - 1) : Tail(s)[i] = s[i + 1]
  OBVIOUS

LEMMA InitIInv == Init => IInv
<1> SUFFICES ASSUME Init PROVE IInv
  OBVIOUS
<1>1. app \in [status : Statuses, pipeline : BOOLEAN, shap : BOOLEAN, frame : 0..MaxFrames]
  BY RuntimeAssumption DEF Init, Statuses, NoFrame
<1>2. << >> \in Seq(1..MaxFrames) /\ Len(<< >>) = 0
  OBVIOUS
<1>6. 0 \in 0..MaxFrames /\ 0 \in 0..MaxStarts /\ 0 <= QueueMax
  BY RuntimeAssumption
<1>3. TypeOK
  BY <1>1, <1>2, <1>6 DEF Init, TypeOK, NoFrame
<1>4. CountsAgree /\ QueueIsNewest /\ CommitsBehind /\ StoredInOrder
  BY DEF Init, CountsAgree, QueueIsNewest, CommitsBehind, StoredInOrder
<1>5. Phases
  BY DEF Init, Phases, Idle, WriterBusy, Cleared
<1> QED
  BY <1>3, <1>4, <1>5 DEF IInv

(* A step that moves no frame keeps the conjuncts about frames. *)
LEMMA FramesKept ==
  ASSUME IInv,
         UNCHANGED <<queue, produced, stored, held, taken>>,
         writer' = "violations" => writer = "violations",
         loop' = "processing" => (loop = "processing" \/ produced < MaxFrames)
  PROVE  CountsAgree' /\ QueueIsNewest' /\ CommitsBehind' /\ StoredInOrder'
<1>1. CountsAgree'
  BY DEF IInv, CountsAgree
<1>2. QueueIsNewest' /\ StoredInOrder'
  BY DEF IInv, QueueIsNewest, StoredInOrder
<1>3. CommitsBehind'
  BY DEF IInv, CommitsBehind
<1> QED
  BY <1>1, <1>2, <1>3

(* Only the worker, the SHAP task and start and stop change AppState's      *)
(* status; the writer changes the frame.                                    *)
LEMMA WorkerKeeps ==
  ASSUME IInv, Start \/ Stop \/ BootUnavailable \/ BootFails \/ ShapReady \/ ShapFails
               \/ ShutDown \/ StopPipeline \/ ClearState
  PROVE  IInv'
<1>0. TypeOK /\ Phases
  BY DEF IInv
<1>f. CountsAgree' /\ QueueIsNewest' /\ CommitsBehind' /\ StoredInOrder'
  <2>1. UNCHANGED <<queue, produced, stored, held, taken, writer>>
    BY DEF Start, Stop, BootUnavailable, BootFails, ShapReady, ShapFails, ShutDown,
           StopPipeline, ClearState, writerVars, loopVars
  <2>2. loop' # "processing" \/ loop' = loop
    BY DEF Start, Stop, BootUnavailable, BootFails, ShapReady, ShapFails, ShutDown,
           StopPipeline, ClearState, writerVars, loopVars
  <2> QED
    BY <2>1, <2>2, FramesKept
<1>1. CASE Start
  <2>3. app' = [app EXCEPT !.status = "starting"] /\ starts' \in 0..MaxStarts
    BY <1>0, <1>1, RuntimeAssumption DEF Start, TypeOK
  <2>4. app \in [status : Statuses, pipeline : BOOLEAN, shap : BOOLEAN, frame : 0..MaxFrames]
    BY <1>0 DEF TypeOK
  <2>5. app' \in [status : Statuses, pipeline : BOOLEAN, shap : BOOLEAN, frame : 0..MaxFrames]
    BY <2>3, <2>4 DEF Statuses
  <2>1. TypeOK'
    BY <1>0, <1>1, <2>3, <2>5 DEF Start, TypeOK, writerVars
  <2>2. Phases'
    BY <1>0, <1>1, <2>3, <2>4 DEF Start, Phases, Idle, writerVars
  <2> QED
    BY <2>1, <2>2, <1>f DEF IInv
<1>2. CASE Stop
  BY <1>0, <1>2, <1>f DEF Stop, TypeOK, Phases, Idle, IInv, writerVars, loopVars
<1>3. CASE BootUnavailable
  BY <1>0, <1>3, <1>f DEF BootUnavailable, TypeOK, Phases, Idle, IInv, writerVars, loopVars
<1>4. CASE BootFails
  <2>1. TypeOK'
    BY <1>0, <1>4, RuntimeAssumption
    DEF BootFails, TypeOK, Statuses, Cleared, NoFrame, writerVars, loopVars
  <2>2. Phases'
    BY <1>0, <1>4 DEF BootFails, Phases, Idle, Cleared, writerVars, loopVars
  <2> QED
    BY <2>1, <2>2, <1>f DEF IInv
<1>5. CASE ShapReady
  <2>1. TypeOK'
    BY <1>0, <1>5 DEF ShapReady, TypeOK, writerVars, loopVars
  <2>2. Phases'
    BY <1>0, <1>5 DEF ShapReady, Phases, Idle, writerVars, loopVars
  <2> QED
    BY <2>1, <2>2, <1>f DEF IInv
<1>6. CASE ShapFails
  BY <1>0, <1>6, <1>f DEF ShapFails, TypeOK, Phases, Idle, IInv, writerVars, loopVars
<1>7. CASE ShutDown
  BY <1>0, <1>7, <1>f DEF ShutDown, TypeOK, Phases, Idle, IInv, writerVars, loopVars
<1>8. CASE StopPipeline
  BY <1>0, <1>8, <1>f DEF StopPipeline, TypeOK, Phases, Idle, IInv, writerVars
<1>9. CASE ClearState
  <2>1. TypeOK'
    BY <1>0, <1>9, RuntimeAssumption
    DEF ClearState, TypeOK, Statuses, Cleared, NoFrame, writerVars, loopVars
  <2>2. Phases'
    BY <1>0, <1>9 DEF ClearState, Phases, Idle, Cleared, writerVars, loopVars
  <2> QED
    BY <2>1, <2>2, <1>f DEF IInv
<1> QED
  BY <1>1, <1>2, <1>3, <1>4, <1>5, <1>6, <1>7, <1>8, <1>9

(* A new pipeline starts with an empty queue and an idle writer.           *)
LEMMA BootKeeps == ASSUME IInv, Boot PROVE IInv'
<1>0. TypeOK /\ CountsAgree /\ CommitsBehind /\ StoredInOrder /\ Phases
  BY DEF IInv
<1>1. << >> \in Seq(1..MaxFrames) /\ Len(<< >>) = 0 /\ DOMAIN << >> = {}
  OBVIOUS
<1>6. app' \in [status : Statuses, pipeline : BOOLEAN, shap : BOOLEAN, frame : 0..MaxFrames]
  BY <1>0 DEF Boot, TypeOK, Statuses
<1>7. 0 \in 0..MaxFrames /\ 0 <= QueueMax
  BY RuntimeAssumption
<1>2. TypeOK'
  BY <1>0, <1>1, <1>6, <1>7 DEF Boot, TypeOK, WriterBusy, NoFrame
<1>3. CountsAgree' /\ QueueIsNewest' /\ StoredInOrder'
  BY <1>0, <1>1 DEF Boot, TypeOK, CountsAgree, QueueIsNewest, StoredInOrder
<1>4. CommitsBehind'
  BY <1>0, <1>1 DEF Boot, CommitsBehind
<1>5. Phases'
  BY <1>0 DEF Boot, Phases
<1> QED
  BY <1>2, <1>3, <1>4, <1>5 DEF IInv

(* The frame loop runs only while the worker serves or shuts down, and only *)
(* QueueResult moves a frame.                                               *)
LEMMA LoopKeeps ==
  ASSUME IInv, OpenSource \/ LoopCrashes \/ ReadFrame \/ SourceEnds
  PROVE  IInv'
<1>0. TypeOK /\ Phases
  BY DEF IInv
<1>1. CountsAgree' /\ QueueIsNewest' /\ CommitsBehind' /\ StoredInOrder'
  BY FramesKept DEF OpenSource, LoopCrashes, ReadFrame, SourceEnds, writerVars
<1>2. TypeOK'
  BY <1>0 DEF OpenSource, LoopCrashes, ReadFrame, SourceEnds, TypeOK, writerVars
<1>3. Phases'
  BY <1>0 DEF OpenSource, LoopCrashes, ReadFrame, SourceEnds, Phases, Idle, writerVars
<1> QED
  BY <1>1, <1>2, <1>3 DEF IInv

(* Queueing a result: the oldest makes room, the newest is the last.       *)
LEMMA QueueResultKeeps == ASSUME IInv, QueueResult PROVE IInv'
<1> DEFINE room == IF Len(queue) = QueueMax THEN Tail(queue) ELSE queue
           drop == IF Len(queue) = QueueMax THEN 1 ELSE 0
<1>0. TypeOK /\ CountsAgree /\ QueueIsNewest /\ CommitsBehind /\ StoredInOrder /\ Phases
  BY DEF IInv
<1>1. /\ queue \in Seq(1..MaxFrames) /\ Len(queue) <= QueueMax
      /\ produced \in Nat /\ taken \in Nat /\ produced < MaxFrames
      /\ QueueMax \in Nat /\ QueueMax >= 1
      /\ MaxFrames \in Nat /\ loop = "processing"
  BY <1>0, RuntimeAssumption DEF TypeOK, CountsAgree, QueueResult
<1>2. /\ queue' = Append(room, produced + 1) /\ produced' = produced + 1
      /\ loop' = "reading"
      /\ UNCHANGED <<app, worker, stopping, running, shap, starts, writer, cancelled, held, taken, stored>>
  BY DEF QueueResult, writerVars
<1>3. /\ room \in Seq(1..MaxFrames)
      /\ Len(room) = Len(queue) - drop
      /\ \A i \in 1..Len(room) : room[i] = queue[i + drop]
  <2>1. CASE Len(queue) = QueueMax
    <3>1. queue # << >>
      BY <1>1, <2>1
    <3> QED
      BY <1>1, <2>1, <3>1, TailFacts
  <2>2. CASE Len(queue) # QueueMax
    BY <1>1, <2>2
  <2> QED
    BY <2>1, <2>2
<1>4. drop \in 0..1 /\ Len(queue) - drop \in Nat /\ Len(queue) - drop + 1 <= QueueMax
  BY <1>1
<1> HIDE DEF room, drop
<1>5. produced + 1 \in 1..MaxFrames
  BY <1>1
<1>6. /\ queue' \in Seq(1..MaxFrames)
      /\ Len(queue') = Len(queue) - drop + 1
      /\ \A i \in 1..(Len(queue) - drop) : queue'[i] = queue[i + drop]
      /\ queue'[Len(queue) - drop + 1] = produced + 1
  BY <1>2, <1>3, <1>4, <1>5, AppendFacts
<1>7. DOMAIN queue = 1..Len(queue) /\ DOMAIN queue' = 1..(Len(queue) - drop + 1) /\ Len(queue) \in Nat
  BY <1>1, <1>6
<1>8. TypeOK'
  BY <1>0, <1>1, <1>2, <1>4, <1>5, <1>6 DEF TypeOK
<1>9. CountsAgree'
  BY <1>0, <1>1, <1>2, <1>4, <1>6, <1>7 DEF CountsAgree
<1>10. QueueIsNewest'
  <2> SUFFICES ASSUME NEW i \in DOMAIN queue'
               PROVE  queue'[i] = produced' - Len(queue') + i
    BY DEF QueueIsNewest
  <2>1. CASE i = Len(queue) - drop + 1
    BY <1>1, <1>2, <1>4, <1>6, <1>7, <2>1
  <2>2. CASE i # Len(queue) - drop + 1
    <3>1. i \in 1..(Len(queue) - drop) /\ i + drop \in DOMAIN queue
      BY <1>4, <1>7, <2>2
    <3>2. queue'[i] = produced - Len(queue) + (i + drop)
      BY <1>0, <1>6, <3>1 DEF QueueIsNewest
    <3> QED
      <4>1. produced' - Len(queue') = produced - Len(queue) + drop
        <5>1. produced' = produced + 1 /\ Len(queue') = Len(queue) - drop + 1
          BY <1>2, <1>6
        <5>2. produced \in Nat /\ Len(queue) \in Nat /\ drop \in Nat
          BY <1>1, <1>4, <1>7
        <5> QED
          BY <5>1, <5>2
      <4>2. i \in Nat /\ drop \in Nat /\ Len(queue) \in Nat /\ produced \in Nat
        BY <1>1, <1>4, <1>7, <3>1
      <4> QED
        BY <3>2, <4>1, <4>2
  <2> QED
    BY <2>1, <2>2
<1>11. \A j \in DOMAIN queue' : queue'[j] = produced + 1 \/ \E k \in DOMAIN queue : queue'[j] = queue[k]
  <2> TAKE j \in DOMAIN queue'
  <2>1. CASE j = Len(queue) - drop + 1
    BY <1>6, <2>1
  <2>2. CASE j # Len(queue) - drop + 1
    <3>1. j \in 1..(Len(queue) - drop) /\ j + drop \in DOMAIN queue
      BY <1>4, <1>7, <2>2
    <3> QED
      BY <1>6, <3>1
  <2> QED
    BY <2>1, <2>2
<1>12. stored' = stored /\ \A i \in DOMAIN stored : stored[i] \in Nat
  BY <1>0, <1>1, <1>2 DEF TypeOK
<1>13. CommitsBehind'
  <2>1. \A i \in DOMAIN stored' : stored'[i] <= produced'
    BY <1>0, <1>1, <1>2, <1>12 DEF CommitsBehind
  <2>2. \A i \in DOMAIN stored', j \in DOMAIN queue' : stored'[i] < queue'[j]
    <3> TAKE i \in DOMAIN stored', j \in DOMAIN queue'
    <3>1. CASE queue'[j] = produced + 1
      BY <1>0, <1>1, <1>12, <3>1 DEF CommitsBehind
    <3>2. CASE \E k \in DOMAIN queue : queue'[j] = queue[k]
      BY <1>0, <1>12, <3>2 DEF CommitsBehind
    <3> QED
      BY <1>11, <3>1, <3>2
  <2>3. ASSUME writer' = "violations"
        PROVE  /\ held' \in 1..produced'
               /\ \A i \in DOMAIN stored' : stored'[i] < held'
               /\ \A j \in DOMAIN queue' : held' < queue'[j]
    <3>1. /\ held' = held /\ held \in 1..produced
          /\ \A i \in DOMAIN stored : stored[i] < held
          /\ \A k \in DOMAIN queue : held < queue[k]
      BY <1>0, <1>2, <2>3 DEF CommitsBehind
    <3>2. \A j \in DOMAIN queue' : held < queue'[j]
      <4> TAKE j \in DOMAIN queue'
      <4>1. CASE queue'[j] = produced + 1
        BY <1>1, <3>1, <4>1
      <4>2. CASE \E k \in DOMAIN queue : queue'[j] = queue[k]
        BY <3>1, <4>2
      <4> QED
        BY <1>11, <4>1, <4>2
    <3> QED
      BY <1>1, <1>2, <1>12, <3>1, <3>2
  <2> QED
    BY <2>1, <2>2, <2>3 DEF CommitsBehind
<1>14. StoredInOrder'
  BY <1>0, <1>2 DEF StoredInOrder
<1>15. worker \in {"serving", "await_writer"}
  BY <1>0, <1>1 DEF Phases, Idle
<1>16. Phases'
  BY <1>0, <1>2, <1>15 DEF Phases
<1> QED
  BY <1>8, <1>9, <1>10, <1>13, <1>14, <1>16 DEF IInv

(* The writer takes the oldest frame of the queue.                         *)
LEMMA TakeResultKeeps == ASSUME IInv, TakeResult PROVE IInv'
<1>0. TypeOK /\ CountsAgree /\ QueueIsNewest /\ CommitsBehind /\ StoredInOrder /\ Phases
  BY DEF IInv
<1>1. /\ queue \in Seq(1..MaxFrames) /\ queue # << >> /\ Len(queue) <= QueueMax
      /\ produced \in 0..MaxFrames /\ taken \in Nat
      /\ QueueMax \in Nat /\ MaxFrames \in Nat
      /\ writer = "waiting" /\ ~cancelled
  BY <1>0, RuntimeAssumption DEF TypeOK, TakeResult
<1>2. /\ queue' = Tail(queue) /\ held' = Head(queue) /\ taken' = taken + 1
      /\ app' = [app EXCEPT !.frame = Head(queue)]
      /\ writer' \in {"violations", "snapshot", "waiting"}
      /\ UNCHANGED <<worker, stopping, shap, cancelled, stored, starts, running, loop, produced>>
  BY DEF TakeResult, loopVars, AfterViolations
<1>3. /\ Head(queue) \in 1..MaxFrames /\ Head(queue) = queue[1] /\ Len(queue) >= 1
      /\ Len(queue) \in Nat
      /\ queue' \in Seq(1..MaxFrames)
      /\ Len(queue') = Len(queue) - 1
      /\ DOMAIN queue = 1..Len(queue) /\ DOMAIN queue' = 1..(Len(queue) - 1)
      /\ \A i \in DOMAIN queue' : queue'[i] = queue[i + 1] /\ i + 1 \in DOMAIN queue
  BY <1>1, <1>2, TailFacts
<1>4. \A i \in DOMAIN queue : queue[i] = produced - Len(queue) + i
  BY <1>0 DEF QueueIsNewest
<1>5. CountsAgree'
  BY <1>0, <1>1, <1>2, <1>3 DEF CountsAgree
<1>6. TypeOK'
  <2>1. app \in [status : Statuses, pipeline : BOOLEAN, shap : BOOLEAN, frame : 0..MaxFrames]
    BY <1>0 DEF TypeOK
  <2>2. Head(queue) \in 0..MaxFrames
    BY <1>1, <1>3
  <2>3. app' \in [status : Statuses, pipeline : BOOLEAN, shap : BOOLEAN, frame : 0..MaxFrames]
    BY <1>2, <2>1, <2>2
  <2>4. taken' \in 0..MaxFrames
    BY <1>0, <1>1, <1>2, <1>3 DEF CountsAgree
  <2>5. Len(queue') <= QueueMax
    BY <1>1, <1>3
  <2> QED
    BY <1>0, <1>2, <1>3, <2>2, <2>3, <2>4, <2>5 DEF TypeOK, WriterBusy
<1>7. QueueIsNewest'
  <2> SUFFICES ASSUME NEW i \in DOMAIN queue'
               PROVE  queue'[i] = produced' - Len(queue') + i
    BY DEF QueueIsNewest
  <2>1. i \in Nat /\ queue'[i] = queue[i + 1] /\ i + 1 \in DOMAIN queue
    BY <1>3
  <2>2. queue[i + 1] = produced - Len(queue) + (i + 1)
    BY <1>4, <2>1
  <2> QED
    BY <1>1, <1>2, <1>3, <2>1, <2>2
<1>8. CommitsBehind'
  <2>1. 1 \in DOMAIN queue
    BY <1>3
  <2>2. held' \in 1..produced' /\ held' = produced - Len(queue) + 1
    <3>1. queue[1] = produced - Len(queue) + 1
      BY <1>4, <2>1
    <3> QED
      BY <1>1, <1>2, <1>3, <3>1
  <2>3. \A i \in DOMAIN stored' : stored'[i] <= produced'
    BY <1>0, <1>2 DEF CommitsBehind
  <2>4. \A i \in DOMAIN stored' : stored'[i] < held'
    BY <1>0, <1>2, <1>3, <2>1 DEF CommitsBehind
  <2>5. \A i \in DOMAIN stored', j \in DOMAIN queue' : stored'[i] < queue'[j]
    BY <1>0, <1>2, <1>3 DEF CommitsBehind
  <2>6. \A j \in DOMAIN queue' : held' < queue'[j]
    <3> TAKE j \in DOMAIN queue'
    <3>1. j \in Nat /\ j >= 1 /\ queue'[j] = produced - Len(queue) + (j + 1)
      BY <1>3, <1>4
    <3> QED
      BY <1>1, <1>3, <2>2, <3>1
  <2> QED
    BY <2>2, <2>3, <2>4, <2>5, <2>6 DEF CommitsBehind
<1>9. StoredInOrder'
  BY <1>0, <1>2 DEF StoredInOrder
<1>10. Phases'
  <2>1. worker \in {"serving", "await_writer"}
    BY <1>0, <1>1 DEF Phases, Idle, TypeOK, WriterBusy
  <2> QED
    BY <1>0, <1>2, <2>1 DEF Phases
<1> QED
  BY <1>5, <1>6, <1>7, <1>8, <1>9, <1>10 DEF IInv

(* A commit appends the held frame, which is newer than all before it.     *)
LEMMA PersistViolationsKeeps == ASSUME IInv, PersistViolations PROVE IInv'
<1>0. TypeOK /\ CountsAgree /\ QueueIsNewest /\ CommitsBehind /\ StoredInOrder /\ Phases
  BY DEF IInv
<1>1. /\ stored' = Append(stored, held)
      /\ writer = "violations" /\ writer' \in {"snapshot", "waiting"}
      /\ UNCHANGED <<app, worker, stopping, queue, shap, cancelled, held, taken, starts, running, loop, produced>>
  BY DEF PersistViolations, AfterViolations, loopVars
<1>2. /\ stored \in Seq(1..MaxFrames) /\ produced \in 0..MaxFrames /\ MaxFrames \in Nat
      /\ held \in 1..produced
      /\ \A i \in DOMAIN stored : stored[i] < held
      /\ \A j \in DOMAIN queue : held < queue[j]
  BY <1>0, <1>1, RuntimeAssumption DEF TypeOK, CommitsBehind
<1>3. held \in 1..MaxFrames
  BY <1>2
<1>4. /\ stored' \in Seq(1..MaxFrames)
      /\ Len(stored) \in Nat
      /\ DOMAIN stored = 1..Len(stored) /\ DOMAIN stored' = 1..(Len(stored) + 1)
      /\ \A i \in DOMAIN stored : stored'[i] = stored[i]
      /\ stored'[Len(stored) + 1] = held
  BY <1>1, <1>2, <1>3, AppendFacts
<1>5. \A i \in DOMAIN stored' : i \in DOMAIN stored \/ i = Len(stored) + 1
  BY <1>4
<1>6. TypeOK'
  BY <1>0, <1>1, <1>4 DEF TypeOK, WriterBusy
<1>7. CountsAgree' /\ QueueIsNewest'
  BY <1>0, <1>1 DEF CountsAgree, QueueIsNewest
<1>8. CommitsBehind'
  <2>1. \A i \in DOMAIN stored' : stored'[i] <= produced'
    BY <1>0, <1>1, <1>2, <1>4, <1>5 DEF CommitsBehind
  <2>2. \A i \in DOMAIN stored', j \in DOMAIN queue' : stored'[i] < queue'[j]
    BY <1>0, <1>1, <1>2, <1>4, <1>5 DEF CommitsBehind
  <2> QED
    BY <1>1, <2>1, <2>2 DEF CommitsBehind
<1>9. StoredInOrder'
  <2> SUFFICES ASSUME NEW i \in DOMAIN stored', NEW j \in DOMAIN stored', i < j
               PROVE  stored'[i] < stored'[j]
    BY DEF StoredInOrder
  <2>1. i \in DOMAIN stored
    BY <1>4, <1>5
  <2>2. CASE j \in DOMAIN stored
    BY <1>0, <1>4, <2>1, <2>2 DEF StoredInOrder
  <2>3. CASE j = Len(stored) + 1
    BY <1>2, <1>4, <2>1, <2>3
  <2> QED
    BY <1>5, <2>2, <2>3
<1>10. Phases'
  <2>1. worker \in {"serving", "await_writer"}
    BY <1>0, <1>1 DEF Phases, Idle, WriterBusy
  <2> QED
    BY <1>0, <1>1, <2>1 DEF Phases
<1> QED
  BY <1>6, <1>7, <1>8, <1>9, <1>10 DEF IInv

(* The writer's other steps move no frame.                                 *)
LEMMA WriterKeeps ==
  ASSUME IInv, ResultsEnd \/ PersistSnapshot \/ WriteFails \/ WriterCancelled
  PROVE  IInv'
<1>0. TypeOK /\ Phases
  BY DEF IInv
<1>1. /\ UNCHANGED <<app, worker, stopping, queue, shap, cancelled, held, taken, stored, starts, running, loop, produced>>
      /\ writer' \in {"ended", "waiting", "dead"}
      /\ writer \in WriterBusy
  BY DEF ResultsEnd, PersistSnapshot, WriteFails, WriterCancelled, WriterBusy, loopVars
<1>2. CountsAgree' /\ QueueIsNewest' /\ CommitsBehind' /\ StoredInOrder'
  BY <1>1, FramesKept
<1>3. TypeOK'
  BY <1>0, <1>1 DEF TypeOK, WriterBusy
<1>4. worker \in {"serving", "await_writer"}
  BY <1>0, <1>1 DEF Phases, Idle
<1>5. Phases'
  BY <1>0, <1>1, <1>4 DEF Phases
<1> QED
  BY <1>2, <1>3, <1>5 DEF IInv

LEMMA NextIInv == IInv /\ [Next]_vars => IInv'
<1> SUFFICES ASSUME IInv, [Next]_vars PROVE IInv'
  OBVIOUS
<1>1. CASE Start \/ Stop \/ BootUnavailable \/ BootFails \/ ShapReady \/ ShapFails
           \/ ShutDown \/ StopPipeline \/ ClearState
  BY <1>1, WorkerKeeps
<1>2. CASE Boot
  BY <1>2, BootKeeps
<1>3. CASE OpenSource \/ LoopCrashes \/ ReadFrame \/ SourceEnds
  BY <1>3, LoopKeeps
<1>4. CASE QueueResult
  BY <1>4, QueueResultKeeps
<1>5. CASE TakeResult
  BY <1>5, TakeResultKeeps
<1>6. CASE PersistViolations
  BY <1>6, PersistViolationsKeeps
<1>7. CASE ResultsEnd \/ PersistSnapshot \/ WriteFails \/ WriterCancelled
  BY <1>7, WriterKeeps
<1>8. CASE UNCHANGED vars
  BY <1>8 DEF vars, IInv, TypeOK, CountsAgree, QueueIsNewest, CommitsBehind,
              StoredInOrder, Phases, Idle
<1> QED
  BY <1>1, <1>2, <1>3, <1>4, <1>5, <1>6, <1>7, <1>8
  DEF Next, LoopStep, WriterStep, WorkerStep

LEMMA InvariantHolds == Spec => []IInv
<1> QED
  BY InitIInv, NextIInv, PTL DEF Spec

(* AppState, the tasks and the bounded queue keep their types: the put of  *)
(* InferencePipeline._run never finds the queue full.                      *)
THEOREM TypeCorrect == Spec => []TypeOK
<1>1. IInv => TypeOK
  BY DEF IInv
<1> QED
  BY <1>1, InvariantHolds, PTL

(* No frame's violations are committed twice or out of order, for any      *)
(* frames, failures and restarts of the worker.                            *)
THEOREM StoredAlwaysInOrder == Spec => []StoredInOrder
<1>1. IInv => StoredInOrder
  BY DEF IInv
<1> QED
  BY <1>1, InvariantHolds, PTL

(* The result queue always holds the newest results without a gap.         *)
THEOREM QueueAlwaysNewest == Spec => []QueueIsNewest
<1>1. IInv => QueueIsNewest
  BY DEF IInv
<1> QED
  BY <1>1, InvariantHolds, PTL

(* A dead worker thread leaves nothing behind in AppState and no task that *)
(* could publish to it.                                                    *)
THEOREM AlwaysCleanWhenOff == Spec => []CleanWhenOff
<1>1. IInv => CleanWhenOff
  <2> SUFFICES ASSUME IInv, worker = "off" PROVE CleanWhenOff
    BY DEF CleanWhenOff
  <2>1. TypeOK /\ Phases
    BY DEF IInv
  <2>2. ~app.pipeline /\ ~app.shap /\ app.frame = NoFrame /\ app.status # "running" /\ Idle /\ shap # "loading"
    BY <2>1 DEF Phases
  <2>3. app \in [status : Statuses, pipeline : BOOLEAN, shap : BOOLEAN, frame : 0..MaxFrames]
    BY <2>1 DEF TypeOK
  <2>4. app = Cleared(app.status)
    BY <2>2, <2>3 DEF Cleared
  <2> QED
    BY <2>2, <2>4 DEF CleanWhenOff, Idle
<1> QED
  BY <1>1, InvariantHolds, PTL
=============================================================================
