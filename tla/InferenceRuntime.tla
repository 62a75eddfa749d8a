-------------------------- MODULE InferenceRuntime --------------------------
(***************************************************************************)
(* The single-camera inference path: PipelineRuntime (backend/pipeline.py) *)
(* owns a worker thread with its own event loop; on that loop run the      *)
(* frame loop of InferencePipeline (backend/inference/pipeline.py), the    *)
(* event writer (backend/event_writer.py) and the SHAP initialisation;     *)
(* all of them publish to AppState (backend/state.py), which the HTTP      *)
(* routes read.                                                            *)
(*                                                                         *)
(* A frame is its position among the results the loop has queued; what a   *)
(* frame shows is abstracted to whether it carries violations.  Tasks      *)
(* interleave at their awaits.  Reads that time out, malformed frames and  *)
(* skipped frames only make the loop read again and are not steps.         *)
(***************************************************************************)
EXTENDS Naturals, Sequences

CONSTANTS
  QueueMax,          \* queue_maxsize of InferencePipeline
  Violating,         \* the frames that carry violations
  SnapshotInterval,  \* ZONE_RISK_SNAPSHOT_INTERVAL
  DbMayFail,         \* whether a database write can raise
  CancelMayBeLost,   \* whether asyncio.wait_for can swallow a cancellation
  MaxFrames,         \* bound: results queued
  MaxStarts          \* bound: calls of PipelineRuntime.start

ASSUME RuntimeAssumption ==
  /\ QueueMax \in Nat \ {0}
  /\ SnapshotInterval \in Nat \ {0}
  /\ DbMayFail \in BOOLEAN
  /\ CancelMayBeLost \in BOOLEAN
  /\ MaxFrames \in Nat
  /\ MaxStarts \in Nat

NoFrame == 0

VARIABLES
  app,       \* AppState: status, pipeline, shap, and the latest frame
  worker,    \* where PipelineRuntime._run is; "off" when the thread is dead
  stopping,  \* PipelineRuntime._stop_event
  running,   \* InferencePipeline._running
  loop,      \* where InferencePipeline._run is
  queue,     \* InferencePipeline._queue
  shap,      \* the SHAP initialisation task
  writer,    \* where start_event_writer is
  cancelled, \* a cancellation of the event writer is pending
  held,      \* the frame the event writer took last
  taken,     \* its frame_count
  produced,  \* results queued since the first start
  stored,    \* frames whose violations were committed, in commit order
  starts     \* calls of start counted against MaxStarts

loopVars == <<running, loop, produced>>
writerVars == <<writer, cancelled, held, taken, stored>>
vars == <<app, worker, stopping, running, loop, queue, shap,
          writer, cancelled, held, taken, produced, stored, starts>>

Statuses == {"stopped", "starting", "running", "degraded"}
WriterBusy == {"waiting", "violations", "snapshot"}

Init ==
  /\ app = [status |-> "stopped", pipeline |-> FALSE, shap |-> FALSE, frame |-> NoFrame]
  /\ worker = "off"
  /\ stopping = FALSE
  /\ running = FALSE
  /\ loop = "off"
  /\ queue = << >>
  /\ shap = "off"
  /\ writer = "off"
  /\ cancelled = FALSE
  /\ held = NoFrame
  /\ taken = 0
  /\ produced = 0
  /\ stored = << >>
  /\ starts = 0

-----------------------------------------------------------------------------
(* PipelineRuntime.start and stop, called from the API's lifespan.  A      *)
(* start while the thread is alive only logs a warning.  stop sets the     *)
(* event; its join changes nothing, and gives up after 20 seconds.         *)

Start ==
  /\ worker = "off"
  /\ starts < MaxStarts
  /\ starts' = starts + 1
  /\ stopping' = FALSE
  /\ app' = [app EXCEPT !.status = "starting"]
  /\ worker' = "booting"
  /\ UNCHANGED <<running, loop, queue, shap, produced, writerVars>>

Stop ==
  /\ ~stopping
  /\ starts > 0
  /\ stopping' = TRUE
  /\ UNCHANGED <<app, worker, queue, shap, starts, loopVars, writerVars>>

(* The models load and the tasks are created; a pipeline is born with an   *)
(* empty queue.                                                            *)
Boot ==
  /\ worker = "booting"
  /\ worker' = "serving"
  /\ app' = [app EXCEPT !.pipeline = TRUE, !.status = "running"]
  /\ running' = TRUE
  /\ loop' = "opening"
  /\ queue' = << >>
  /\ shap' = "loading"
  /\ writer' = "waiting"
  /\ cancelled' = FALSE
  /\ held' = NoFrame
  /\ taken' = 0
  /\ UNCHANGED <<stopping, produced, stored, starts>>

(* The inference stack is not installed: the thread returns at once.       *)
BootUnavailable ==
  /\ worker = "booting"
  /\ worker' = "off"
  /\ UNCHANGED <<app, stopping, queue, shap, starts, loopVars, writerVars>>

Cleared(status) == [status |-> status, pipeline |-> FALSE, shap |-> FALSE, frame |-> NoFrame]

(* Model missing or any other exception while the pipeline is built.       *)
BootFails ==
  /\ worker = "booting"
  /\ worker' = "off"
  /\ app' = Cleared("degraded")
  /\ UNCHANGED <<stopping, queue, shap, starts, loopVars, writerVars>>

ShapReady ==
  /\ shap = "loading"
  /\ shap' = "done"
  /\ app' = [app EXCEPT !.shap = TRUE]
  /\ UNCHANGED <<worker, stopping, queue, starts, loopVars, writerVars>>

ShapFails ==
  /\ shap = "loading"
  /\ shap' = "done"
  /\ UNCHANGED <<app, worker, stopping, queue, starts, loopVars, writerVars>>

-----------------------------------------------------------------------------
(* InferencePipeline._run.                                                 *)

OpenSource ==
  /\ loop = "opening"
  /\ loop' = "reading"
  /\ UNCHANGED <<app, worker, stopping, running, queue, shap, produced, starts, writerVars>>

(* Any exception: the source does not open, a detector or tracker raises.  *)
(* It is logged and the loop is over; _running is left as it was.          *)
LoopCrashes ==
  /\ loop \in {"opening", "reading", "processing"}
  /\ loop' = "crashed"
  /\ UNCHANGED <<app, worker, stopping, running, queue, shap, produced, starts, writerVars>>

ReadFrame ==
  /\ loop = "reading"
  /\ running
  /\ produced < MaxFrames
  /\ loop' = "processing"
  /\ UNCHANGED <<app, worker, stopping, running, queue, shap, produced, starts, writerVars>>

(* A webcam that stops delivering frames stops the pipeline.               *)
SourceEnds ==
  /\ loop = "reading"
  /\ running' = FALSE
  /\ loop' = "ended"
  /\ UNCHANGED <<app, worker, stopping, queue, shap, produced, starts, writerVars>>

\* Mutant: a full queue drops the newest result.
QueueResult_DropNewest ==
  /\ loop = "processing"
  /\ queue' = IF Len(queue) = QueueMax THEN queue ELSE Append(queue, produced + 1)
  /\ produced' = produced + 1
  /\ loop' = "reading"
  /\ UNCHANGED <<app, worker, stopping, running, shap, starts, writerVars>>

QueueResult ==
  /\ loop = "processing"
  /\ LET room == IF Len(queue) = QueueMax THEN Tail(queue) ELSE queue
     IN  queue' = Append(room, produced + 1)
  /\ produced' = produced + 1
  /\ loop' = "reading"
  /\ UNCHANGED <<app, worker, stopping, running, shap, starts, writerVars>>

-----------------------------------------------------------------------------
(* start_event_writer over InferencePipeline.results().  Once the worker   *)
(* has cancelled the writer, its next await raises and it takes no more.   *)

AfterViolations(count) ==
  IF count % SnapshotInterval = 0 THEN "snapshot" ELSE "waiting"

\* Mutant: the snapshot replaces the violations of its frame.
TakeResult_SnapshotFirst ==
  /\ writer = "waiting"
  /\ ~cancelled
  /\ queue # << >>
  /\ held' = Head(queue)
  /\ queue' = Tail(queue)
  /\ taken' = taken + 1
  /\ app' = [app EXCEPT !.frame = Head(queue)]
  /\ writer' = IF AfterViolations(taken + 1) = "snapshot" THEN "snapshot"
               ELSE IF Head(queue) \in Violating THEN "violations" ELSE "waiting"
  /\ UNCHANGED <<worker, stopping, shap, cancelled, stored, starts, loopVars>>

TakeResult ==
  /\ writer = "waiting"
  /\ ~cancelled
  /\ queue # << >>
  /\ held' = Head(queue)
  /\ queue' = Tail(queue)
  /\ taken' = taken + 1
  /\ app' = [app EXCEPT !.frame = Head(queue)]
  /\ writer' = IF Head(queue) \in Violating THEN "violations"
                                            ELSE AfterViolations(taken + 1)
  /\ UNCHANGED <<worker, stopping, shap, cancelled, stored, starts, loopVars>>

ResultsEnd ==
  /\ writer = "waiting"
  /\ ~running
  /\ queue = << >>
  /\ writer' = "ended"
  /\ UNCHANGED <<app, worker, stopping, queue, shap, cancelled, held, taken, stored, starts, loopVars>>

PersistViolations ==
  /\ writer = "violations"
  /\ stored' = Append(stored, held)
  /\ writer' = AfterViolations(taken)
  /\ UNCHANGED <<app, worker, stopping, queue, shap, cancelled, held, taken, starts, loopVars>>

PersistSnapshot ==
  /\ writer = "snapshot"
  /\ writer' = "waiting"
  /\ UNCHANGED <<app, worker, stopping, queue, shap, cancelled, held, taken, stored, starts, loopVars>>

\* Mutant: a write that raises after its commit is tried again.
WriteFails_Retried ==
  /\ DbMayFail
  /\ writer = "violations"
  /\ Len(stored) < MaxFrames
  /\ stored' = Append(stored, held)
  /\ UNCHANGED <<app, worker, stopping, queue, shap, writer, cancelled, held, taken, starts, loopVars>>

(* A failed write is rolled back and re-raised, and ends the writer task.  *)
WriteFails ==
  /\ DbMayFail
  /\ writer \in {"violations", "snapshot"}
  /\ writer' = "dead"
  /\ UNCHANGED <<app, worker, stopping, queue, shap, cancelled, held, taken, stored, starts, loopVars>>

\* Mutant: results() resumes its loop when it is cancelled.
WriterCancelled_Resumes ==
  /\ cancelled
  /\ writer \in {"violations", "snapshot"}
  /\ writer' = "ended"
  /\ UNCHANGED <<app, worker, stopping, queue, shap, cancelled, held, taken, stored, starts, loopVars>>

WriterCancelled ==
  /\ cancelled
  /\ writer \in WriterBusy
  /\ writer' = "ended"
  /\ UNCHANGED <<app, worker, stopping, queue, shap, cancelled, held, taken, stored, starts, loopVars>>

-----------------------------------------------------------------------------
(* The worker after the stop event: cancel the SHAP task, cancel the event *)
(* writer and wait for it, stop the pipeline, clear AppState.              *)

(* In Python 3.11, the version the project pins, a cancellation that meets *)
(* wait_for between the completion of its queue.get and its own wake-up is *)
(* swallowed: wait_for returns the result.                                 *)
SwallowedByWaitFor == CancelMayBeLost /\ writer = "waiting" /\ queue # << >>

ShutDown ==
  /\ worker = "serving"
  /\ stopping
  /\ worker' = "await_writer"
  /\ shap' = "done"
  /\ \/ cancelled' = TRUE
     \/ SwallowedByWaitFor /\ UNCHANGED cancelled
  /\ UNCHANGED <<app, stopping, queue, starts, loopVars, writer, held, taken, stored>>

\* Mutant: the cancelled writer is not waited for.
StopPipeline_NoWait ==
  /\ worker = "await_writer"
  /\ running' = FALSE
  /\ loop' = IF loop = "crashed" THEN "crashed" ELSE "ended"
  /\ worker' = "clearing"
  /\ UNCHANGED <<app, stopping, queue, shap, produced, starts, writerVars>>

StopPipeline ==
  /\ worker = "await_writer"
  /\ writer \notin WriterBusy
  /\ running' = FALSE
  /\ loop' = IF loop = "crashed" THEN "crashed" ELSE "ended"
  /\ worker' = "clearing"
  /\ UNCHANGED <<app, stopping, queue, shap, produced, starts, writerVars>>

ClearState ==
  /\ worker = "clearing"
  /\ app' = Cleared(IF app.status = "running" THEN "stopped" ELSE app.status)
  /\ worker' = "off"
  /\ UNCHANGED <<stopping, queue, shap, starts, loopVars, writerVars>>

-----------------------------------------------------------------------------
LoopStep == OpenSource \/ LoopCrashes \/ ReadFrame \/ SourceEnds \/ QueueResult

WriterStep ==
  \/ TakeResult
  \/ ResultsEnd
  \/ PersistViolations
  \/ PersistSnapshot
  \/ WriteFails
  \/ WriterCancelled

WorkerStep ==
  \/ Boot \/ BootUnavailable \/ BootFails
  \/ ShutDown \/ StopPipeline \/ ClearState

Next == Start \/ Stop \/ ShapReady \/ ShapFails \/ LoopStep \/ WriterStep \/ WorkerStep

Spec == Init /\ [][Next]_vars

(* The event loop runs every task that is ready, model loading returns or  *)
(* raises, and a database write returns or raises.  Nothing forces a stop. *)
FairSpec == Spec /\ WF_vars(WriterStep) /\ WF_vars(WorkerStep)

-----------------------------------------------------------------------------
(* AppState and the tasks have their types and the queue respects its      *)
(* bound.                                                                  *)
TypeOK ==
  /\ app \in [status : Statuses, pipeline : BOOLEAN, shap : BOOLEAN, frame : 0..MaxFrames]
  /\ worker \in {"off", "booting", "serving", "await_writer", "clearing"}
  /\ stopping \in BOOLEAN
  /\ running \in BOOLEAN
  /\ loop \in {"off", "opening", "reading", "processing", "ended", "crashed"}
  /\ queue \in Seq(1..MaxFrames) /\ Len(queue) <= QueueMax
  /\ shap \in {"off", "loading", "done"}
  /\ writer \in WriterBusy \cup {"off", "ended", "dead"}
  /\ cancelled \in BOOLEAN
  /\ held \in 0..MaxFrames
  /\ taken \in 0..MaxFrames
  /\ produced \in 0..MaxFrames
  /\ stored \in Seq(1..MaxFrames)
  /\ starts \in 0..MaxStarts

(* Once the worker thread is gone nothing of it is left behind: the routes *)
(* see no pipeline, no explainer and no frame, and no task that could      *)
(* publish one again is alive.                                             *)
CleanWhenOff ==
  worker = "off" =>
    /\ app = Cleared(app.status)
    /\ app.status # "running"
    /\ loop \notin {"opening", "reading", "processing"}
    /\ writer \notin WriterBusy
    /\ shap # "loading"

(* No violation is committed twice or out of frame order, whatever was     *)
(* dropped, failed or restarted in between.                                *)
StoredInOrder ==
  \A i, j \in DOMAIN stored : i < j => stored[i] < stored[j]

(* Back-pressure drops the oldest results only: what waits in the queue is *)
(* an unbroken run that ends with the newest result.                       *)
QueueIsNewest ==
  \A i \in DOMAIN queue : queue[i] = produced - Len(queue) + i

(* The worker waits for a writer whose cancellation wait_for swallowed. *)
WaitsForUncancelled == worker = "await_writer" /\ writer \in WriterBusy /\ ~cancelled

(* A requested stop ends the worker thread, also when the writer is dead,  *)
(* in a write or waiting for a frame; a swallowed cancellation is the only *)
(* thing that can keep it.                                                 *)
StopTerminates ==
  (stopping /\ worker # "off") ~> (worker = "off" \/ WaitsForUncancelled)

Queued(f) == \E i \in DOMAIN queue : queue[i] = f
Stored(f) == \E i \in DOMAIN stored : stored[i] = f

(* A queued frame with violations is committed; what can prevent it is     *)
(* back-pressure before the writer takes it, a write that fails and kills  *)
(* the writer, and a stop.  The writer never skips what it took.           *)
ViolationsReachDb ==
  \A f \in Violating :
    (Queued(f) /\ worker = "serving")
      ~> (Stored(f) \/ (~Queued(f) /\ held < f) \/ writer = "dead" \/ worker # "serving")
=============================================================================
