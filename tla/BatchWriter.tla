---------------------------- MODULE BatchWriter ----------------------------
(***************************************************************************)
(* BatchWriter (backend/performance/batch_writer.py): violation records    *)
(* are buffered and written in one INSERT per flush, by the background     *)
(* flush loop, by callers of force_flush and by stop.  A flush empties the *)
(* buffer in one step and then waits for the database, so flushes overlap  *)
(* with each other and with enqueue.  The lock of the code is never held   *)
(* across an await and therefore orders nothing.                           *)
(*                                                                         *)
(* A record is its position among the accepted ones.                       *)
(***************************************************************************)
EXTENDS Naturals, Sequences, FiniteSets

CONSTANTS
  BatchMax,    \* batch_max_size: how many records of a failed flush return
  BufferMax,   \* max_buffer_size
  Callers,     \* concurrent callers of force_flush
  DbMayFail,   \* whether an INSERT or its commit can raise for a passing reason
  AddedColumns,\* columns that violation_events has got since it was created
  MaxRecords,  \* bound: records accepted
  MaxRepeats   \* bound: commits of one record that take effect and raise

ASSUME WriterAssumption ==
  /\ BatchMax \in Nat \ {0}
  /\ BufferMax \in Nat /\ BufferMax >= BatchMax
  /\ DbMayFail \in BOOLEAN
  /\ MaxRecords \in Nat /\ MaxRepeats \in Nat

Loop == "flush_loop"
Stopper == "stop"
Flushers == Callers \cup {Loop, Stopper}

ASSUME CallersAssumption == Callers \cap {Loop, Stopper} = {}

VARIABLES
  buffer,    \* _buffer
  batch,     \* the records a flusher took and is writing
  table,     \* violation_events: how many rows it has of each record
  accepted,  \* records for which enqueue returned True
  written,   \* _total_written
  dropped,   \* _total_dropped
  stage,     \* "new", "running", "flushing" (stop's last flush), "stopped"
  repeats    \* history: commits of each record that took effect and raised

vars == <<buffer, batch, table, accepted, written, dropped, stage, repeats>>

NoRecords == << >>
Elements(s) == {s[i] : i \in DOMAIN s}
Copies(s, r) == Cardinality({i \in DOMAIN s : s[i] = r})

Init ==
  /\ buffer = NoRecords
  /\ batch = [f \in Flushers |-> NoRecords]
  /\ table = [r \in 1..MaxRecords |-> 0]
  /\ accepted = 0
  /\ written = 0
  /\ dropped = 0
  /\ stage = "new"
  /\ repeats = [r \in 1..MaxRecords |-> 0]

-----------------------------------------------------------------------------
Start ==
  /\ stage = "new"
  /\ stage' = "running"
  /\ UNCHANGED <<buffer, batch, table, accepted, written, dropped, repeats>>

\* Mutant: a full buffer drops the new record, which counts as accepted.
Enqueue_DropsNewest ==
  /\ accepted < MaxRecords
  /\ accepted' = accepted + 1
  /\ IF Len(buffer) >= BufferMax
       THEN dropped' = dropped + 1 /\ UNCHANGED buffer
       ELSE buffer' = Append(buffer, accepted + 1) /\ UNCHANGED dropped
  /\ UNCHANGED <<batch, table, written, stage, repeats>>

Enqueue ==
  /\ accepted < MaxRecords
  /\ accepted' = accepted + 1
  /\ IF Len(buffer) >= BufferMax
       THEN buffer' = Append(Tail(buffer), accepted + 1) /\ dropped' = dropped + 1
       ELSE buffer' = Append(buffer, accepted + 1) /\ UNCHANGED dropped
  /\ UNCHANGED <<batch, table, written, stage, repeats>>

\* Mutant: the loop flushes full batches only.
MayFlush_FullOnly(f) ==
  /\ batch[f] = NoRecords
  /\ IF f = Stopper THEN stage = "flushing"
     ELSE IF f = Loop THEN stage = "running" /\ Len(buffer) >= BatchMax
     ELSE stage # "new"

(* Who may call _flush now; the database is known only after start. *)
MayFlush(f) ==
  /\ batch[f] = NoRecords
  /\ IF f = Stopper THEN stage = "flushing"
     ELSE IF f = Loop THEN stage = "running"
     ELSE stage # "new"

TakeAll(f) ==
  /\ MayFlush(f)
  /\ buffer # NoRecords
  /\ batch' = [batch EXCEPT ![f] = buffer]
  /\ buffer' = NoRecords
  /\ UNCHANGED <<table, accepted, written, dropped, stage, repeats>>

FlushEnds(f) ==
  /\ batch' = [batch EXCEPT ![f] = NoRecords]
  /\ stage' = IF f = Stopper THEN "stopped" ELSE stage

(* The columns the INSERT names, and those the table is created with: one  *)
(* INSERT of all records either fits the table or does nothing.            *)
InsertColumns ==
  {"track_id", "class_name", "confidence", "zone_id", "bbox_x1", "bbox_y1", "bbox_x2", "bbox_y2",
   "frame_idx", "camera_id", "recorded_at"}
CreatedColumns ==
  {"id", "track_id", "class_name", "confidence", "zone_id", "bbox_x1", "bbox_y1", "bbox_x2", "bbox_y2",
   "acknowledged", "acknowledged_by", "camera_id", "frame_idx", "timestamp", "created_at"}
Fits == InsertColumns \subseteq CreatedColumns \cup AddedColumns

Inserted(f) == [r \in 1..MaxRecords |-> table[r] + Copies(batch[f], r)]

FlushCommits(f) ==
  /\ Fits
  /\ batch[f] # NoRecords
  /\ table' = Inserted(f)
  /\ written' = written + Len(batch[f])
  /\ FlushEnds(f)
  /\ UNCHANGED <<buffer, accepted, dropped, repeats>>

Surplus(s) == IF Len(s) > BatchMax THEN Len(s) - BatchMax ELSE 0

(* Appending to the left of a full deque drops records at its right end. *)
Requeued(s) ==
  LET front == SubSeq(s, 1, Len(s) - Surplus(s)) \o buffer
  IN  IF Len(front) > BufferMax THEN SubSeq(front, 1, BufferMax) ELSE front

(* The INSERT raises, or its commit does, which may have taken effect: the *)
(* code cannot tell and re-queues the records all the same.                *)
FlushFails(f) ==
  /\ batch[f] # NoRecords
  /\ \/ /\ DbMayFail \/ ~Fits
        /\ UNCHANGED <<table, repeats>>
     \/ /\ DbMayFail /\ Fits
        /\ \A r \in Elements(batch[f]) : repeats[r] < MaxRepeats
        /\ table' = Inserted(f)
        /\ repeats' = [r \in 1..MaxRecords |-> repeats[r] + Copies(batch[f], r)]
  /\ buffer' = Requeued(batch[f])
  /\ dropped' = dropped + Surplus(batch[f])
  /\ FlushEnds(f)
  /\ UNCHANGED <<accepted, written>>

\* Mutant: stop puts the batch of the cancelled loop back.
Stop_Requeues ==
  /\ stage = "running"
  /\ stage' = "flushing"
  /\ batch' = [batch EXCEPT ![Loop] = NoRecords]
  /\ buffer' = Requeued(batch[Loop])
  /\ \/ Fits /\ table' = Inserted(Loop)
     \/ UNCHANGED table
  /\ UNCHANGED <<accepted, written, dropped, repeats>>

(* stop cancels the flush loop.  A cancellation inside _flush is not an    *)
(* Exception: the batch in work is not re-queued, and whether its commit   *)
(* had reached the database is open.                                       *)
Stop ==
  /\ stage = "running"
  /\ stage' = "flushing"
  /\ batch' = [batch EXCEPT ![Loop] = NoRecords]
  /\ \/ Fits /\ table' = Inserted(Loop)
     \/ UNCHANGED table
  /\ UNCHANGED <<buffer, accepted, written, dropped, repeats>>

NothingToFlush ==
  /\ stage = "flushing"
  /\ batch[Stopper] = NoRecords
  /\ buffer = NoRecords
  /\ stage' = "stopped"
  /\ UNCHANGED <<buffer, batch, table, accepted, written, dropped, repeats>>

Flush(f) == TakeAll(f) \/ FlushCommits(f) \/ FlushFails(f)

Next ==
  \/ Start \/ Enqueue \/ Stop \/ NothingToFlush
  \/ \E f \in Flushers : Flush(f)

Spec == Init /\ [][Next]_vars

(* The flush loop wakes up again and again, and the database answers every *)
(* flush, with success or failure.                                         *)
FairSpec ==
  /\ Spec
  /\ WF_vars(Start)
  /\ \A f \in Flushers \ Callers : WF_vars(Flush(f))
  /\ \A f \in Flushers : WF_vars(FlushCommits(f) \/ FlushFails(f))

-----------------------------------------------------------------------------
InFlight == UNION {Elements(batch[f]) : f \in Flushers}
Waiting == Elements(buffer) \cup InFlight
Stored == {r \in 1..MaxRecords : table[r] > 0}

(* The buffer respects its bound and everything has its type. *)
TypeOK ==
  /\ buffer \in Seq(1..MaxRecords) /\ Len(buffer) <= BufferMax
  /\ batch \in [Flushers -> Seq(1..MaxRecords)]
  /\ table \in [1..MaxRecords -> Nat] /\ repeats \in [1..MaxRecords -> Nat]
  /\ accepted \in 0..MaxRecords
  /\ written \in Nat
  /\ dropped \in Nat
  /\ stage \in {"new", "running", "flushing", "stopped"}

(* A record has no more rows, written or still to come, than one and one   *)
(* for each of its commits that took effect and raised: flushes that       *)
(* overlap, fail before the commit or are cancelled duplicate nothing.     *)
WrittenOnce ==
  \A r \in 1..MaxRecords : table[r] + (IF r \in Waiting THEN 1 ELSE 0) <= 1 + repeats[r]

Status(r) ==
  IF r > accepted THEN "new"
  ELSE IF r \in Stored THEN "stored"
  ELSE IF r \in Waiting THEN "waiting"
  ELSE "lost"

Promise == INSTANCE Delivery WITH Records <- 1..MaxRecords,
                                  status <- [r \in 1..MaxRecords |-> Status(r)]

(* The writer implements Delivery: a record moves on, and never back. *)
Delivers == Promise!Spec

Stopping == stage \in {"flushing", "stopped"}

(* While the writer runs no record stays in the buffer: it is taken into   *)
(* an INSERT, as often as one fails and puts it back, or pushed out.       *)
KeepsTrying ==
  \A r \in 1..MaxRecords : (r \in Elements(buffer)) ~> (r \notin Elements(buffer) \/ Stopping)

(* Write all buffered violations in one multi-row INSERT                   *)
(* (batch_writer.py:275): with a database that does not fail, no record    *)
(* waits for ever.                                                         *)
EventuallyWritten ==
  \A r \in 1..MaxRecords : (Status(r) = "waiting") ~> (Status(r) # "waiting" \/ Stopping)
=============================================================================
