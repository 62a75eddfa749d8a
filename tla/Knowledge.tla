----------------------------- MODULE Knowledge -----------------------------
(***************************************************************************)
(* The knowledge base: the ingestor (rag/ingestor.py) and its collection   *)
(* "safety_knowledge", whose ids make a second run harmless; the scripts   *)
(* of rag/ingest, which add without ids to the collections the chatbot     *)
(* reads; and the SafetyRetriever of the first.  All are run by hand: the  *)
(* route /chat/ingest/trigger omits a required argument, and always fails. *)
(* Fewer rows than the LIMIT of 2000 of the queries.                       *)
(***************************************************************************)
EXTENDS Naturals, Sequences, FiniteSets, FiniteSetsExt

CONSTANTS
  DayZones,       \* the groups of the ingestor: a day in a zone
  LongBreakdowns, \* of these the first 200 characters end before the acknowledgements
  MaxDayRows,        \* bound on violation_events
  Files,          \* documents
  ChunksOf,       \* a function of Files
  AddBatch,       \* batch_size of add_documents
  MaxCopies,      \* bound: how often one document is added
  TopK, Scores, MinScore

VARIABLES
  dayRows,       \* violation_events: zone and whether acknowledged
  ingestRun,  \* an ingest_violations_db between its query and its groups
  summaries,  \* safety_knowledge: ids of the summaries ...
  chunked,    \* ... and how many chunks of each file
  rowCopies,  \* collection violations: how often each row was added
  fileCopies, \* collections regulations and sops
  found       \* the last result of SafetyRetriever.retrieve
knowledgeVars == <<dayRows, ingestRun, summaries, chunked, rowCopies, fileCopies, found>>

NoRun == [at |-> "idle"]

KnowledgeInit ==
  /\ dayRows = <<>>
  /\ ingestRun = NoRun
  /\ summaries = {}
  /\ chunked = [f \in Files |-> 0]
  /\ rowCopies = [i \in 1 .. MaxDayRows |-> 0]
  /\ fileCopies = [f \in Files |-> 0]
  /\ found = {}

(* the event writer and the acknowledgements, outside these components *)
RowWritten ==
  /\ Len(dayRows) < MaxDayRows
  /\ \E z \in DayZones : dayRows' = Append(dayRows, [zone |-> z, acked |-> FALSE])
  /\ UNCHANGED <<ingestRun, summaries, chunked, rowCopies, fileCopies, found>>

RowAcknowledged ==
  /\ \E i \in DOMAIN dayRows : ~dayRows[i].acked /\ dayRows' = [dayRows EXCEPT ![i].acked = TRUE]
  /\ UNCHANGED <<ingestRun, summaries, chunked, rowCopies, fileCopies, found>>

-----------------------------------------------------------------------------
(* One paragraph for each day and zone; its id is a hash of its beginning, *)
(* so that a group that has grown is a new document beside the old one.    *)
Group(snapshot, z) == {i \in DOMAIN snapshot : snapshot[i].zone = z}
StableDocId(snapshot, z) ==
  LET group == Group(snapshot, z) IN
  [zone |-> z, events |-> Cardinality(group),
   acked |-> IF z \in LongBreakdowns THEN 0 ELSE Cardinality({i \in group : snapshot[i].acked})]

(* ingest_violations_db awaits its query ... *)
ReadViolations ==
  /\ ingestRun = NoRun
  /\ ingestRun' = [at |-> "groups", snapshot |-> dayRows]
  /\ UNCHANGED <<dayRows, summaries, chunked, rowCopies, fileCopies, found>>

(* ... and adds the groups it does not have; an embedding that fails ends  *)
(* it, with some of them added.                                            *)
AddSummaries ==
  LET groups == {z \in DayZones : Group(ingestRun.snapshot, z) # {}} IN
  /\ ingestRun.at = "groups"
  /\ \E done \in SUBSET groups :
       summaries' = summaries \cup {StableDocId(ingestRun.snapshot, z) : z \in done}
  /\ ingestRun' = NoRun
  /\ UNCHANGED <<dayRows, chunked, rowCopies, fileCopies, found>>

(* ingest_safety_docs: chunk by chunk; a file that fails keeps the chunks  *)
(* it has, and the next file follows.                                      *)
IngestSafetyDocs ==
  /\ \E reached \in [Files -> UNION {0 .. ChunksOf[f] : f \in Files}] :
       /\ \A f \in Files : reached[f] \in chunked[f] .. ChunksOf[f]
       /\ chunked' = reached
  /\ UNCHANGED <<dayRows, ingestRun, summaries, rowCopies, fileCopies, found>>

-----------------------------------------------------------------------------
(* add_documents: batch by batch; one that fails is skipped *)
Batches(n) == 0 .. (n + AddBatch - 1) \div AddBatch - 1
InBatch(i, b) == (i - 1) \div AddBatch = b

(* ingest_violations of the script: a document for every row, newest first *)
ScriptViolations ==
  LET n == Len(dayRows) IN
  /\ n > 0 /\ \A i \in 1 .. n : rowCopies[i] < MaxCopies
  /\ \E stored \in SUBSET Batches(n) :
       rowCopies' = [i \in 1 .. MaxDayRows |-> rowCopies[i] +
         (IF i <= n /\ \E b \in stored : InBatch(n + 1 - i, b) THEN 1 ELSE 0)]
  /\ UNCHANGED <<dayRows, ingestRun, summaries, chunked, fileCopies, found>>

(* ingest_all: the files that can be read, added without looking for them *)
ScriptFiles ==
  /\ \A f \in Files : fileCopies[f] < MaxCopies
  /\ \E stored \in SUBSET Files :
       fileCopies' = [f \in Files |-> fileCopies[f] + (IF f \in stored THEN 1 ELSE 0)]
  /\ UNCHANGED <<dayRows, ingestRun, summaries, chunked, rowCopies, found>>

-----------------------------------------------------------------------------
Chunks == {[file |-> f, index |-> i] : f \in Files, i \in 1 .. Max({ChunksOf[f] : f \in Files})}
Stored == summaries \cup {c \in Chunks : c.index <= chunked[c.file]}

(* The metadata a filter looks at.  The source of a chunk is the name of   *)
(* its file: the filter "safety_document" matches none.                    *)
Filters == {[kind |-> "none"], [kind |-> "source", source |-> "violations_db"],
            [kind |-> "source", source |-> "safety_document"]}
             \cup {[kind |-> "zone", zone |-> z] : z \in DayZones}
Matches(d, filter) ==
  \/ filter.kind = "none"
  \/ d \in summaries /\ filter.kind = "source" /\ filter.source = "violations_db"
  \/ d \in summaries /\ filter.kind = "zone" /\ d.zone = filter.zone

(* SafetyRetriever.retrieve: the nearest k of those that match, of which   *)
(* the ones that score enough; nothing when the model or the index fails   *)
RetrieveSources(filter) ==
  LET matching == {d \in Stored : Matches(d, filter)}
      k == Min({TopK, Max({Cardinality(Stored), 1}), Cardinality(matching)})
  IN
  /\ \/ found' = {}
     \/ \E score \in [matching -> Scores] : \E nearest \in kSubset(k, matching) :
          /\ \A d \in nearest, e \in matching \ nearest : score[d] >= score[e]
          /\ found' = {d \in nearest : score[d] >= MinScore}
  /\ UNCHANGED <<dayRows, ingestRun, summaries, chunked, rowCopies, fileCopies>>

KnowledgeNext ==
  \/ RowWritten \/ RowAcknowledged
  \/ ReadViolations \/ AddSummaries \/ IngestSafetyDocs
  \/ ScriptViolations \/ ScriptFiles
  \/ \E filter \in Filters : RetrieveSources(filter)
=============================================================================
