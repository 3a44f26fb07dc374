-------------------------- MODULE CandidateIngestion --------------------------
(***************************************************************************)
(* Stage 6 and the gateway's half of stage 7: results of the engines are   *)
(* authenticated, checked and written, three artifacts and a sealed record *)
(* one after another, each created once and never overwritten.  Calls run  *)
(* concurrently and may die between two writes.  When every engine has an  *)
(* outcome, the candidates that succeeded are handed over for comparison.  *)
(***************************************************************************)
EXTENDS Naturals, FiniteSets

CONSTANTS
  Requested,   \* the requested engines
  Delivery,    \* concurrent deliveries of results
  Frame,       \* results: [raw_engine_result, musicxml, diagnostic]
  Large        \* the MusicXML contents above the bound of stage 7

VARIABLES
  file,        \* file[e][k]: the stored artifact k of e's candidate
  record,      \* record[e]: the sealed record, the frame it describes
  pc,          \* pc[c]: the point the delivery c has reached
  result,      \* result[c]: the candidate of the delivery, [engine, frame]
  told,        \* told[c]: what the delivery was answered
  outcome,     \* outcome[e]: what the coordinator reports of e
  handoff      \* the frames handed over, or why none were

ingestionVars == <<file, record, pc, result, told, outcome, handoff>>

FileKind == {"raw_engine_result", "musicxml", "diagnostic"}
NoFile == "missing"
NoFrame == [k \in FileKind |-> NoFile]

\* A result has all three artifacts: none of its contents is a missing file.
Contents == {f[k] : f \in Frame, k \in FileKind}
ASSUME FrameAssumption == Frame \subseteq [FileKind -> Contents] /\ NoFile \notin Contents
ASSUME RequestedAssumption == IsFiniteSet(Requested)

WorkingPoint == {"raw_engine_result", "musicxml", "diagnostic", "record", "verify"}
Point    == WorkingPoint \union {"idle", "done", "dead"}
NoReport == [status |-> "none", frame |-> NoFrame]

\* A normalized candidate: the engine it was authenticated for, and its frame.
CandidateOf(e, f) == [engine |-> e, frame |-> f]

NoCandidate == CandidateOf("none", NoFrame)

IngestInit ==
  /\ file = [e \in Requested |-> NoFrame]
  /\ record = [e \in Requested |-> NoFrame]
  /\ pc = [c \in Delivery |-> "idle"]
  /\ result = [c \in Delivery |-> NoCandidate]
  /\ told = [c \in Delivery |-> "none"]
  /\ outcome = [e \in Requested |-> NoReport]
  /\ handoff = [status |-> "none", frames |-> {}]

AnswerDelivery(c, a) ==
  /\ told' = [told EXCEPT ![c] = a]
  /\ pc' = [pc EXCEPT ![c] = "done"]

\* The identity is verified before the frame is parsed, the frame before the
\* score and the diagnostic are: the first defect, of whatever category, ends
\* the delivery, and no candidate comes of it.
Defect(c) == AnswerDelivery(c, "defect") /\ UNCHANGED result

Ingest(c) ==
  /\ pc[c] = "idle"
  /\ \/ \E e \in Requested, f \in Frame :
          /\ result' = [result EXCEPT ![c] = CandidateOf(e, f)]
          /\ pc' = [pc EXCEPT ![c] = "raw_engine_result"] /\ UNCHANGED told
     \/ Defect(c)
  /\ UNCHANGED <<file, record, outcome, handoff>>

After(k) ==
  CASE k = "raw_engine_result" -> "musicxml"
    [] k = "musicxml"          -> "diagnostic"
    [] k = "diagnostic"        -> "record"

\* Mutant: an artifact is written over the one that is there.
FileReplaced(c, k) ==
  /\ pc[c] = k
  /\ file' = [file EXCEPT ![result[c].engine][k] = result[c].frame[k]]
  /\ pc' = [pc EXCEPT ![c] = After(k)]
  /\ UNCHANGED <<record, result, told, outcome, handoff>>

\* Mutant: an artifact that is there is taken for the one to be written.
AnyReplay(c, k) == file[result[c].engine][k] # NoFile

ExactReplay(c, k) == file[result[c].engine][k] = result[c].frame[k]

\* One artifact: created, found to be there already, or found to be another.
PersistFile(c, k) ==
  LET e == result[c].engine IN
  /\ pc[c] = k
  /\ \/ /\ file[e][k] = NoFile
        /\ file' = [file EXCEPT ![e][k] = result[c].frame[k]]
        /\ pc' = [pc EXCEPT ![c] = After(k)] /\ UNCHANGED told
     \/ /\ file[e][k] # NoFile /\ ExactReplay(c, k)
        /\ pc' = [pc EXCEPT ![c] = After(k)] /\ UNCHANGED <<file, told>>
     \/ /\ file[e][k] # NoFile /\ ~ExactReplay(c, k)
        /\ AnswerDelivery(c, "conflict") /\ UNCHANGED file
  /\ UNCHANGED <<record, result, outcome, handoff>>

\* The record seals the metadata of all three.
PersistRecord(c) ==
  LET e == result[c].engine IN
  /\ pc[c] = "record"
  /\ \/ /\ record[e] = NoFrame
        /\ record' = [record EXCEPT ![e] = result[c].frame]
        /\ pc' = [pc EXCEPT ![c] = "verify"] /\ UNCHANGED told
     \/ /\ record[e] = result[c].frame
        /\ pc' = [pc EXCEPT ![c] = "verify"] /\ UNCHANGED <<record, told>>
     \/ /\ record[e] \notin {NoFrame, result[c].frame}
        /\ AnswerDelivery(c, "conflict") /\ UNCHANGED record
  /\ UNCHANGED <<file, result, outcome, handoff>>

\* A record loads if the artifacts on disk are the ones it describes.
Loads(e) == record[e] # NoFrame /\ file[e] = record[e]

\* What was written is read back before it is called persisted.
ReadBack(c) ==
  LET e == result[c].engine IN
  /\ pc[c] = "verify"
  /\ IF Loads(e) /\ record[e] = result[c].frame
     THEN AnswerDelivery(c, "persisted") ELSE AnswerDelivery(c, "invalid")
  /\ UNCHANGED <<file, record, result, outcome, handoff>>

\* The store may fail at any write, and the process may die between two.
StoreFails(c) ==
  /\ pc[c] \in WorkingPoint
  /\ AnswerDelivery(c, "invalid")
  /\ UNCHANGED <<file, record, result, outcome, handoff>>

Die(c) ==
  /\ pc[c] \in WorkingPoint
  /\ pc' = [pc EXCEPT ![c] = "dead"]
  /\ UNCHANGED <<file, record, result, told, outcome, handoff>>

\* The coordinator reports what a delivery was told, or gives the engine up.
Report(e) ==
  /\ outcome[e] = NoReport
  /\ \/ \E c \in Delivery :
          /\ told[c] = "persisted" /\ result[c].engine = e
          /\ outcome' = [outcome EXCEPT ![e] = [status |-> "success",
                                                frame |-> result[c].frame]]
     \/ outcome' = [outcome EXCEPT ![e] = [status |-> "failed", frame |-> NoFrame]]
  /\ UNCHANGED <<file, record, pc, result, told, handoff>>

Succeeded == {e \in Requested : outcome[e].status = "success"}

\* The lifecycle of the job is built from the records, and every record must be
\* the candidate its outcome names.
LifecycleBuilds == \A e \in Succeeded : Loads(e) /\ record[e] = outcome[e].frame

\* Mutant: one candidate is enough for a comparison.
AnySuccess == Succeeded # {}

\* A comparison wants two candidates.
ComparisonEligible == Cardinality(Succeeded) >= 2

TooLarge(e) == record[e].musicxml \in Large

\* The candidates that succeeded are handed over together or not at all.
HandOver ==
  /\ handoff.status = "none" /\ \A e \in Requested : outcome[e] # NoReport
  /\ handoff' =
       IF ~LifecycleBuilds
       THEN [status |-> "lifecycle_invalid", frames |-> {}]
       ELSE IF ~ComparisonEligible
       THEN [status |-> "insufficient_candidates", frames |-> {}]
       ELSE IF \E e \in Succeeded : ~Loads(e)
       THEN [status |-> "persistence_invalid", frames |-> {}]
       ELSE IF \E e \in Succeeded : TooLarge(e)
       THEN [status |-> "musicxml_oversized", frames |-> {}]
       ELSE [status |-> "handed_over", frames |-> {<<e, record[e]>> : e \in Succeeded}]
  /\ UNCHANGED <<file, record, pc, result, told, outcome>>

IngestNext ==
  \/ \E c \in Delivery :
       \/ Ingest(c) \/ PersistRecord(c) \/ ReadBack(c) \/ StoreFails(c) \/ Die(c)
       \/ \E k \in FileKind : PersistFile(c, k)
  \/ \E e \in Requested : Report(e)
  \/ HandOver

IngestSpec == IngestInit /\ [][IngestNext]_ingestionVars

-----------------------------------------------------------------------------

\* A record never describes a mixture: the artifacts beside it are all of the
\* one result it seals, however many deliveries wrote at once and wherever
\* they died; and all that were told "persisted" were told of this result.
\* (engine_result_ingestion persist_normalized_candidate_once.)
OneResultPerRun ==
  /\ \A e \in Requested : record[e] # NoFrame => file[e] = record[e]
  /\ \A c \in Delivery : told[c] = "persisted" => record[result[c].engine] = result[c].frame

\* What is handed over is what was reported, from at least two engines, and a
\* reported success is never refused by its own record.
HandoffIsReported ==
  /\ handoff.status = "handed_over" =>
       /\ Cardinality(handoff.frames) >= 2
       /\ handoff.frames = {<<e, outcome[e].frame>> : e \in Succeeded}
  /\ handoff.status \notin {"lifecycle_invalid", "persistence_invalid"}

\* What is on disk stays: no delivery replaces an artifact or a record.
NothingIsReplaced ==
  [][\A e \in Requested :
       /\ \A k \in FileKind : file[e][k] # NoFile => file'[e][k] = file[e][k]
       /\ record[e] # NoFrame => record'[e] = record[e]]_ingestionVars

=============================================================================
