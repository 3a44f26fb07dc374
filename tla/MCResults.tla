------------------------------ MODULE MCResults ------------------------------
(***************************************************************************)
(* Small instances, for TLC, of the machines a result passes through: the  *)
(* call of an engine, the ingestion of what it made, the comparison of the *)
(* candidates, and the records of the run, its ledger and its evidence.  A *)
(* behaviour runs one of them, chosen at the start.                        *)
(***************************************************************************)
EXTENDS IdempotentLedger, RunEvidence, CandidateIngestion, EngineRuntime,
  EnsembleComparison, TLC

VARIABLE active    \* the machine that runs

\* The frames that engines may answer with, one of them too large to hand over.
Frames == {[raw_engine_result |-> "x", musicxml |-> m, diagnostic |-> "x"] :
             m \in {"small", "large"}}

-----------------------------------------------------------------------------
(* The documents that candidates are compared of. *)

Note(onset, pitch) ==
  [onset |-> onset, kind |-> "note", duration |-> 1, pitch |-> pitch, chord |-> 0, voice |-> 1]

Measure(number, events_) == [number |-> number, length |-> 2, events |-> events_]

Readable(score) == [intact |-> TRUE, readable |-> TRUE, large |-> FALSE, score |-> score]

Garbled == [intact |-> TRUE, readable |-> FALSE, large |-> FALSE, score |-> <<>>]
Altered == [intact |-> FALSE, readable |-> TRUE, large |-> TRUE, score |-> <<>>]

OneBar   == <<Measure(1, <<Note(0, "C"), Note(1, "D")>>)>>
OtherBar == <<Measure(1, <<Note(0, "C"), Note(1, "E")>>)>>
TwoBars  == <<Measure(1, <<Note(0, "C")>>), Measure(2, <<>>)>>
Empty    == <<Measure(1, <<>>)>>

Documents == {Garbled, Altered, Readable(<<OneBar>>), Readable(<<OtherBar>>),
              Readable(<<TwoBars>>), Readable(<<OtherBar, Empty>>)}

-----------------------------------------------------------------------------

MCInit ==
  /\ active \in {"ledger", "evidence", "ingestion", "call", "comparison"}
  /\ Init /\ EvidenceInit /\ IngestInit /\ RuntimeInit /\ ComparisonInit
  /\ active # "call" => adapter = "homr"

\* The machines that do not run stay as they are.
Others(m) ==
  /\ UNCHANGED active
  /\ m # "ledger" => UNCHANGED vars
  /\ m # "evidence" => UNCHANGED evidenceVars
  /\ m # "ingestion" => UNCHANGED ingestionVars
  /\ m # "call" => UNCHANGED runtimeVars
  /\ m # "comparison" => UNCHANGED comparisonVars

MCNext ==
  \/ active = "ledger" /\ Next /\ Others("ledger")
  \/ active = "evidence" /\ EvidenceNext /\ Others("evidence")
  \/ active = "ingestion" /\ IngestNext /\ Others("ingestion")
  \/ active = "call" /\ RuntimeNext /\ Others("call")
  \/ active = "comparison" /\ ComparisonNext /\ Others("comparison")

MCSpec == MCInit /\ [][MCNext]_<<active, vars, evidenceVars, ingestionVars, runtimeVars, comparisonVars>>

\* Callers, contents, engines, calls, outputs and jobs share two of their names.
Symmetry == Permutations(Job)

=============================================================================
