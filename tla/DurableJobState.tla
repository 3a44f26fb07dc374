--------------------------- MODULE DurableJobState ---------------------------
(***************************************************************************)
(* The D.1 job-run state machine of the gateway: one immutable snapshot    *)
(* (state, revision) per planned engine run, advanced one legal edge at a  *)
(* time.  Every durable record of the gateway claims one of these          *)
(* positions; the other modules refine this one.                           *)
(***************************************************************************)
EXTENDS Naturals

CONSTANT Run                 \* the planned engine runs of a job

VARIABLE snapshot            \* snapshot[r]: the current position of run r

NonTerminal == {"planned", "queued", "dispatching", "running"}
Terminal    == {"completed", "failed", "cancelled", "timed_out"}
State       == NonTerminal \union Terminal

\* The legal edges of the state graph.
Targets(s) ==
  CASE s = "planned"     -> {"queued", "cancelled"}
    [] s = "queued"      -> {"dispatching", "cancelled", "timed_out"}
    [] s = "dispatching" -> {"running", "failed", "cancelled", "timed_out"}
    [] s = "running"     -> {"completed", "failed", "cancelled", "timed_out"}
    [] OTHER             -> {}

MaxRevision == 4

\* The revisions at which a state may be stored.
RevisionTable ==
  [planned |-> {0}, queued |-> {1}, dispatching |-> {2}, running |-> {3},
   completed |-> {4}, failed |-> {3, 4}, cancelled |-> {1, 2, 3, 4},
   timed_out |-> {2, 3, 4}]

ValidRevisions(s) == RevisionTable[s]

Position == [state : State, revision : 0..MaxRevision]

ValidPosition(x) == x \in Position /\ x.revision \in ValidRevisions(x.state)

Planned == [state |-> "planned", revision |-> 0]

\* Mutant: the revision table is asked alone, the graph is not.
RevisionsOnly(x, s) == ValidPosition(x) /\ x.revision + 1 \in ValidRevisions(s)

\* The edge test of a transition request: both the graph and the revision
\* table have to admit the target.
ValidTransition(x, s) ==
  /\ ValidPosition(x)
  /\ s \in Targets(x.state)
  /\ x.revision + 1 \in ValidRevisions(s)

Successor(x, s) == [state |-> s, revision |-> x.revision + 1]

Init == snapshot = [r \in Run |-> Planned]

Transition(r, s) ==
  /\ ValidTransition(snapshot[r], s)
  /\ snapshot' = [snapshot EXCEPT ![r] = Successor(@, s)]

Next == \E r \in Run, s \in State : Transition(r, s)

Spec == Init /\ [][Next]_snapshot

-----------------------------------------------------------------------------

TypeOK == snapshot \in [Run -> Position]

\* Every snapshot the transitions can build passes the position check that
\* the snapshot class applies to what it is given: a run never gets stuck in
\* a position its own constructor would refuse.
PositionsValid == \A r \in Run : ValidPosition(snapshot[r])

\* The graph decides alone: no edge of the table out of a reachable position
\* is vetoed by the revision table, so the two tables cannot drift apart.
TablesAgree ==
  \A r \in Run : \A s \in Targets(snapshot[r].state) :
     snapshot[r].revision + 1 \in ValidRevisions(s)

\* A revision number names one decision: once a run has a revision, it never
\* takes another state at the same or a lower revision, and it never leaves
\* a terminal state.
RevisionsDecideOnce ==
  [][\A r \in Run :
        snapshot'[r] # snapshot[r] =>
           /\ snapshot'[r].revision = snapshot[r].revision + 1
           /\ snapshot[r].state \in NonTerminal]_snapshot

=============================================================================
