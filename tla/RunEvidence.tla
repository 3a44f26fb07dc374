----------------------------- MODULE RunEvidence -----------------------------
(***************************************************************************)
(* The evidence the gateway keeps of one engine run: the D.2 ledger with   *)
(* its D.1 snapshot, the candidate and artifact lifecycle, the D.3 storage *)
(* manifest and the D.4 provenance chain.  Each is an append-only value of *)
(* its own, saved on its own: a crash may lose a different suffix of each. *)
(* D.5 decides from what is left what the run may be taken for.            *)
(***************************************************************************)
EXTENDS Naturals, Sequences, SequencesExt

CONSTANTS
  Artifact,      \* the output artifacts of the candidate
  Sealable,      \* contents an artifact may be sealed with
  MaxCrashes     \* bound on the restarts

VARIABLES
  positions, \* the positions the run has taken after planned, oldest first
  events,    \* the lifecycle's events: [target, to, content]
  bound,     \* the manifest's bindings in the order made: [artifact, content]
  chain,     \* the provenance records: [position, bindings]
  base,      \* how much of each the restart before this one has read
  decision,  \* what the last restart was told
  crashes    \* restarts so far

evidenceVars == <<positions, events, bound, chain, base, decision, crashes>>

Graph == INSTANCE DurableJobState WITH Run <- {}, snapshot <- <<>>

Candidate == "candidate"      \* the target of an event about the candidate
NoContent == "none"

\* No artifact has the name that stands for the candidate.
ASSUME CandidateAssumption == Candidate \notin Artifact

CandidateState   == {"reserved", "collecting", "sealed", "failed", "cancelled",
                     "timed_out"}
TerminalArtifact == {"sealed", "rejected", "abandoned"}
ArtifactState    == {"reserved", "writing"} \union TerminalArtifact

CandidateTargets(s) ==
  CASE s = "reserved"   -> {"collecting", "failed", "cancelled", "timed_out"}
    [] s = "collecting" -> {"sealed", "failed", "cancelled", "timed_out"}
    [] OTHER            -> {}

ArtifactTargets(s) ==
  CASE s = "reserved" -> {"writing", "rejected", "abandoned"}
    [] s = "writing"  -> {"sealed", "rejected", "abandoned"}
    [] OTHER          -> {}

-----------------------------------------------------------------------------
\* Replaying the events gives the lifecycle.

LastEvent(es, t) == SelectLastInSeq(es, LAMBDA x : x.target = t)

StateIn(es, t) == IF LastEvent(es, t) = 0 THEN "reserved" ELSE es[LastEvent(es, t)].to

ContentIn(es, a) ==
  IF StateIn(es, a) = "sealed" THEN es[LastEvent(es, a)].content ELSE NoContent

SealedIn(es) == {a \in Artifact : StateIn(es, a) = "sealed"}

\* What the manifest would say of the sealed artifacts.
BindingsOf(es) == {[artifact |-> a, content |-> ContentIn(es, a)] : a \in SealedIn(es)}

TipOf(ps) == IF ps = <<>> THEN Graph!Planned ELSE Last(ps)

Standing == TipOf(positions)

RecordOf(ps, bs) == [position |-> TipOf(ps), bindings |-> ToSet(bs)]

\* Mutant: a restored manifest is not compared with the lifecycle.
ManifestUnchecked(bs, es) == TRUE

\* Every binding is one of a sealed artifact, with its very content.
ManifestHolds(bs, es) == ToSet(bs) \subseteq BindingsOf(es)

EvidenceInit ==
  /\ positions = <<>> /\ events = <<>> /\ bound = <<>>
  /\ chain = <<[position |-> Graph!Planned, bindings |-> {}]>>
  /\ base = [ledger |-> 0, events |-> 0, bound |-> 0, chain |-> 1]
  /\ decision = [kind |-> "none", evidence |-> {}]
  /\ crashes = 0

Working == decision.kind # "refused"

\* D.1 and D.2: the snapshot takes a legal step, decided once in the ledger.
Transition(s) ==
  /\ Working /\ Graph!ValidTransition(Standing, s)
  /\ positions' = Append(positions, Graph!Successor(Standing, s))
  /\ UNCHANGED <<events, bound, chain, base, decision, crashes>>

Event(t, s, c) ==
  events' = Append(events, [target |-> t, to |-> s, content |-> c])

\* Writing and sealing want a collecting candidate; sealing fixes a content.
TransitionArtifact(a, s, c) ==
  /\ Working /\ s \in ArtifactTargets(StateIn(events, a))
  /\ s \in {"writing", "sealed"} => StateIn(events, Candidate) = "collecting"
  /\ Event(a, s, IF s = "sealed" THEN c ELSE NoContent)
  /\ UNCHANGED <<positions, bound, chain, base, decision, crashes>>

\* A candidate ends when its artifacts have, sealed only if they all are.
MayEnd(s) ==
  /\ s = "sealed" => \A a \in Artifact : StateIn(events, a) = "sealed"
  /\ s \in {"failed", "cancelled", "timed_out"} =>
       \A a \in Artifact : StateIn(events, a) \in TerminalArtifact

TransitionCandidate(s) ==
  /\ Working /\ s \in CandidateTargets(StateIn(events, Candidate))
  /\ MayEnd(s)
  /\ Event(Candidate, s, NoContent)
  /\ UNCHANGED <<positions, bound, chain, base, decision, crashes>>

\* A sealed artifact is bound once; binding it again changes nothing.
Bind(a) ==
  LET target == [artifact |-> a, content |-> ContentIn(events, a)] IN
  /\ Working /\ ManifestHolds(bound, events)
  /\ StateIn(events, a) = "sealed"
  /\ \A b \in ToSet(bound) : b.artifact # a
  /\ bound' = Append(bound, target)
  /\ UNCHANGED <<positions, events, chain, base, decision, crashes>>

\* The position stays with more bindings, or advances by one legal step.
Follows(record, last) ==
  /\ last.bindings \subseteq record.bindings
  /\ \/ record.position = last.position /\ record.bindings # last.bindings
     \/ /\ record.position.revision = last.position.revision + 1
        /\ Graph!ValidTransition(last.position, record.position.state)

AppendProvenance ==
  /\ Working /\ ManifestHolds(bound, events)
  /\ Follows(RecordOf(positions, bound), Last(chain))
  /\ chain' = Append(chain, RecordOf(positions, bound))
  /\ UNCHANGED <<positions, events, bound, base, decision, crashes>>

-----------------------------------------------------------------------------
\* D.5, on a restored ledger ps, snapshot x, events es, bindings bs, records rs.

PreDispatch == {"planned", "queued"}
InFlight    == {"dispatching", "running"}

Disposition(x) ==
  CASE x.state \in Graph!Terminal -> "terminal_preserved"
    [] x.state \in PreDispatch -> "pre_dispatch_candidate"
    [] x.state \in InFlight    -> "reconciliation_required"

LedgerAgrees(ps, x) == TipOf(ps) = x

RecordAgrees(rs, x, bs) == Last(rs) = [position |-> x, bindings |-> ToSet(bs)]

\* Mutant: an ended run is preserved whatever was bound of its output.
OutputUnchecked(x, es, bs) ==
  x.state \in Graph!Terminal =>
    StateIn(es, Candidate) = (IF x.state = "completed" THEN "sealed" ELSE x.state)

\* The crash windows: a run not dispatched has no output at all, an ended one
\* has ended the same way with all it sealed bound; between them anything goes.
Converged(x, es, bs) ==
  /\ x.state \in PreDispatch =>
       /\ StateIn(es, Candidate) = "reserved" /\ bs = <<>>
       /\ \A a \in Artifact : StateIn(es, a) = "reserved"
  /\ x.state \in Graph!Terminal =>
       /\ StateIn(es, Candidate) = (IF x.state = "completed" THEN "sealed" ELSE x.state)
       /\ {b.artifact : b \in ToSet(bs)} = SealedIn(es)

Accepts(ps, x, es, bs, rs) ==
  /\ LedgerAgrees(ps, x)
  /\ ManifestHolds(bs, es) /\ RecordAgrees(rs, x, bs)
  /\ Converged(x, es, bs)

Prefix(s, n) == SubSeq(s, 1, n)

\* What of the ledger, the snapshot, the events, the bindings and the records
\* was saved when the process died.
Saved ==
  [ledger : base.ledger .. Len(positions), snapshot : base.ledger .. Len(positions),
   events : base.events .. Len(events), bound : base.bound .. Len(bound),
   chain : base.chain .. Len(chain)]

\* Whoever restarts the process restores what was saved and asks.
Restored(n) ==
  Accepts(Prefix(positions, n.ledger), TipOf(Prefix(positions, n.snapshot)),
          Prefix(events, n.events), Prefix(bound, n.bound), Prefix(chain, n.chain))

Recover(n) ==
  /\ positions' = Prefix(positions, n.ledger) /\ events' = Prefix(events, n.events)
  /\ bound' = Prefix(bound, n.bound) /\ chain' = Prefix(chain, n.chain)
  /\ base' = [ledger |-> n.ledger, events |-> n.events, bound |-> n.bound, chain |-> n.chain]
  /\ decision' = [kind |-> Disposition(TipOf(positions')),
                  evidence |-> {[position |-> TipOf(positions'), output |-> ToSet(bound')]}]

Refuse ==
  /\ decision' = [kind |-> "refused", evidence |-> {}]
  /\ UNCHANGED <<positions, events, bound, chain, base>>

\* The process dies and is restarted.
Restart ==
  /\ Working /\ crashes < MaxCrashes
  /\ crashes' = crashes + 1
  /\ LET accepted == {n \in Saved : Restored(n)} IN
       \/ \E n \in accepted : Recover(n)
       \/ accepted # Saved /\ Refuse

EvidenceNext ==
  \/ \E s \in Graph!State : Transition(s)
  \/ \E a \in Artifact, s \in ArtifactState, c \in Sealable : TransitionArtifact(a, s, c)
  \/ \E s \in CandidateState : TransitionCandidate(s)
  \/ \E a \in Artifact : Bind(a)
  \/ AppendProvenance
  \/ Restart

EvidenceSpec == EvidenceInit /\ [][EvidenceNext]_evidenceVars

-----------------------------------------------------------------------------

\* One artifact, one content: whatever is bound or recorded in the provenance
\* chain is what the lifecycle says was sealed, also when a restart has put
\* back an older lifecycle and the artifacts were written again.
OneContent ==
  /\ ToSet(bound) \subseteq BindingsOf(events)
  /\ \A i \in DOMAIN chain : chain[i].bindings \subseteq BindingsOf(events)

\* A run preserved as ended is whole and stays so: its candidate has ended the
\* way the run did, every sealed output is bound and recorded with the final
\* position, and none of it changes any more.
PreservedIsWhole ==
  decision.kind = "terminal_preserved" =>
    /\ decision.evidence = {[position |-> Standing, output |-> BindingsOf(events)]}
    /\ Last(chain) = [position |-> Standing, bindings |-> BindingsOf(events)]
    /\ \A a \in Artifact : StateIn(events, a) \in TerminalArtifact

=============================================================================
