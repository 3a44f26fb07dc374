---------------------------- MODULE ApprovalChain ----------------------------
(***************************************************************************)
(* From a stored revision to a request for its publication.  Evidence of   *)
(* eligibility, the handoff to an approver, the record of a decision, the  *)
(* evidence and the handoff of a publication are built one from another;   *)
(* every builder starts from the head of the store and rebuilds all that   *)
(* goes before, while other teachers keep appending revisions.  Grants are *)
(* issued between the builders, without looking at the store.              *)
(***************************************************************************)
EXTENDS Naturals, Sequences

CONSTANTS
  Process, Approver, Decision, Publisher,
  Nobody,        \* not an approver, decision or publisher: not yet named
  Teacher, StoredEdit,  \* of the revisions that are appended meanwhile
  MaxStored      \* bound on the length of the chain

VARIABLES
  stored,  \* the stored revisions
  docs,    \* the documents and grants handed out so far
  work     \* work[p]: the document p is about to return, after its checks

approvalVars == <<stored, docs, work>>

\* Revisions are appended the way RevisionApi is shown to append them.
Store == INSTANCE RevisionChain
           WITH chain <- stored, spent <- {}, Key <- {}, NoKey <- Nobody,
                Author <- Teacher, Edit <- StoredEdit

Built  == {"evidence", "handoff", "record", "publishable", "publication"}
Issued == {"handoffGrant", "decision", "publicationGrant"}
NoDocument == [kind |-> "idle"]

ApprovalInit ==
  /\ Store!Init
  /\ docs = {}
  /\ work = [p \in Process |-> NoDocument]

As(d, kind) == [d EXCEPT !.kind = kind]

OfKind(kind) == {d \in docs : d.kind = kind}

\* Another teacher's revision.
OtherRevision ==
  /\ Len(stored) < MaxStored
  /\ \E a \in Teacher, e \in StoredEdit : Store!Write(a, Nobody, e)
  /\ UNCHANGED <<docs, work>>

-----------------------------------------------------------------------------

\* The revision supplied is the head, and the artifact supplied is the one
\* rebuilt from it.
CurrentRevision(rev, artifact) == rev = Len(stored) /\ artifact = rev

\* Nothing blocks the revision and nothing in it is unresolved.
Eligible(rev) == stored[rev].edit = "clean"

\* The grant is for this revision, artifact and the approver expected.
HandoffHolds(g, rev, artifact, approver) ==
  /\ CurrentRevision(rev, artifact) /\ Eligible(rev)
  /\ g.rev = rev /\ g.artifact = artifact /\ g.approver = approver

\* Mutant: the decision is compared with the handoff's revision only.
AnyonesDecision(g, h, d, rev, artifact, approver) ==
  /\ HandoffHolds(g, rev, artifact, approver)
  /\ h = As(g, "handoff") /\ d.rev = h.rev

\* The handoff rebuilt is the one supplied, and the decision is about it.
RecordHolds(g, h, d, rev, artifact, approver) ==
  /\ HandoffHolds(g, rev, artifact, approver)
  /\ h = As(g, "handoff")
  /\ d.rev = h.rev /\ d.artifact = h.artifact /\ d.approver = approver

\* The record of decision d on handoff h.
Record(h, d) == [As(h, "record") EXCEPT !.decision = d.decision]

\* Mutant: a record is believed without rebuilding it from the head.
TrustRecord(g, h, d, m, rev, artifact, approver) == m = Record(h, d)

\* The record rebuilt is the one supplied.
PublishableHolds(g, h, d, m, rev, artifact, approver) ==
  /\ RecordHolds(g, h, d, rev, artifact, approver)
  /\ m = Record(h, d)

\* The publication grant is for the evidence rebuilt and the publisher expected.
PublicationHolds(g, h, d, m, pg, rev, artifact, approver, publisher) ==
  /\ PublishableHolds(g, h, d, m, rev, artifact, approver)
  /\ pg = [As(m, "publicationGrant") EXCEPT !.publisher = publisher]

\* Checks passed: the document is made, and returned some time later.
Make(p, d) ==
  /\ work' = [work EXCEPT ![p] = d]
  /\ UNCHANGED <<stored, docs>>

Evidence(rev, artifact) ==
  [kind |-> "evidence", rev |-> rev, artifact |-> artifact,
   approver |-> Nobody, decision |-> Nobody, publisher |-> Nobody]

BuildEvidence(p) ==
  \E rev, artifact \in 1 .. MaxStored :
    /\ CurrentRevision(rev, artifact)
    /\ Make(p, Evidence(rev, artifact))

BuildHandoff(p) ==
  \E g \in OfKind("handoffGrant"), approver \in Approver,
     rev, artifact \in 1 .. MaxStored :
    /\ HandoffHolds(g, rev, artifact, approver)
    /\ Make(p, As(g, "handoff"))

BuildRecord(p) ==
  \E g \in OfKind("handoffGrant"), h \in OfKind("handoff"), d \in OfKind("decision"),
     approver \in Approver, rev, artifact \in 1 .. MaxStored :
    /\ RecordHolds(g, h, d, rev, artifact, approver)
    /\ Make(p, Record(h, d))

BuildPublishable(p) ==
  \E g \in OfKind("handoffGrant"), h \in OfKind("handoff"), d \in OfKind("decision"),
     m \in OfKind("record"), approver \in Approver, rev, artifact \in 1 .. MaxStored :
    /\ PublishableHolds(g, h, d, m, rev, artifact, approver)
    /\ Make(p, As(m, "publishable"))

BuildPublication(p) ==
  \E g \in OfKind("handoffGrant"), h \in OfKind("handoff"), d \in OfKind("decision"),
     m \in OfKind("record"), pg \in OfKind("publicationGrant"),
     approver \in Approver, publisher \in Publisher, rev, artifact \in 1 .. MaxStored :
    /\ PublicationHolds(g, h, d, m, pg, rev, artifact, approver, publisher)
    /\ Make(p, As(pg, "publication"))

Build(p) ==
  /\ work[p] = NoDocument
  /\ \/ BuildEvidence(p) \/ BuildHandoff(p) \/ BuildRecord(p)
     \/ BuildPublishable(p) \/ BuildPublication(p)

Return(p) ==
  /\ work[p] # NoDocument
  /\ docs' = docs \union {work[p]}
  /\ work' = [work EXCEPT ![p] = NoDocument]
  /\ UNCHANGED stored

-----------------------------------------------------------------------------

\* Grants are signed over a document in hand, however old it is.
IssueHandoffGrant ==
  \E e \in OfKind("evidence"), approver \in Approver :
    /\ Eligible(e.rev)
    /\ docs' = docs \union {[As(e, "handoffGrant") EXCEPT !.approver = approver]}

\* An approver decides on the handoff made out to that approver.
Decide ==
  \E h \in OfKind("handoff"), approver \in Approver, i \in Decision :
    /\ approver = h.approver
    /\ docs' = docs \union {[As(h, "decision") EXCEPT !.decision = i]}

IssuePublicationGrant ==
  \E e \in OfKind("publishable"), publisher \in Publisher :
    docs' = docs \union {[As(e, "publicationGrant") EXCEPT !.publisher = publisher]}

IssueGrant ==
  /\ IssueHandoffGrant \/ Decide \/ IssuePublicationGrant
  /\ UNCHANGED <<stored, work>>

ApprovalNext ==
  \/ OtherRevision
  \/ IssueGrant
  \/ \E p \in Process : Build(p) \/ Return(p)

ApprovalSpec == ApprovalInit /\ [][ApprovalNext]_approvalVars

-----------------------------------------------------------------------------

\* A request for publication rests on a decision that the approver it names
\* made, on a handoff made out to that approver, about this very revision and
\* its own artifact, of a score in which nothing blocks and nothing is open.
\* (publication_handoff build_publication_handoff_request, whose inputs may be
\* documents of different revisions, approvers and decisions.)
PublicationIsApproved ==
  \A q \in OfKind("publication") \union {work[p] : p \in Process} :
    q.kind = "publication" =>
      /\ [As(q, "decision") EXCEPT !.publisher = Nobody] \in docs
      /\ [As(q, "handoff") EXCEPT !.publisher = Nobody, !.decision = Nobody] \in docs
      /\ q.approver \in Approver /\ q.publisher \in Publisher
      /\ q.rev = q.artifact /\ Eligible(q.rev)

InHand(rev) ==
  {d \in docs \union {work[p] : p \in Process} : d.kind \in Built /\ d.rev = rev}

\* Once a revision is superseded nothing more is built from it: no approval or
\* publication that was not past its checks by then ever appears.
SupersededIsFinal ==
  [][\A rev \in 1 .. Len(stored) - 1 : InHand(rev)' \subseteq InHand(rev)]_approvalVars

=============================================================================
