---------------------------- MODULE ResultProofs ----------------------------
(***************************************************************************)
(* Theorems about the machines a result passes through: the D.2 ledger,    *)
(* for any set of callers, whatever snapshots they come back with; the     *)
(* evidence of a run, for any artifacts, contents and crashes; the         *)
(* ingestion of the results, for any set of deliveries and engines; the    *)
(* call of an engine, for any tree of processes and any outputs; and the   *)
(* comparison of the candidates, for any scores.                           *)
(*                                                                         *)
(* The argument for the evidence: the chain of provenance only grows, so   *)
(* no two of its records differ about an artifact; and whatever part of    *)
(* the events a crash leaves, in it the artifacts have ended before their  *)
(* candidate.                                                              *)
(*                                                                         *)
(* The argument for the ingestion: what a delivery has behind it was       *)
(* written by it or found equal to its own, and what is stored stays.      *)
(* The argument for the call: a process that cannot be heard is known to   *)
(* have closed its output; when none has, the outputs are looked at only   *)
(* after the tree has ended.                                               *)
(*                                                                         *)
(* The argument for the comparison: at each level, the places that not     *)
(* all have and the fields that differ are exactly those at which two say  *)
(* different things; what is said below a place is compared by the level   *)
(* below.                                                                  *)
(***************************************************************************)
EXTENDS IdempotentLedger, RunEvidence, CandidateIngestion, EngineRuntime, EnsembleComparison,
        FiniteSetTheorems, WellFoundedInduction, TLAPS

-----------------------------------------------------------------------------
(* The ledger.                                                             *)

IInv == TypeOK /\ LedgerValid /\ AnswersAgree

\* A legal transition leads from a position to a position.
LEMMA SuccessorIsPosition ==
  ASSUME NEW x, NEW s \in D1!State, D1!ValidTransition(x, s)
  PROVE  x \in D1!Position /\ D1!Successor(x, s) \in D1!Position
BY DEF D1!ValidTransition, D1!ValidPosition, D1!Successor, D1!Position,
       D1!ValidRevisions, D1!RevisionTable, D1!State, D1!NonTerminal, D1!Terminal, D1!MaxRevision

\* The tip of a well-typed ledger is where its last record ended.
LEMMA TipOfLedger ==
  ASSUME TypeOK, LedgerValid
  PROVE  /\ Tip \in D1!Position
         /\ Tip = IF Len(ledger) = 0 THEN D1!Planned ELSE ledger[Len(ledger)].result
         /\ Tip.revision = Len(ledger)
<1>1. CASE ledger = <<>>
  BY <1>1 DEF Tip, D1!Planned, D1!Position, D1!State, D1!NonTerminal, D1!MaxRevision
<1>2. CASE ledger # <<>>
  <2>1. Len(ledger) \in Nat \ {0} /\ Len(ledger) \in DOMAIN ledger
    BY <1>2 DEF TypeOK
  <2>2. Tip = ledger[Len(ledger)].result
    BY <1>2 DEF Tip
  <2>3. ledger[Len(ledger)] \in Record
    BY <2>1 DEF TypeOK
  <2>4. ledger[Len(ledger)].from.revision = Len(ledger) - 1
    BY <2>1 DEF LedgerValid
  <2>5. Tip = D1!Successor(ledger[Len(ledger)].from, ledger[Len(ledger)].to)
    BY <2>1, <2>2 DEF LedgerValid
  <2>6. Tip.revision = ledger[Len(ledger)].from.revision + 1
    BY <2>5 DEF D1!Successor
  <2> QED BY <2>1, <2>2, <2>3, <2>4, <2>6 DEF Record
<1> QED BY <1>1, <1>2

\* Applying a transition extends a valid ledger to a valid ledger.
LEMMA ApplyStep ==
  ASSUME IInv, NEW c \in Caller, NEW s \in D1!State, Apply(c, s)
  PROVE  IInv'
<1> DEFINE n   == Len(ledger)
           new == [from |-> held[c], to |-> s, result |-> D1!Successor(held[c], s)]
<1>1. new \in Record
  BY SuccessorIsPosition DEF Apply, Decide, Record, IInv, TypeOK
<1>2. /\ ledger' = Append(ledger, new) /\ n \in Nat
      /\ ledger' \in Seq(Record)
      /\ DOMAIN ledger' = 1..(n + 1) /\ DOMAIN ledger = 1..n
      /\ \A i \in 1..n : ledger'[i] = ledger[i]
      /\ ledger'[n + 1] = new
  BY <1>1 DEF Apply, Decide, IInv, TypeOK
<1>3. /\ held' \in [Caller -> D1!Position]
      /\ held'[c] = D1!Successor(held[c], s)
      /\ \A d \in Caller \ {c} : held'[d] = held[d] /\ answer'[d] = answer[d]
  BY SuccessorIsPosition DEF Apply, Decide, Reply, IInv, TypeOK
<1>4. TypeOK'
  BY <1>2, <1>3 DEF Apply, Decide, Reply, IInv, TypeOK, Answer
<1>5. LedgerValid'
  <2> SUFFICES ASSUME NEW i \in 1..(n + 1)
               PROVE  /\ ledger'[i].from.revision = i - 1
                      /\ D1!ValidTransition(ledger'[i].from, ledger'[i].to)
                      /\ ledger'[i].result = D1!Successor(ledger'[i].from, ledger'[i].to)
                      /\ ledger'[i].from = IF i = 1 THEN D1!Planned
                                                    ELSE ledger'[i - 1].result
    BY <1>2 DEF LedgerValid
  <2>1. CASE i \in 1..n
    <3>1. i # 1 => i - 1 \in 1..n
      BY <1>2, <2>1
    <3> QED BY <1>2, <2>1, <3>1 DEF IInv, LedgerValid
  <2>2. CASE i = n + 1
    <3>1. /\ held[c] = Tip /\ Tip.revision = n
          /\ Tip = IF n = 0 THEN D1!Planned ELSE ledger[n].result
      BY TipOfLedger DEF Apply, Decide, IInv
    <3>2. D1!ValidTransition(held[c], s)
      BY DEF Apply, Decide
    <3>3. n # 0 => n \in 1..n
      BY <1>2
    <3>4. ledger'[i] = new /\ i - 1 = n
      BY <1>2, <2>2
    <3>5. n # 0 => ledger'[i - 1].result = ledger[n].result
      BY <1>2, <3>3, <3>4
    <3> QED BY <1>2, <3>1, <3>2, <3>4, <3>5
  <2> QED BY <1>2, <2>1, <2>2
<1>6. AnswersAgree'
  <2> SUFFICES ASSUME NEW d \in Caller, answer'[d] \in {"applied", "replayed"}
               PROVE  \E i \in 1..(n + 1) : ledger'[i].result = held'[d]
    BY <1>2 DEF AnswersAgree
  <2>1. CASE d = c
    BY <1>2, <1>3, <2>1
  <2>2. CASE d # c
    BY <1>2, <1>3, <2>2 DEF IInv, AnswersAgree
  <2> QED BY <2>1, <2>2
<1> QED BY <1>4, <1>5, <1>6 DEF IInv

\* Every step keeps the invariant.
LEMMA IInvStep ==
  ASSUME IInv, [Next]_vars
  PROVE  IInv'
<1>1. ASSUME NEW c \in Caller, NEW s \in D1!State, Replay(c, s) PROVE IInv'
  <2>1. PICK i \in DOMAIN ledger :
          /\ SameRequest(i, held[c], s)
          /\ D1!ValidTransition(held[c], s)
          /\ held' = [held EXCEPT ![c] = D1!Successor(@, s)]
          /\ Reply(c, "replayed") /\ ledger' = ledger
    BY <1>1 DEF Replay
  <2>2. ledger[i].result = D1!Successor(held[c], s)
    BY <2>1 DEF SameRequest, IInv, LedgerValid
  <2>3. TypeOK'
    BY <2>1, SuccessorIsPosition DEF IInv, TypeOK, Reply, Answer
  <2>4. AnswersAgree'
    BY <2>1, <2>2 DEF IInv, TypeOK, AnswersAgree, Reply
  <2> QED BY <2>1, <2>3, <2>4 DEF IInv, LedgerValid
<1>2. ASSUME NEW c \in Caller, NEW a \in {"none", "conflict", "mismatch", "invalid"},
             ledger' = ledger, Reply(c, a), held' \in [Caller -> D1!Position],
             \A d \in Caller \ {c} : held'[d] = held[d]
      PROVE  IInv'
  <2>1. TypeOK'
    BY <1>2 DEF IInv, TypeOK, Reply, Answer
  <2>2. AnswersAgree'
    BY <1>2 DEF IInv, TypeOK, AnswersAgree, Reply
  <2> QED BY <1>2, <2>1, <2>2 DEF IInv, LedgerValid
<1>3. ASSUME NEW c \in Caller, NEW s \in D1!State,
             Conflict(c, s) \/ Invalid(c, s) \/ Mismatch(c)
      PROVE  IInv'
  BY <1>2, <1>3 DEF Conflict, Invalid, Mismatch, IInv, TypeOK
<1>4. ASSUME NEW c \in Caller, Restore(c) PROVE IInv'
  BY <1>2, <1>4 DEF Restore, IInv, TypeOK
<1>5. ASSUME UNCHANGED vars PROVE IInv'
  BY <1>5 DEF vars, IInv, TypeOK, LedgerValid, AnswersAgree
<1>6. ASSUME NEW c \in Caller, Mismatch(c) PROVE IInv'
  BY <1>2, <1>6 DEF Mismatch, IInv, TypeOK
<1> QED BY <1>1, <1>3, <1>4, <1>5, <1>6, ApplyStep DEF Next

\* The empty ledger satisfies the invariant.
LEMMA IInvInit == Init => IInv
<1> SUFFICES ASSUME Init PROVE IInv
  OBVIOUS
<1>1. D1!Planned \in D1!Position
  BY DEF D1!Planned, D1!Position, D1!State, D1!NonTerminal, D1!MaxRevision
<1> QED BY <1>1 DEF Init, IInv, TypeOK, LedgerValid, AnswersAgree, Answer

\* A step of the ledger is a step of the job-run state machine, or none.
LEMMA StepFollowsTheGraph ==
  ASSUME IInv, [Next]_vars
  PROVE  [D1!Next]_[r \in {TheRun} |-> Tip]
<1>1. ASSUME NEW c \in Caller, NEW s \in D1!State, Apply(c, s)
      PROVE  D1!Transition(TheRun, s)
  <2>1. Tip = held[c] /\ D1!ValidTransition(Tip, s)
    BY <1>1 DEF Apply, Decide
  <2>2. Tip' = D1!Successor(Tip, s)
    <3>1. Len(ledger') = Len(ledger) + 1 /\ ledger' # <<>>
      BY <1>1 DEF Apply, Decide, IInv, TypeOK
    <3>2. ledger'[Len(ledger) + 1].result = D1!Successor(held[c], s)
      BY <1>1 DEF Apply, Decide, IInv, TypeOK
    <3> QED BY <2>1, <3>1, <3>2 DEF Tip
  <2> QED BY <2>1, <2>2 DEF D1!Transition
<1>2. ASSUME ledger' = ledger
      PROVE  Tip' = Tip
  BY <1>2 DEF Tip
<1>3. CASE \E c \in Caller, s \in D1!State : Apply(c, s)
  BY <1>1, <1>3 DEF D1!Next
<1>4. CASE ~ \E c \in Caller, s \in D1!State : Apply(c, s)
  <2>1. ledger' = ledger
    BY <1>4 DEF Next, vars, Replay, Conflict, Invalid, Mismatch, Restore
  <2> QED BY <1>2, <2>1
<1> QED BY <1>3, <1>4

\* The invariant holds of every behaviour.
THEOREM Invariance == Spec => []IInv
BY IInvInit, IInvStep, PTL DEF Spec

\* The ledger the code builds is always one its own constructor accepts.
THEOREM LedgerAlwaysValid == Spec => []LedgerValid
BY Invariance, PTL DEF IInv

\* Callers that were told an outcome agree with the ledger.
THEOREM CallersAgree == Spec => []AnswersAgree
BY Invariance, PTL DEF IInv

\* The ledger implements the job-run state machine.
THEOREM Refinement == Spec => FollowsTheGraph
<1>1. Init => D1!Init
  BY DEF Init, D1!Init, Tip, D1!Planned
<1>2. IInv /\ [Next]_vars => [D1!Next]_[r \in {TheRun} |-> Tip]
  BY StepFollowsTheGraph
<1> QED BY <1>1, <1>2, Invariance, PTL DEF Spec, FollowsTheGraph, D1!Spec

-----------------------------------------------------------------------------
(* The evidence of a run.                                                  *)

EndState == {"sealed", "failed", "cancelled", "timed_out"}

Sealing == Sealable \union {NoContent}

Binding == [artifact : Artifact, content : Sealing]

Occurrence ==
  [target : Artifact \union {Candidate}, to : ArtifactState \union CandidateState,
   content : Sealing]

ChainRecord == [position : Graph!Position, bindings : SUBSET Binding]

EvidenceTyped ==
  /\ positions \in Seq(Graph!Position)
  /\ events \in Seq(Occurrence)
  /\ bound \in Seq(Binding)
  /\ chain \in Seq(ChainRecord) /\ Len(chain) > 0
  /\ base \in [ledger : Nat, events : Nat, bound : Nat, chain : Nat \ {0}]

\* No record of the chain takes back a binding of one before it.
ChainGrows ==
  \A i, j \in DOMAIN chain : i <= j => chain[i].bindings \subseteq chain[j].bindings

\* Whatever part of the events is restored, its candidate ends after its artifacts.
EndsAfterArtifacts ==
  \A n \in 0 .. Len(events) :
    StateIn(Prefix(events, n), Candidate) \in EndState =>
      \A a \in Artifact : StateIn(Prefix(events, n), a) \in TerminalArtifact

\* What is preserved has ended in every record, so nothing of it can move.
PreservedHasEnded ==
  decision.kind = "terminal_preserved" =>
    /\ Standing.state \in Graph!Terminal
    /\ StateIn(events, Candidate) \in EndState
    /\ ToSet(bound) = BindingsOf(events)

EvidenceInv ==
  /\ EvidenceTyped /\ OneContent /\ ChainGrows
  /\ EndsAfterArtifacts /\ PreservedHasEnded /\ PreservedIsWhole

\* A set of numbers up to n has a greatest.
LEMMA GreatestExists ==
  ASSUME NEW n \in Nat, NEW I, I \subseteq 1 .. n, I # {}
  PROVE  \E m \in I : \A k \in I : k <= m
<1> DEFINE R == {ss \in Nat \X Nat : ss[1] < ss[2]}
           T == {n - k : k \in I}
<1>1. IsWellFoundedOn(R, Nat)
  BY NatLessThanWellFounded DEF OpToRel
<1>2. T \subseteq Nat /\ T # {}
  <2>1. \A k \in I : n - k \in Nat
    OBVIOUS
  <2> QED BY <2>1
<1>3. PICK x \in T : \A y \in T : ~ (<<y, x>> \in R)
  <2> HIDE DEF R, T
  <2> QED BY <1>1, <1>2, WFMin
<1>4. PICK m \in I : x = n - m
  OBVIOUS
<1>5. ASSUME NEW k \in I PROVE k <= m
  <2>1. n - k \in T /\ n - k \in Nat /\ x \in Nat
    BY <1>2
  <2>2. ~ (n - k < x)
    BY <1>3, <2>1
  <2> QED BY <2>1, <2>2, <1>4
<1> QED BY <1>5

\* The last event of a target is one of the target's, and none comes later.
LEMMA LastEventIsLast ==
  ASSUME NEW es \in Seq(Occurrence), NEW t
  PROVE  /\ LastEvent(es, t) \in 0 .. Len(es)
         /\ LastEvent(es, t) # 0 => es[LastEvent(es, t)].target = t
         /\ \A k \in 1 .. Len(es) : es[k].target = t => k <= LastEvent(es, t)
<1> DEFINE I == {i \in 1 .. Len(es) : es[i].target = t}
<1>1. LastEvent(es, t) = IF I # {} THEN Max(I) ELSE 0
  BY DEF LastEvent, SelectLastInSeq
<1>2. CASE I = {}
  BY <1>1, <1>2
<1>3. CASE I # {}
  <2>0. Len(es) \in Nat /\ I \subseteq 1 .. Len(es)
    OBVIOUS
  <2>1. PICK m \in I : \A k \in I : k <= m
    <3> HIDE DEF I
    <3> QED BY <1>3, <2>0, GreatestExists
  <2>2. Max(I) \in I /\ \A k \in I : k <= Max(I)
    BY <2>1 DEF Max
  <2> QED BY <1>1, <1>3, <2>2
<1> QED BY <1>2, <1>3

\* An event moves its target, and no other.
LEMMA EventMoves ==
  ASSUME NEW es \in Seq(Occurrence), NEW e \in Occurrence, NEW t
  PROVE  /\ StateIn(Append(es, e), t) = IF e.target = t THEN e.to ELSE StateIn(es, t)
         /\ ContentIn(Append(es, e), t) =
              IF e.target = t THEN (IF e.to = "sealed" THEN e.content ELSE NoContent)
              ELSE ContentIn(es, t)
<1> DEFINE fs == Append(es, e)
<1>1. fs \in Seq(Occurrence) /\ Len(fs) = Len(es) + 1 /\ fs[Len(es) + 1] = e
      /\ \A k \in 1 .. Len(es) : fs[k] = es[k]
  OBVIOUS
<1>2. /\ LastEvent(es, t) \in 0 .. Len(es)
      /\ LastEvent(es, t) # 0 => es[LastEvent(es, t)].target = t
      /\ \A k \in 1 .. Len(es) : es[k].target = t => k <= LastEvent(es, t)
  BY LastEventIsLast
<1>3. /\ LastEvent(fs, t) \in 0 .. Len(fs)
      /\ LastEvent(fs, t) # 0 => fs[LastEvent(fs, t)].target = t
      /\ \A k \in 1 .. Len(fs) : fs[k].target = t => k <= LastEvent(fs, t)
  BY <1>1, LastEventIsLast
<1> HIDE DEF fs
<1>4. CASE e.target = t
  <2>1. LastEvent(fs, t) = Len(es) + 1
    BY <1>1, <1>3, <1>4
  <2> QED BY <1>1, <1>4, <2>1 DEF StateIn, ContentIn, fs
<1>5. CASE e.target # t
  <2>1. LastEvent(fs, t) \in 0 .. Len(es)
    BY <1>1, <1>3, <1>5
  <2>2. LastEvent(fs, t) = LastEvent(es, t)
    BY <1>1, <1>2, <1>3, <2>1
  <2>3. StateIn(fs, t) = StateIn(es, t)
    BY <1>1, <1>2, <2>2 DEF StateIn
  <2>4. ContentIn(fs, t) = ContentIn(es, t)
    BY <1>1, <1>2, <2>2, <2>3 DEF ContentIn, StateIn
  <2> QED BY <1>5, <2>3, <2>4 DEF fs
<1> QED BY <1>4, <1>5

\* What was saved of a sequence is a sequence, and its parts are parts of it.
LEMMA PrefixOf ==
  ASSUME NEW S, NEW s \in Seq(S), NEW n \in 0 .. Len(s)
  PROVE  /\ Prefix(s, n) \in Seq(S) /\ Len(Prefix(s, n)) = n
         /\ \A i \in 1 .. n : Prefix(s, n)[i] = s[i]
         /\ \A m \in 0 .. n : Prefix(Prefix(s, n), m) = Prefix(s, m)
         /\ Prefix(s, Len(s)) = s
         /\ \A e \in S : Prefix(Append(s, e), n) = Prefix(s, n)
<1>1. /\ Prefix(s, n) \in Seq(S) /\ Len(Prefix(s, n)) = n
      /\ \A i \in 1 .. n : Prefix(s, n)[i] = s[i]
  BY DEF Prefix
<1>2. ASSUME NEW m \in 0 .. n PROVE Prefix(Prefix(s, n), m) = Prefix(s, m)
  BY <1>1, <1>2 DEF Prefix
<1>3. Prefix(s, Len(s)) = s
  BY DEF Prefix
<1>4. ASSUME NEW e \in S PROVE Prefix(Append(s, e), n) = Prefix(s, n)
  BY <1>4 DEF Prefix
<1> QED BY <1>1, <1>2, <1>3, <1>4

\* The manifest of the sealed artifacts, binding by binding.
LEMMA BoundOf ==
  ASSUME NEW es, NEW b
  PROVE  b \in BindingsOf(es) <=>
           \E a \in Artifact : /\ StateIn(es, a) = "sealed"
                             /\ b = [artifact |-> a, content |-> ContentIn(es, a)]
BY DEF BindingsOf, SealedIn

\* An artifact that moves was not sealed, so what was sealed stays as it was.
LEMMA SealedStays ==
  ASSUME NEW es \in Seq(Occurrence), NEW e \in Occurrence,
         StateIn(es, e.target) # "sealed" \/ e.target = Candidate
  PROVE  BindingsOf(es) \subseteq BindingsOf(Append(es, e))
<1> SUFFICES ASSUME NEW b \in BindingsOf(es) PROVE b \in BindingsOf(Append(es, e))
  OBVIOUS
<1>1. PICK a \in Artifact : /\ StateIn(es, a) = "sealed"
                           /\ b = [artifact |-> a, content |-> ContentIn(es, a)]
  BY BoundOf
<1>2. e.target # a
  BY <1>1, CandidateAssumption
<1>3. StateIn(Append(es, e), a) = "sealed" /\ ContentIn(Append(es, e), a) = ContentIn(es, a)
  BY <1>1, <1>2, EventMoves
<1> QED BY <1>1, <1>3, BoundOf

\* An event of the candidate leaves the artifacts as they are.
LEMMA CandidateMovesAlone ==
  ASSUME NEW es \in Seq(Occurrence), NEW e \in Occurrence, e.target = Candidate
  PROVE  \A a \in Artifact : StateIn(Append(es, e), a) = StateIn(es, a)
BY EventMoves, CandidateAssumption

\* The invariant holds at first.
LEMMA EvidenceStarts == EvidenceInit => EvidenceInv
<1> SUFFICES ASSUME EvidenceInit PROVE EvidenceInv
  OBVIOUS
<1> USE DEF EvidenceInit
<1>1. Graph!Planned \in Graph!Position
  BY DEF Graph!Planned, Graph!Position, Graph!State, Graph!NonTerminal, Graph!MaxRevision
<1>2. EvidenceTyped
  BY <1>1 DEF EvidenceTyped, ChainRecord
<1>3. OneContent
  BY DEF OneContent, ToSet
<1>4. ChainGrows
  BY DEF ChainGrows
<1>5. Prefix(events, 0) = <<>> /\ Len(events) = 0 /\ <<>> \in Seq(Occurrence)
  BY DEF Prefix
<1>6. StateIn(<<>>, Candidate) = "reserved"
  <2>1. LastEvent(<<>>, Candidate) = 0
    <3>1. LastEvent(<<>>, Candidate) \in 0 .. Len(<<>>)
      BY <1>5, LastEventIsLast
    <3> QED BY <3>1
  <2> QED BY <2>1 DEF StateIn
<1>7. EndsAfterArtifacts
  BY <1>5, <1>6 DEF EndsAfterArtifacts, EndState
<1> QED BY <1>2, <1>3, <1>4, <1>7 DEF EvidenceInv, PreservedHasEnded, PreservedIsWhole

\* A run that can still take a position is not preserved.
LEMMA TransitionKeeps ==
  ASSUME EvidenceInv, NEW s \in Graph!State, Transition(s)
  PROVE  EvidenceInv'
<1> USE DEF Transition
<1>1. Graph!Successor(Standing, s) \in Graph!Position
  BY DEF Graph!ValidTransition, Graph!ValidPosition, Graph!Successor, Graph!Position,
         Graph!ValidRevisions, Graph!RevisionTable, Graph!State, Graph!NonTerminal,
         Graph!Terminal, Graph!MaxRevision
<1>2. EvidenceTyped'
  BY <1>1 DEF EvidenceInv, EvidenceTyped
<1>3. decision.kind # "terminal_preserved"
  BY DEF EvidenceInv, PreservedHasEnded, Graph!ValidTransition, Graph!Targets, Graph!Terminal
<1>4. OneContent' /\ ChainGrows' /\ EndsAfterArtifacts'
  BY DEF EvidenceInv, OneContent, ChainGrows, EndsAfterArtifacts
<1> QED BY <1>2, <1>3, <1>4 DEF EvidenceInv, PreservedHasEnded, PreservedIsWhole

\* An event that leaves a good lifecycle good after all of the events.
LEMMA EventKeeps ==
  ASSUME EvidenceInv, NEW e \in Occurrence, events' = Append(events, e),
         UNCHANGED <<positions, bound, chain, base, decision>>,
         decision.kind # "terminal_preserved",
         StateIn(events, e.target) # "sealed" \/ e.target = Candidate,
         StateIn(events', Candidate) \in EndState =>
           \A a \in Artifact : StateIn(events', a) \in TerminalArtifact
  PROVE  EvidenceInv'
<1>1. events \in Seq(Occurrence)
  BY DEF EvidenceInv, EvidenceTyped
<1>2. EvidenceTyped'
  BY <1>1 DEF EvidenceInv, EvidenceTyped
<1>3. BindingsOf(events) \subseteq BindingsOf(events')
  BY <1>1, SealedStays
<1>4. OneContent'
  BY <1>3 DEF EvidenceInv, OneContent
<1>5. EndsAfterArtifacts'
  <2> SUFFICES ASSUME NEW n \in 0 .. Len(events'), StateIn(Prefix(events', n), Candidate) \in EndState
               PROVE  \A a \in Artifact : StateIn(Prefix(events', n), a) \in TerminalArtifact
    BY DEF EndsAfterArtifacts
  <2>1. CASE n = Len(events')
    <3>1. events' \in Seq(Occurrence) /\ Len(events') \in 0 .. Len(events')
      BY <1>1
    <3>2. Prefix(events', n) = events'
      BY <2>1, <3>1, PrefixOf
    <3> QED BY <3>2
  <2>2. CASE n # Len(events')
    <3>1. n \in 0 .. Len(events)
      BY <1>1, <2>2
    <3>2. Prefix(events', n) = Prefix(events, n)
      BY <1>1, <3>1, PrefixOf
    <3> QED BY <3>1, <3>2 DEF EvidenceInv, EndsAfterArtifacts
  <2> QED BY <2>1, <2>2
<1>6. ChainGrows'
  BY DEF EvidenceInv, ChainGrows
<1> QED BY <1>2, <1>4, <1>5, <1>6 DEF EvidenceInv, PreservedHasEnded, PreservedIsWhole

\* The candidate ends after its artifacts.
LEMMA WholeAtEnd ==
  ASSUME EvidenceInv, StateIn(events, Candidate) \in EndState
  PROVE  \A a \in Artifact : StateIn(events, a) \in TerminalArtifact
<1>1. events \in Seq(Occurrence) /\ Len(events) \in 0 .. Len(events)
  BY DEF EvidenceInv, EvidenceTyped
<1>2. Prefix(events, Len(events)) = events
  BY <1>1, PrefixOf
<1> QED BY <1>1, <1>2 DEF EvidenceInv, EndsAfterArtifacts

LEMMA TransitionArtifactKeeps ==
  ASSUME EvidenceInv, NEW a \in Artifact, NEW s \in ArtifactState, NEW c \in Sealable,
         TransitionArtifact(a, s, c)
  PROVE  EvidenceInv'
<1> DEFINE e == [target |-> a, to |-> s, content |-> IF s = "sealed" THEN c ELSE NoContent]
<1>1. e \in Occurrence /\ events \in Seq(Occurrence)
  BY DEF Occurrence, Sealing, EvidenceInv, EvidenceTyped
<1>2. events' = Append(events, e) /\ UNCHANGED <<positions, bound, chain, base, decision>>
  BY DEF TransitionArtifact, Event
<1>3. StateIn(events, a) \notin TerminalArtifact
  BY DEF TransitionArtifact, ArtifactTargets, TerminalArtifact
<1>4. StateIn(events, Candidate) \notin EndState
  BY <1>3, WholeAtEnd
<1>5. decision.kind # "terminal_preserved"
  BY <1>4 DEF EvidenceInv, PreservedHasEnded
<1>6. e.target = a /\ StateIn(events, a) # "sealed"
  BY <1>3 DEF TerminalArtifact
<1>7. StateIn(events', Candidate) = StateIn(events, Candidate)
  BY <1>1, <1>2, <1>6, EventMoves, CandidateAssumption
<1> HIDE DEF e
<1> QED BY <1>1, <1>2, <1>4, <1>5, <1>6, <1>7, EventKeeps

LEMMA TransitionCandidateKeeps ==
  ASSUME EvidenceInv, NEW s \in CandidateState, TransitionCandidate(s)
  PROVE  EvidenceInv'
<1> DEFINE e == [target |-> Candidate, to |-> s, content |-> NoContent]
<1>1. e \in Occurrence /\ events \in Seq(Occurrence) /\ e.target = Candidate /\ e.to = s
  BY DEF Occurrence, Sealing, EvidenceInv, EvidenceTyped
<1>2. events' = Append(events, e) /\ UNCHANGED <<positions, bound, chain, base, decision>>
  BY DEF TransitionCandidate, Event
<1>3. StateIn(events, Candidate) \notin EndState
  BY DEF TransitionCandidate, CandidateTargets, EndState
<1>4. decision.kind # "terminal_preserved"
  BY <1>3 DEF EvidenceInv, PreservedHasEnded
<1> HIDE DEF e
<1>5. \A a \in Artifact : StateIn(events', a) = StateIn(events, a)
  BY <1>1, <1>2, CandidateMovesAlone
<1>6. StateIn(events', Candidate) = s
  BY <1>1, <1>2, EventMoves
<1>7. s \in EndState => \A a \in Artifact : StateIn(events, a) \in TerminalArtifact
  BY DEF TransitionCandidate, MayEnd, EndState, TerminalArtifact
<1> QED BY <1>1, <1>2, <1>4, <1>5, <1>6, <1>7, EventKeeps

\* What is appended is added to what there was.
LEMMA AppendAdds ==
  ASSUME NEW S, NEW s \in Seq(S), NEW x
  PROVE  ToSet(Append(s, x)) = ToSet(s) \union {x}
BY DEF ToSet

LEMMA BindKeeps ==
  ASSUME EvidenceInv, NEW a \in Artifact, Bind(a)
  PROVE  EvidenceInv'
<1> DEFINE b == [artifact |-> a, content |-> ContentIn(events, a)]
<1>1. /\ bound' = Append(bound, b) /\ UNCHANGED <<positions, events, chain, base, decision>>
      /\ StateIn(events, a) = "sealed" /\ \A d \in ToSet(bound) : d.artifact # a
  BY DEF Bind
<1>2. b \in BindingsOf(events)
  BY <1>1, BoundOf
<1>3. b \in Binding
  <2>1. events \in Seq(Occurrence)
    BY DEF EvidenceInv, EvidenceTyped
  <2>2. LastEvent(events, a) \in 1 .. Len(events)
    BY <1>1, <2>1, LastEventIsLast DEF StateIn
  <2>3. events[LastEvent(events, a)] \in Occurrence
    BY <2>1, <2>2
  <2>4. ContentIn(events, a) = events[LastEvent(events, a)].content
    BY <1>1 DEF ContentIn
  <2>5. ContentIn(events, a) \in Sealing
    BY <2>3, <2>4 DEF Occurrence
  <2> QED BY <2>5 DEF Binding
<1> HIDE DEF b
<1>4. EvidenceTyped'
  BY <1>1, <1>3 DEF EvidenceInv, EvidenceTyped
<1>5. ToSet(bound') = ToSet(bound) \union {b}
  BY <1>1, AppendAdds DEF EvidenceInv, EvidenceTyped
<1>6. OneContent'
  BY <1>1, <1>2, <1>5 DEF EvidenceInv, OneContent
<1>7. decision.kind # "terminal_preserved"
  BY <1>1, <1>2 DEF EvidenceInv, PreservedHasEnded, b
<1> QED BY <1>1, <1>4, <1>6, <1>7
        DEF EvidenceInv, ChainGrows, EndsAfterArtifacts, PreservedHasEnded, PreservedIsWhole

\* The run stands at a position of the graph.
LEMMA StandsInGraph ==
  ASSUME NEW ps \in Seq(Graph!Position)
  PROVE  TipOf(ps) \in Graph!Position
<1>1. Graph!Planned \in Graph!Position
  BY DEF Graph!Planned, Graph!Position, Graph!State, Graph!NonTerminal, Graph!MaxRevision
<1>2. CASE ps # <<>>
  BY <1>2 DEF TipOf, Last
<1> QED BY <1>1, <1>2 DEF TipOf

LEMMA AppendProvenanceKeeps ==
  ASSUME EvidenceInv, AppendProvenance
  PROVE  EvidenceInv'
<1> DEFINE r == RecordOf(positions, bound)
<1>1. /\ chain' = Append(chain, r) /\ UNCHANGED <<positions, events, bound, base, decision>>
      /\ Follows(r, Last(chain))
  BY DEF AppendProvenance
<1>2. r = [position |-> Standing, bindings |-> ToSet(bound)] /\ Standing \in Graph!Position
  BY StandsInGraph DEF RecordOf, Standing, EvidenceInv, EvidenceTyped
<1>3. ToSet(bound) \subseteq Binding
  BY DEF EvidenceInv, EvidenceTyped, ToSet
<1> HIDE DEF r
<1>4. r \in ChainRecord
  BY <1>2, <1>3 DEF ChainRecord
<1>5. EvidenceTyped'
  BY <1>1, <1>4 DEF EvidenceInv, EvidenceTyped
<1>6. r.bindings = ToSet(bound) /\ ToSet(bound) \subseteq BindingsOf(events)
  BY <1>2 DEF EvidenceInv, OneContent
<1>7. /\ Len(chain') = Len(chain) + 1 /\ chain'[Len(chain) + 1] = r
      /\ Len(chain) \in DOMAIN chain /\ Last(chain) = chain[Len(chain)]
      /\ DOMAIN chain' = 1 .. (Len(chain) + 1) /\ DOMAIN chain = 1 .. Len(chain)
      /\ \A i \in DOMAIN chain : chain'[i] = chain[i]
  BY <1>1 DEF EvidenceInv, EvidenceTyped, Last
<1>8. OneContent'
  BY <1>1, <1>6, <1>7 DEF EvidenceInv, OneContent
<1>9. ChainGrows'
  <2>1. chain[Len(chain)].bindings \subseteq r.bindings
    BY <1>1, <1>7 DEF Follows
  <2> SUFFICES ASSUME NEW i \in DOMAIN chain', NEW j \in DOMAIN chain', i <= j
               PROVE  chain'[i].bindings \subseteq chain'[j].bindings
    BY DEF ChainGrows
  <2>2. CASE j \in DOMAIN chain
    <3>1. i \in DOMAIN chain
      BY <1>7, <2>2
    <3> QED BY <1>7, <2>2, <3>1 DEF EvidenceInv, ChainGrows
  <2>3. CASE j \notin DOMAIN chain
    <3>1. j = Len(chain) + 1
      BY <1>7, <2>3
    <3>2. CASE i = j
      BY <3>2
    <3>3. CASE i # j
      <4>1. i \in DOMAIN chain /\ i <= Len(chain)
        BY <1>7, <3>1, <3>3
      <4>2. chain[i].bindings \subseteq chain[Len(chain)].bindings
        BY <1>7, <4>1 DEF EvidenceInv, ChainGrows
      <4> QED BY <1>7, <2>1, <3>1, <4>1, <4>2
    <3> QED BY <3>2, <3>3
  <2> QED BY <2>2, <2>3
<1>10. decision.kind # "terminal_preserved"
  <2> SUFFICES ASSUME decision.kind = "terminal_preserved" PROVE FALSE
    OBVIOUS
  <2>1. Last(chain) = r
    BY <1>2 DEF EvidenceInv, PreservedIsWhole, PreservedHasEnded
  <2>2. r.position.revision \in Nat
    BY <1>2 DEF Graph!Position, Graph!MaxRevision
  <2> QED BY <1>1, <2>1, <2>2 DEF Follows
<1> QED BY <1>1, <1>5, <1>8, <1>9, <1>10
        DEF EvidenceInv, EndsAfterArtifacts, PreservedHasEnded, PreservedIsWhole

\* A bound that has all the sealed artifacts, each with its content, is the manifest.
LEMMA WholeManifest ==
  ASSUME NEW bs, NEW es, ManifestHolds(bs, es),
         {b.artifact : b \in ToSet(bs)} = SealedIn(es)
  PROVE  ToSet(bs) = BindingsOf(es)
<1> SUFFICES ASSUME NEW b \in BindingsOf(es) PROVE b \in ToSet(bs)
  BY DEF ManifestHolds
<1>1. PICK a \in SealedIn(es) : b = [artifact |-> a, content |-> ContentIn(es, a)]
  BY DEF BindingsOf
<1>2. PICK d \in ToSet(bs) : d.artifact = a
  BY <1>1
<1>3. PICK a2 \in SealedIn(es) : d = [artifact |-> a2, content |-> ContentIn(es, a2)]
  BY <1>2 DEF ManifestHolds, BindingsOf
<1> QED BY <1>1, <1>2, <1>3

\* A restart that is not refused is given a part of each record that is in order.
LEMMA RecoverKeeps ==
  ASSUME EvidenceInv, NEW n \in Saved, Restored(n), Recover(n)
  PROVE  EvidenceInv'
<1>1. /\ n.ledger \in 0 .. Len(positions) /\ n.events \in 0 .. Len(events)
      /\ n.bound \in 0 .. Len(bound) /\ n.chain \in 1 .. Len(chain)
  BY DEF EvidenceInv, EvidenceTyped, Saved
<1>2. /\ positions' = Prefix(positions, n.ledger) /\ events' = Prefix(events, n.events)
      /\ bound' = Prefix(bound, n.bound) /\ chain' = Prefix(chain, n.chain)
      /\ base' = [ledger |-> n.ledger, events |-> n.events, bound |-> n.bound, chain |-> n.chain]
      /\ decision' = [kind |-> Disposition(Standing'),
                      evidence |-> {[position |-> Standing', output |-> ToSet(bound')]}]
  BY DEF Recover, Standing
<1>3. /\ positions' \in Seq(Graph!Position)
      /\ events' \in Seq(Occurrence) /\ Len(events') = n.events
      /\ bound' \in Seq(Binding)
      /\ chain' \in Seq(ChainRecord) /\ Len(chain') = n.chain
      /\ \A i \in DOMAIN chain' : i \in DOMAIN chain /\ chain'[i] = chain[i]
  <2>1. positions' \in Seq(Graph!Position)
    BY <1>1, <1>2, PrefixOf DEF EvidenceInv, EvidenceTyped
  <2>2. events' \in Seq(Occurrence) /\ Len(events') = n.events
    BY <1>1, <1>2, PrefixOf DEF EvidenceInv, EvidenceTyped
  <2>3. bound' \in Seq(Binding)
    BY <1>1, <1>2, PrefixOf DEF EvidenceInv, EvidenceTyped
  <2>4. /\ chain \in Seq(ChainRecord) /\ n.chain \in 0 .. Len(chain)
    BY <1>1 DEF EvidenceInv, EvidenceTyped
  <2>5. /\ chain' \in Seq(ChainRecord) /\ Len(chain') = n.chain
        /\ \A i \in 1 .. n.chain : chain'[i] = chain[i]
    BY <1>2, <2>4, PrefixOf
  <2>6. DOMAIN chain' = 1 .. n.chain /\ DOMAIN chain = 1 .. Len(chain)
    BY <2>4, <2>5
  <2> QED BY <2>1, <2>2, <2>3, <2>4, <2>5, <2>6
<1>4. /\ ManifestHolds(bound', events')
      /\ Last(chain') = [position |-> Standing', bindings |-> ToSet(bound')]
      /\ Converged(Standing', events', bound')
  <2>1. TipOf(Prefix(positions, n.snapshot)) = Standing'
    BY <1>2 DEF Restored, Accepts, LedgerAgrees, Standing
  <2> QED BY <1>2, <2>1 DEF Restored, Accepts, RecordAgrees
<1>5. EvidenceTyped'
  BY <1>1, <1>2, <1>3 DEF EvidenceTyped
<1>6. ChainGrows'
  BY <1>3 DEF EvidenceInv, ChainGrows
<1>7. OneContent'
  <2>1. /\ DOMAIN chain' = 1 .. Len(chain') /\ Len(chain') \in DOMAIN chain'
        /\ Last(chain') = chain'[Len(chain')]
    BY <1>1, <1>3 DEF Last
  <2>2. \A i \in DOMAIN chain' : chain'[i].bindings \subseteq chain'[Len(chain')].bindings
    BY <1>6, <2>1 DEF ChainGrows
  <2>3. chain'[Len(chain')].bindings = ToSet(bound')
    BY <1>4, <2>1
  <2>4. ToSet(bound') \subseteq BindingsOf(events')
    BY <1>4 DEF ManifestHolds
  <2> QED BY <2>2, <2>3, <2>4 DEF OneContent
<1>8. EndsAfterArtifacts'
  <2> SUFFICES ASSUME NEW m \in 0 .. Len(events')
               PROVE  m \in 0 .. Len(events) /\ Prefix(events', m) = Prefix(events, m)
    BY DEF EndsAfterArtifacts, EvidenceInv
  <2>1. m \in 0 .. n.events /\ m \in 0 .. Len(events)
    BY <1>1, <1>3
  <2> QED BY <1>1, <1>2, <2>1, PrefixOf DEF EvidenceInv, EvidenceTyped
<1>9. ASSUME decision'.kind = "terminal_preserved"
      PROVE  (PreservedHasEnded /\ PreservedIsWhole)'
  <2>1. Standing' \in Graph!Position
    BY <1>3, StandsInGraph DEF Standing
  <2>2. Standing'.state \in Graph!Terminal
    BY <1>2, <1>9, <2>1 DEF Disposition, Graph!Position, Graph!State, Graph!NonTerminal,
                            Graph!Terminal, PreDispatch, InFlight
  <2>3. StateIn(events', Candidate) \in EndState
    BY <1>4, <2>2 DEF Converged, EndState, Graph!Terminal
  <2>4. ToSet(bound') = BindingsOf(events')
    BY <1>4, <2>2, WholeManifest DEF Converged
  <2>5. \A a \in Artifact : StateIn(events', a) \in TerminalArtifact
    <3>1. events' \in Seq(Occurrence) /\ Len(events') \in 0 .. Len(events')
      BY <1>3
    <3>2. Prefix(events', Len(events')) = events'
      BY <3>1, PrefixOf
    <3> QED BY <1>8, <2>3, <3>1, <3>2 DEF EndsAfterArtifacts
  <2> QED BY <1>2, <1>4, <2>2, <2>3, <2>4, <2>5 DEF PreservedHasEnded, PreservedIsWhole
<1> QED BY <1>5, <1>6, <1>7, <1>8, <1>9 DEF EvidenceInv, PreservedHasEnded, PreservedIsWhole

LEMMA RefuseKeeps ==
  ASSUME EvidenceInv, Refuse
  PROVE  EvidenceInv'
BY DEF Refuse, EvidenceInv, EvidenceTyped, OneContent, ChainGrows, EndsAfterArtifacts,
       PreservedHasEnded, PreservedIsWhole

\* What is restored, refused or preserved of a run: the invariant of its evidence.
THEOREM EvidenceInvariant == EvidenceSpec => []EvidenceInv
<1>1. EvidenceInv /\ [EvidenceNext]_evidenceVars => EvidenceInv'
  <2> SUFFICES ASSUME EvidenceInv, [EvidenceNext]_evidenceVars PROVE EvidenceInv'
    OBVIOUS
  <2>1. ASSUME NEW s \in Graph!State, Transition(s) PROVE EvidenceInv'
    BY <2>1, TransitionKeeps
  <2>2. ASSUME NEW a \in Artifact, NEW s \in ArtifactState, NEW c \in Sealable,
               TransitionArtifact(a, s, c)
        PROVE  EvidenceInv'
    BY <2>2, TransitionArtifactKeeps
  <2>3. ASSUME NEW s \in CandidateState, TransitionCandidate(s) PROVE EvidenceInv'
    BY <2>3, TransitionCandidateKeeps
  <2>4. ASSUME NEW a \in Artifact, Bind(a) PROVE EvidenceInv'
    BY <2>4, BindKeeps
  <2>5. CASE AppendProvenance
    BY <2>5, AppendProvenanceKeeps
  <2>6. CASE Restart
    BY <2>6, RecoverKeeps, RefuseKeeps DEF Restart
  <2>7. CASE UNCHANGED evidenceVars
    BY <2>7 DEF evidenceVars, EvidenceInv, EvidenceTyped, OneContent, ChainGrows,
                EndsAfterArtifacts, PreservedHasEnded, PreservedIsWhole, Standing
  <2> QED BY <2>1, <2>2, <2>3, <2>4, <2>5, <2>6, <2>7 DEF EvidenceNext
<1> QED BY EvidenceStarts, <1>1, PTL DEF EvidenceSpec

\* One artifact, one content: what is bound or recorded is what was sealed,
\* whichever parts of the records a crash loses, as often as it happens.
THEOREM OneContentForever == EvidenceSpec => []OneContent
<1>1. EvidenceInv => OneContent
  BY DEF EvidenceInv
<1> QED BY EvidenceInvariant, <1>1, PTL

\* A run preserved as ended is whole, and nothing of it changes any more.
THEOREM PreservedStaysWhole == EvidenceSpec => []PreservedIsWhole
<1>1. EvidenceInv => PreservedIsWhole
  BY DEF EvidenceInv
<1> QED BY EvidenceInvariant, <1>1, PTL

-----------------------------------------------------------------------------
(* The ingestion.                                                          *)

HandedCandidate == [engine : Requested, frame : Frame]

Reported == [status : {"none", "failed"}, frame : {NoFrame}] \union [status : {"success"}, frame : Frame]

IngestTyped ==
  /\ file \in [Requested -> [FileKind -> Contents \union {NoFile}]]
  /\ record \in [Requested -> Frame \union {NoFrame}]
  /\ pc \in [Delivery -> Point]
  /\ result \in [Delivery -> HandedCandidate \union {NoCandidate}]
  /\ told \in [Delivery -> {"none", "defect", "conflict", "persisted", "invalid"}]
  /\ outcome \in [Requested -> Reported]

\* The points of a delivery that has artifact k behind it.
Beyond(k) ==
  CASE k = "raw_engine_result" -> {"musicxml", "diagnostic", "record", "verify"}
    [] k = "musicxml"          -> {"diagnostic", "record", "verify"}
    [] k = "diagnostic"        -> {"record", "verify"}

\* What a delivery has written, or found to be there, is its own.
DeliveryHolds(c) ==
  /\ pc[c] \in WorkingPoint => result[c] \in HandedCandidate
  /\ \A k \in FileKind :
       pc[c] \in Beyond(k) => file[result[c].engine][k] = result[c].frame[k]
  /\ pc[c] = "verify" => record[result[c].engine] = result[c].frame
  /\ told[c] = "persisted" =>
       /\ pc[c] = "done" /\ result[c] \in HandedCandidate
       /\ record[result[c].engine] = result[c].frame

RecordsWhole == \A e \in Requested : record[e] # NoFrame => file[e] = record[e]

ReportsRecorded ==
  \A e \in Requested : outcome[e].status = "success" => record[e] = outcome[e].frame

\* The handoff is made when every engine has its outcome, of what was reported.
HandoffMade ==
  /\ handoff.status # "none" => \A e \in Requested : outcome[e] # NoReport
  /\ HandoffIsReported

IngestInv ==
  /\ IngestTyped /\ RecordsWhole /\ ReportsRecorded /\ HandoffMade
  /\ \A c \in Delivery : DeliveryHolds(c)

-----------------------------------------------------------------------------

LEMMA FramesAreWhole ==
  /\ NoFrame \notin Frame
  /\ NoFrame \in [FileKind -> {NoFile}]
  /\ \A f \in Frame : f \in [FileKind -> Contents] /\ \A k \in FileKind : f[k] \in Contents /\ f[k] # NoFile
<1>1. \A f \in Frame : f \in [FileKind -> Contents] /\ \A k \in FileKind : f[k] \in Contents /\ f[k] # NoFile
  BY FrameAssumption
<1>2. NoFrame["musicxml"] = NoFile /\ "musicxml" \in FileKind
  BY DEF NoFrame, FileKind
<1>3. QED
  BY <1>1, <1>2 DEF NoFrame

LEMMA IngestInitially == IngestInit => IngestInv
<1> SUFFICES ASSUME IngestInit
             PROVE  IngestInv
  OBVIOUS
<1>1. IngestTyped
  BY FramesAreWhole DEF IngestInit, IngestTyped, Point, Reported, NoReport
<1>2. RecordsWhole /\ ReportsRecorded /\ HandoffMade
  BY DEF IngestInit, RecordsWhole, ReportsRecorded, HandoffMade, HandoffIsReported, NoReport
<1>3. \A c \in Delivery : DeliveryHolds(c)
  BY DEF IngestInit, DeliveryHolds, WorkingPoint, Beyond, FileKind
<1>4. QED
  BY <1>1, <1>2, <1>3 DEF IngestInv

\* A delivery that is not the one that moves keeps what it wrote, when no file
\* and no record of a result is replaced.
LEMMA OthersHold ==
  ASSUME IngestInv, NEW c \in Delivery, NEW d \in Delivery \ {c},
         pc'[d] = pc[d], result'[d] = result[d], told'[d] = told[d],
         \A e \in Requested, k \in FileKind : file[e][k] # NoFile => file'[e][k] = file[e][k],
         \A e \in Requested : record[e] # NoFrame => record'[e] = record[e]
  PROVE  DeliveryHolds(d)'
<1>1. DeliveryHolds(d)
  BY DEF IngestInv
<1>2. \A k \in FileKind : pc[d] \in Beyond(k) => pc[d] \in WorkingPoint
  BY DEF Beyond, FileKind, WorkingPoint
<1>3. result[d] \in HandedCandidate =>
        /\ result[d].engine \in Requested /\ result[d].frame # NoFrame
        /\ \A k \in FileKind : result[d].frame[k] # NoFile
  BY FramesAreWhole DEF HandedCandidate
<1>4. pc[d] = "verify" => pc[d] \in WorkingPoint
  BY DEF WorkingPoint
<1>5. QED
  BY <1>1, <1>2, <1>3, <1>4 DEF DeliveryHolds

\* The records stay whole: a record is one of the results, and no file of it is missing.
LEMMA RecordedStays ==
  ASSUME IngestInv,
         \A e \in Requested, k \in FileKind : file[e][k] # NoFile => file'[e][k] = file[e][k],
         file' \in [Requested -> [FileKind -> Contents \union {NoFile}]],
         NEW e \in Requested, record[e] # NoFrame, record'[e] = record[e]
  PROVE  file'[e] = record'[e]
<1>1. file[e] = record[e] /\ record[e] \in Frame
  BY DEF IngestInv, RecordsWhole, IngestTyped
<1>2. \A k \in FileKind : file[e][k] # NoFile
  BY <1>1, FramesAreWhole
<1>3. file[e] \in [FileKind -> Contents \union {NoFile}] /\ file'[e] \in [FileKind -> Contents \union {NoFile}]
  BY DEF IngestInv, IngestTyped
<1>4. file'[e] = file[e]
  BY <1>2, <1>3
<1>5. QED
  BY <1>1, <1>4

\* A step of c that replaces nothing, once c itself has been looked at.
LEMMA IngestUndisturbed ==
  ASSUME IngestInv, NEW c \in Delivery,
         file' \in [Requested -> [FileKind -> Contents \union {NoFile}]],
         pc' \in [Delivery -> Point], result' \in [Delivery -> HandedCandidate \union {NoCandidate}],
         told' \in [Delivery -> {"none", "defect", "conflict", "persisted", "invalid"}],
         \A d \in Delivery \ {c} : pc'[d] = pc[d] /\ result'[d] = result[d] /\ told'[d] = told[d],
         \A e \in Requested, k \in FileKind : file[e][k] # NoFile => file'[e][k] = file[e][k],
         UNCHANGED <<record, outcome, handoff>>,
         DeliveryHolds(c)'
  PROVE  IngestInv'
<1>1. IngestTyped'
  BY DEF IngestInv, IngestTyped
<1>2. RecordsWhole'
  BY RecordedStays DEF RecordsWhole
<1>3. ReportsRecorded' /\ HandoffMade'
  BY DEF IngestInv, ReportsRecorded, HandoffMade, HandoffIsReported, Succeeded
<1>4. \A d \in Delivery \ {c} : DeliveryHolds(d)'
  BY OthersHold
<1>5. QED
  BY <1>1, <1>2, <1>3, <1>4 DEF IngestInv

\* A delivery that ends without being told that it was persisted.
LEMMA IngestEnds ==
  ASSUME IngestInv, NEW c \in Delivery, NEW a \in {"defect", "conflict", "invalid"},
         AnswerDelivery(c, a), UNCHANGED <<file, record, result, outcome, handoff>>
  PROVE  IngestInv'
<1>1. /\ pc' \in [Delivery -> Point] /\ pc'[c] = "done"
      /\ told' \in [Delivery -> {"none", "defect", "conflict", "persisted", "invalid"}]
      /\ told'[c] # "persisted"
      /\ \A d \in Delivery \ {c} : pc'[d] = pc[d] /\ told'[d] = told[d]
  BY DEF AnswerDelivery, IngestInv, IngestTyped, Point
<1>2. DeliveryHolds(c)'
  BY <1>1 DEF DeliveryHolds, WorkingPoint, Beyond, FileKind
<1>3. QED
  BY <1>1, <1>2, IngestUndisturbed DEF IngestInv, IngestTyped

LEMMA IngestIngests ==
  ASSUME IngestInv, NEW c \in Delivery, Ingest(c)
  PROVE  IngestInv'
<1>1. CASE Defect(c)
  BY <1>1, IngestEnds DEF Defect, Ingest
<1>2. ASSUME NEW e \in Requested, NEW f \in Frame,
             result' = [result EXCEPT ![c] = CandidateOf(e, f)],
             pc' = [pc EXCEPT ![c] = "raw_engine_result"], UNCHANGED told
      PROVE  IngestInv'
  <2>1. CandidateOf(e, f) \in HandedCandidate
    BY DEF CandidateOf, HandedCandidate
  <2>2. told[c] # "persisted"
    BY DEF Ingest, IngestInv, DeliveryHolds
  <2>3. /\ pc' \in [Delivery -> Point] /\ pc'[c] = "raw_engine_result"
        /\ result' \in [Delivery -> HandedCandidate \union {NoCandidate}] /\ result'[c] \in HandedCandidate
        /\ \A d \in Delivery \ {c} : pc'[d] = pc[d] /\ result'[d] = result[d]
    BY <1>2, <2>1 DEF IngestInv, IngestTyped, Point, WorkingPoint
  <2>4. DeliveryHolds(c)'
    BY <1>2, <2>2, <2>3 DEF DeliveryHolds, Beyond, FileKind
  <2>5. QED
    BY <1>2, <2>3, <2>4, IngestUndisturbed DEF Ingest, IngestInv, IngestTyped
<1>3. QED
  BY <1>1, <1>2 DEF Ingest

LEMMA IngestPersistsFile ==
  ASSUME IngestInv, NEW c \in Delivery, NEW k \in FileKind, PersistFile(c, k)
  PROVE  IngestInv'
<1> DEFINE e == result[c].engine
           f == result[c].frame
<1>1. pc[c] = k /\ pc[c] \in WorkingPoint /\ UNCHANGED <<record, result, outcome, handoff>>
  BY DEF PersistFile, FileKind, WorkingPoint
<1>2. /\ result[c] \in HandedCandidate /\ e \in Requested /\ f \in Frame
      /\ f[k] \in Contents /\ f[k] # NoFile /\ told[c] # "persisted"
  BY <1>1, FramesAreWhole DEF IngestInv, DeliveryHolds, HandedCandidate, WorkingPoint
<1>3. CASE AnswerDelivery(c, "conflict") /\ UNCHANGED file
  BY <1>1, <1>3, IngestEnds
<1>4. ASSUME pc' = [pc EXCEPT ![c] = After(k)], UNCHANGED told,
             file' \in [Requested -> [FileKind -> Contents \union {NoFile}]],
             \A x \in Requested, y \in FileKind : file[x][y] # NoFile => file'[x][y] = file[x][y],
             file'[e][k] = f[k]
      PROVE  IngestInv'
  <2>1. After(k) \in WorkingPoint /\ \A x \in FileKind : After(k) \in Beyond(x) => x = k \/ k \in Beyond(x)
    BY DEF After, FileKind, WorkingPoint, Beyond
  <2>2. /\ pc' \in [Delivery -> Point] /\ pc'[c] = After(k)
        /\ \A d \in Delivery \ {c} : pc'[d] = pc[d]
    BY <1>4, <2>1 DEF IngestInv, IngestTyped, Point
  <2>3. ASSUME NEW x \in FileKind, pc'[c] \in Beyond(x)
        PROVE  file'[e][x] = f[x]
    <3>1. CASE x = k
      BY <1>4, <3>1
    <3>2. CASE pc[c] \in Beyond(x)
      <4>1. file[e][x] = f[x] /\ f[x] # NoFile
        BY <1>2, <3>2, FramesAreWhole DEF IngestInv, DeliveryHolds
      <4>2. QED
        BY <1>2, <1>4, <4>1
    <3>3. QED
      BY <1>1, <2>1, <2>2, <2>3, <3>1, <3>2
  <2>4. After(k) # "verify"
    BY DEF After, FileKind
  <2>5. DeliveryHolds(c)'
    BY <1>1, <1>2, <1>4, <2>2, <2>3, <2>4 DEF DeliveryHolds
  <2>6. QED
    BY <1>1, <1>4, <2>2, <2>5, IngestUndisturbed DEF IngestInv, IngestTyped
<1>5. CASE /\ file[e][k] = NoFile /\ file' = [file EXCEPT ![e][k] = f[k]]
           /\ pc' = [pc EXCEPT ![c] = After(k)] /\ UNCHANGED told
  <2>1. /\ file' \in [Requested -> [FileKind -> Contents \union {NoFile}]]
        /\ file'[e][k] = f[k]
        /\ \A x \in Requested, y \in FileKind : file[x][y] # NoFile => file'[x][y] = file[x][y]
    BY <1>2, <1>5 DEF IngestInv, IngestTyped
  <2>2. QED
    BY <1>4, <1>5, <2>1
<1>6. CASE /\ ExactReplay(c, k) /\ UNCHANGED file
           /\ pc' = [pc EXCEPT ![c] = After(k)] /\ UNCHANGED told
  BY <1>4, <1>6 DEF ExactReplay, IngestInv, IngestTyped
<1>7. QED
  BY <1>3, <1>5, <1>6 DEF PersistFile

LEMMA IngestPersistsRecord ==
  ASSUME IngestInv, NEW c \in Delivery, PersistRecord(c)
  PROVE  IngestInv'
<1> DEFINE e == result[c].engine
           f == result[c].frame
<1>1. pc[c] = "record" /\ pc[c] \in WorkingPoint /\ UNCHANGED <<file, result, outcome, handoff>>
  BY DEF PersistRecord, WorkingPoint
<1>2. /\ result[c] \in HandedCandidate /\ e \in Requested /\ f \in Frame /\ f # NoFrame
      /\ told[c] # "persisted"
  BY <1>1, FramesAreWhole DEF IngestInv, DeliveryHolds, HandedCandidate, WorkingPoint
<1>3. CASE AnswerDelivery(c, "conflict") /\ UNCHANGED record
  BY <1>1, <1>3, IngestEnds
<1>4. CASE ~(AnswerDelivery(c, "conflict") /\ UNCHANGED record)
  <2>1. /\ pc' = [pc EXCEPT ![c] = "verify"] /\ UNCHANGED told
        /\ \/ record[e] = NoFrame /\ record' = [record EXCEPT ![e] = f]
           \/ record[e] = f /\ UNCHANGED record
    BY <1>4 DEF PersistRecord
  <2>2. /\ record' \in [Requested -> Frame \union {NoFrame}] /\ record'[e] = f
        /\ \A x \in Requested : record[x] # NoFrame => record'[x] = record[x]
        /\ \A x \in Requested \ {e} : record'[x] = record[x]
    BY <1>2, <2>1 DEF IngestInv, IngestTyped
  <2>3. /\ pc' \in [Delivery -> Point] /\ pc'[c] = "verify"
        /\ \A d \in Delivery \ {c} : pc'[d] = pc[d]
    BY <2>1 DEF IngestInv, IngestTyped, Point, WorkingPoint
  <2>4. \A k \in FileKind : file[e][k] = f[k]
    BY <1>1 DEF IngestInv, DeliveryHolds, Beyond, FileKind
  <2>5. file[e] = f
    <3>1. file[e] \in [FileKind -> Contents \union {NoFile}] /\ f \in [FileKind -> Contents]
      BY <1>2, FramesAreWhole DEF IngestInv, IngestTyped
    <3>2. QED
      BY <2>4, <3>1
  <2>6. IngestTyped'
    BY <1>1, <2>1, <2>2, <2>3 DEF IngestInv, IngestTyped
  <2>7. RecordsWhole'
    BY <1>1, <2>2, <2>5 DEF IngestInv, RecordsWhole
  <2>8. ReportsRecorded'
    <3>1. \A x \in Requested : outcome[x].status = "success" => outcome[x].frame # NoFrame
      BY FramesAreWhole DEF IngestInv, IngestTyped, Reported
    <3>2. QED
      BY <1>1, <2>2, <3>1 DEF IngestInv, ReportsRecorded
  <2>9. HandoffMade'
    BY <1>1 DEF IngestInv, HandoffMade, HandoffIsReported, Succeeded
  <2>10. DeliveryHolds(c)'
    BY <1>1, <1>2, <2>1, <2>2, <2>3, <2>4 DEF DeliveryHolds
  <2>11. \A d \in Delivery \ {c} : DeliveryHolds(d)'
    BY <1>1, <2>1, <2>2, <2>3, OthersHold
  <2>12. QED
    BY <2>6, <2>7, <2>8, <2>9, <2>10, <2>11 DEF IngestInv
<1>5. QED
  BY <1>3, <1>4

LEMMA IngestReadsBack ==
  ASSUME IngestInv, NEW c \in Delivery, ReadBack(c)
  PROVE  IngestInv'
<1>1. pc[c] = "verify" /\ pc[c] \in WorkingPoint /\ UNCHANGED <<file, record, result, outcome, handoff>>
  BY DEF ReadBack, WorkingPoint
<1>2. result[c] \in HandedCandidate /\ record[result[c].engine] = result[c].frame
  BY <1>1 DEF IngestInv, DeliveryHolds
<1>3. CASE AnswerDelivery(c, "invalid")
  BY <1>1, <1>3, IngestEnds
<1>4. CASE AnswerDelivery(c, "persisted")
  <2>1. /\ pc' \in [Delivery -> Point] /\ pc'[c] = "done"
        /\ told' \in [Delivery -> {"none", "defect", "conflict", "persisted", "invalid"}]
        /\ \A d \in Delivery \ {c} : pc'[d] = pc[d] /\ told'[d] = told[d]
    BY <1>4 DEF AnswerDelivery, IngestInv, IngestTyped, Point
  <2>2. DeliveryHolds(c)'
    BY <1>1, <1>2, <2>1 DEF DeliveryHolds, WorkingPoint, Beyond, FileKind
  <2>3. QED
    BY <1>1, <2>1, <2>2, IngestUndisturbed DEF IngestInv, IngestTyped
<1>5. QED
  BY <1>3, <1>4 DEF ReadBack

LEMMA IngestDies ==
  ASSUME IngestInv, NEW c \in Delivery, Die(c)
  PROVE  IngestInv'
<1>1. /\ pc' \in [Delivery -> Point] /\ pc'[c] = "dead" /\ told[c] # "persisted"
      /\ \A d \in Delivery \ {c} : pc'[d] = pc[d]
  BY DEF Die, IngestInv, IngestTyped, Point, DeliveryHolds, WorkingPoint
<1>2. DeliveryHolds(c)'
  BY <1>1 DEF Die, DeliveryHolds, WorkingPoint, Beyond, FileKind
<1>3. QED
  BY <1>1, <1>2, IngestUndisturbed DEF Die, IngestInv, IngestTyped

LEMMA IngestReports ==
  ASSUME IngestInv, NEW e \in Requested, Report(e)
  PROVE  IngestInv'
<1>1. outcome[e] = NoReport /\ UNCHANGED <<file, record, pc, result, told, handoff>>
  BY DEF Report
<1>2. \E r \in Reported :
        /\ outcome' = [outcome EXCEPT ![e] = r]
        /\ r.status = "success" => record[e] = r.frame
  <2>1. ASSUME NEW c \in Delivery, told[c] = "persisted", result[c].engine = e,
               outcome' = [outcome EXCEPT ![e] = [status |-> "success", frame |-> result[c].frame]]
        PROVE  \E r \in Reported :
                 /\ outcome' = [outcome EXCEPT ![e] = r]
                 /\ r.status = "success" => record[e] = r.frame
    <3>1. result[c].frame \in Frame /\ record[e] = result[c].frame
      BY <2>1 DEF IngestInv, DeliveryHolds, HandedCandidate
    <3>2. [status |-> "success", frame |-> result[c].frame] \in Reported
      BY <3>1 DEF Reported
    <3>3. QED
      BY <2>1, <3>1, <3>2
  <2>2. [status |-> "failed", frame |-> NoFrame] \in Reported
    BY DEF Reported
  <2>3. QED
    BY <2>1, <2>2 DEF Report
<1>3. PICK r \in Reported : /\ outcome' = [outcome EXCEPT ![e] = r]
                            /\ r.status = "success" => record[e] = r.frame
  BY <1>2
<1>4. handoff.status = "none"
  BY <1>1 DEF IngestInv, HandoffMade
<1>5. IngestTyped' /\ ReportsRecorded'
  BY <1>1, <1>3 DEF IngestInv, IngestTyped, ReportsRecorded
<1>6. RecordsWhole' /\ HandoffMade'
  BY <1>1, <1>4 DEF IngestInv, RecordsWhole, HandoffMade, HandoffIsReported
<1>7. \A c \in Delivery : DeliveryHolds(c)'
  BY <1>1 DEF IngestInv, DeliveryHolds
<1>8. QED
  BY <1>5, <1>6, <1>7 DEF IngestInv

\* As many frames are handed over as engines succeeded.
LEMMA OneFramePerEngine ==
  ASSUME NEW frames, frames = {<<e, record[e]>> : e \in Succeeded}, ComparisonEligible
  PROVE  Cardinality(frames) >= 2
<1> DEFINE g == [e \in Succeeded |-> <<e, record[e]>>]
<1>1. IsFiniteSet(Succeeded) /\ Cardinality(Succeeded) \in Nat
  BY RequestedAssumption, FS_Subset, FS_CardinalityType DEF Succeeded
<1>2. g \in Surjection(Succeeded, frames)
  BY DEF Surjection
<1>3. g \in Injection(Succeeded, frames)
  BY DEF Injection, IsInjective
<1>4. Cardinality(frames) = Cardinality(Succeeded)
  BY <1>1, <1>2, <1>3, FS_Surjection
<1>5. QED
  BY <1>1, <1>4 DEF ComparisonEligible

LEMMA IngestHandsOver ==
  ASSUME IngestInv, HandOver
  PROVE  IngestInv'
<1>1. /\ UNCHANGED <<file, record, pc, result, told, outcome>>
      /\ \A e \in Requested : outcome[e] # NoReport
  BY DEF HandOver
<1>2. ASSUME NEW e \in Succeeded
      PROVE  Loads(e) /\ record[e] = outcome[e].frame
  BY FramesAreWhole DEF Succeeded, Loads, IngestInv, IngestTyped, Reported, ReportsRecorded, RecordsWhole
<1>3. LifecycleBuilds /\ ~\E e \in Succeeded : ~Loads(e)
  BY <1>2 DEF LifecycleBuilds
<1>4. \/ handoff'.status \in {"insufficient_candidates", "musicxml_oversized"}
      \/ /\ ComparisonEligible
         /\ handoff' = [status |-> "handed_over", frames |-> {<<e, record[e]>> : e \in Succeeded}]
  BY <1>3 DEF HandOver
<1>5. Succeeded' = Succeeded
  BY <1>1 DEF Succeeded
<1>6. HandoffIsReported'
  <2>1. CASE handoff'.status \in {"insufficient_candidates", "musicxml_oversized"}
    BY <2>1 DEF HandoffIsReported
  <2>2. CASE /\ ComparisonEligible
             /\ handoff' = [status |-> "handed_over", frames |-> {<<e, record[e]>> : e \in Succeeded}]
    <3>1. Cardinality(handoff'.frames) >= 2
      BY <2>2, OneFramePerEngine
    <3>2. handoff'.frames = {<<e, outcome'[e].frame>> : e \in Succeeded'}
      BY <1>1, <1>2, <1>5, <2>2
    <3>3. QED
      BY <2>2, <3>1, <3>2 DEF HandoffIsReported
  <2>3. QED
    BY <1>4, <2>1, <2>2
<1>7. IngestTyped' /\ RecordsWhole' /\ ReportsRecorded' /\ HandoffMade'
  BY <1>1, <1>6 DEF IngestInv, IngestTyped, RecordsWhole, ReportsRecorded, HandoffMade
<1>8. \A c \in Delivery : DeliveryHolds(c)'
  BY <1>1 DEF IngestInv, DeliveryHolds
<1>9. QED
  BY <1>7, <1>8 DEF IngestInv

LEMMA IngestStepKeeps == IngestInv /\ [IngestNext]_ingestionVars => IngestInv'
<1> SUFFICES ASSUME IngestInv, [IngestNext]_ingestionVars
             PROVE  IngestInv'
  OBVIOUS
<1>1. CASE UNCHANGED ingestionVars
  BY <1>1 DEF ingestionVars, IngestInv, IngestTyped, RecordsWhole, ReportsRecorded, HandoffMade,
              HandoffIsReported, Succeeded, DeliveryHolds
<1>2. ASSUME NEW c \in Delivery, StoreFails(c)
      PROVE  IngestInv'
  BY <1>2, IngestEnds DEF StoreFails
<1>3. QED
  BY <1>1, <1>2, IngestIngests, IngestPersistsFile, IngestPersistsRecord, IngestReadsBack, IngestDies,
     IngestReports, IngestHandsOver DEF IngestNext

LEMMA IngestInvHolds == IngestSpec => []IngestInv
<1>1. QED
  BY IngestInitially, IngestStepKeeps, PTL DEF IngestSpec

\* However many deliveries write at once and wherever they die, the artifacts
\* beside a record are all of the one result it seals, and every delivery told
\* "persisted" was told of that result.
THEOREM RecordsAreWhole == IngestSpec => []OneResultPerRun
<1>1. IngestInv => OneResultPerRun
  BY DEF IngestInv, RecordsWhole, DeliveryHolds, OneResultPerRun
<1>2. QED
  BY <1>1, IngestInvHolds, PTL

\* What is handed over is what was reported, of at least two engines, and no
\* reported success is refused by its own record: for any number of engines.
THEOREM HandsOverReports == IngestSpec => []HandoffIsReported
<1>1. IngestInv => HandoffIsReported
  BY DEF IngestInv, HandoffMade
<1>2. QED
  BY <1>1, IngestInvHolds, PTL

LEMMA IngestReplacesNothing ==
  ASSUME IngestInv, [IngestNext]_ingestionVars, NEW e \in Requested
  PROVE  /\ \A k \in FileKind : file[e][k] # NoFile => file'[e][k] = file[e][k]
         /\ record[e] # NoFrame => record'[e] = record[e]
<1>1. ASSUME NEW c \in Delivery, NEW k \in FileKind, PersistFile(c, k)
      PROVE  /\ record' = record
             /\ \A x \in FileKind : file[e][x] # NoFile => file'[e][x] = file[e][x]
  BY <1>1 DEF PersistFile, IngestInv, IngestTyped
<1>2. ASSUME NEW c \in Delivery, PersistRecord(c)
      PROVE  file' = file /\ (record[e] # NoFrame => record'[e] = record[e])
  BY <1>2 DEF PersistRecord, IngestInv, IngestTyped
<1>3. ASSUME NEW c \in Delivery, Ingest(c) \/ ReadBack(c) \/ StoreFails(c) \/ Die(c)
      PROVE  file' = file /\ record' = record
  BY <1>3 DEF Ingest, ReadBack, StoreFails, Die
<1>4. ASSUME NEW d \in Requested, Report(d)
      PROVE  file' = file /\ record' = record
  BY <1>4 DEF Report
<1>5. CASE HandOver \/ UNCHANGED ingestionVars
  BY <1>5 DEF HandOver, ingestionVars
<1>6. QED
  BY <1>1, <1>2, <1>3, <1>4, <1>5 DEF IngestNext

\* No delivery replaces an artifact or a record that is there.
THEOREM StoredResultsStay == IngestSpec => NothingIsReplaced
<1>1. IngestInv /\ [IngestNext]_ingestionVars =>
        [\A e \in Requested :
           /\ \A k \in FileKind : file[e][k] # NoFile => file'[e][k] = file[e][k]
           /\ record[e] # NoFrame => record'[e] = record[e]]_ingestionVars
  BY IngestReplacesNothing
<1>2. QED
  BY <1>1, IngestInvHolds, PTL DEF IngestSpec, NothingIsReplaced

-----------------------------------------------------------------------------
(* The call of an engine.                                                  *)

RunningStep == {"running", "terminating", "killed", "timedOut"}
OutputStep  == {"validating", "verifying", "reading", "done"}

RuntimeTyped ==
  /\ adapter \in Adapter
  /\ step \in {"probing", "starting", "failed"} \union RunningStep \union OutputStep
  /\ proc \in [Process -> [alive : BOOLEAN, inGroup : BOOLEAN, open : BOOLEAN, stubborn : BOOLEAN]]
  /\ out \in [Output -> Content]
  /\ evidence \in [Output -> Content] /\ read \in [Output -> Content]
  /\ todo \subseteq Output

\* Whoever cannot be heard any more is known to have closed its output.
SilentAreLoose == \A p \in Process : Alive(p) /\ ~proc[p].open => p \in loose

\* After the time limit, the session lives on only where somebody ignored the
\* termination; and when the call is over, nobody holds its output.
SessionEnded ==
  adapter = "audiveris" =>
    /\ step \in {"terminating", "killed", "timedOut"} =>
         \A p \in Process : Alive(p) /\ proc[p].inGroup => \E q \in Process : proc[q].stubborn
    /\ step = "timedOut" =>
         ~Alive("command") /\ \A p \in Process : Alive(p) => ~proc[p].open

Evident == {f \in Output : evidence[f] # "none"}

\* The outputs are those of a tree that has ended, when nobody closed its
\* output before, so what was accepted is what is there.
EvidenceHolds ==
  /\ \A f \in Evident : Accepted(evidence[f])
  /\ step \notin OutputStep \union {"failed"} => Evident = {}
  /\ step \in OutputStep /\ loose = {} =>
       /\ \A p \in Process : ~Alive(p)
       /\ \A f \in Evident : evidence[f] = out[f]

\* What was read is what was accepted, but for what has yet to be read.
ReadSoFar ==
  /\ step \notin {"reading", "done", "failed"} => \A f \in Output : read[f] = "none"
  /\ step \in {"reading", "done"} => todo \subseteq Evident /\ Evident # {}
  /\ step = "done" => todo = {}
  /\ step \in {"reading", "done"} /\ loose = {} =>
       \A f \in Output : read[f] = IF f \in Evident \ todo THEN evidence[f] ELSE "none"

RuntimeInv == RuntimeTyped /\ SilentAreLoose /\ SessionEnded /\ EvidenceHolds /\ ReadSoFar

-----------------------------------------------------------------------------

LEMMA RuntimeInitially == RuntimeInit => RuntimeInv
<1> SUFFICES ASSUME RuntimeInit
             PROVE  RuntimeInv
  OBVIOUS
<1>1. RuntimeTyped
  BY DEF RuntimeInit, RuntimeTyped, NoProcess, Content
<1>2. \A p \in Process : ~Alive(p)
  BY DEF RuntimeInit, NoProcess, Alive
<1>3. SilentAreLoose /\ SessionEnded
  BY <1>2 DEF RuntimeInit, SilentAreLoose, SessionEnded
<1>4. EvidenceHolds /\ ReadSoFar
  BY DEF RuntimeInit, EvidenceHolds, ReadSoFar, Evident, OutputStep
<1>5. QED
  BY <1>1, <1>3, <1>4 DEF RuntimeInv

-----------------------------------------------------------------------------
(* The processes of the command. *)

\* A step of a process changes nothing of the call's; while the outputs are
\* looked at, a process runs only if one has closed its output.
LEMMA EngineUndisturbed ==
  ASSUME RuntimeInv, NEW p \in Process, Alive(p), UNCHANGED <<adapter, step, outputs>>,
         loose \subseteq loose', RuntimeTyped', SilentAreLoose', SessionEnded'
  PROVE  RuntimeInv'
<1>1. UNCHANGED <<todo, evidence, read, Evident>> /\ \A x : Accepted(x)' = Accepted(x)
  BY DEF outputs, Evident, Accepted, AudiverisAccepts, HomrAccepts, ClarityAccepts
<1>2. ~(step \in OutputStep /\ loose' = {})
  BY DEF RuntimeInv, EvidenceHolds
<1>3. EvidenceHolds'
  BY <1>1, <1>2 DEF RuntimeInv, EvidenceHolds
<1>4. ReadSoFar'
  BY <1>1, <1>2 DEF RuntimeInv, ReadSoFar, OutputStep
<1>5. QED
  BY <1>3, <1>4 DEF RuntimeInv

LEMMA RuntimeSpawns ==
  ASSUME RuntimeInv, Spawn
  PROVE  RuntimeInv'
<1>1. PICK p \in Process, c \in Child, b \in BOOLEAN :
        /\ Alive(p) /\ proc[c] = NoProcess
        /\ proc' = [proc EXCEPT ![c] = [Started(b) EXCEPT !.inGroup = proc[p].inGroup,
                                                          !.open = proc[p].open]]
        /\ loose' = IF proc[p].open THEN loose ELSE loose \union {c}
  BY DEF Spawn
<1> DEFINE r == [Started(b) EXCEPT !.inGroup = proc[p].inGroup, !.open = proc[p].open]
           R == [alive : BOOLEAN, inGroup : BOOLEAN, open : BOOLEAN, stubborn : BOOLEAN]
<1>2. /\ proc \in [Process -> R] /\ c \in Process /\ c # "command" /\ ~proc[c].stubborn
      /\ UNCHANGED <<adapter, step, out, outputs>>
  BY <1>1, ChildAssumption DEF RuntimeInv, RuntimeTyped, Process, NoProcess, Spawn
<1>3. r \in R /\ r.alive /\ r.inGroup = proc[p].inGroup /\ r.open = proc[p].open
  <2>1. proc[p].inGroup \in BOOLEAN /\ proc[p].open \in BOOLEAN
    BY <1>2
  <2>2. r.alive /\ r.inGroup = proc[p].inGroup /\ r.open = proc[p].open
    BY DEF Started
  <2>3. r \in R
    BY <2>1 DEF Started
  <2>4. QED
    BY <2>2, <2>3
<1>4. proc' = [proc EXCEPT ![c] = r]
  BY <1>1
<1> HIDE DEF r
<1>5. proc' \in [Process -> R] /\ proc'[c] = r /\ \A q \in Process \ {c} : proc'[q] = proc[q]
  BY <1>2, <1>3, <1>4
<1>6. loose \subseteq loose' /\ (~proc[p].open => c \in loose')
  BY <1>1
<1>7. RuntimeTyped'
  BY <1>2, <1>5 DEF RuntimeInv, RuntimeTyped, outputs
<1>8. SilentAreLoose'
  BY <1>3, <1>5, <1>6 DEF RuntimeInv, SilentAreLoose, Alive
<1>9. SessionEnded'
  <2>1. SUFFICES ASSUME adapter = "audiveris"
                 PROVE  /\ step \in {"terminating", "killed", "timedOut"} =>
                             \A q \in Process : Alive(q)' /\ proc'[q].inGroup =>
                               \E s \in Process : proc'[s].stubborn
                        /\ step = "timedOut" =>
                             ~Alive("command")' /\ \A q \in Process : Alive(q)' => ~proc'[q].open
    BY <1>2 DEF SessionEnded
  <2>2. \A s \in Process : proc[s].stubborn => proc'[s].stubborn
    BY <1>2, <1>5
  <2>3. ASSUME step \in {"terminating", "killed", "timedOut"}, NEW q \in Process, Alive(q)',
               proc'[q].inGroup
        PROVE  \E s \in Process : proc'[s].stubborn
    <3>1. CASE q = c
      BY <1>1, <1>3, <1>5, <2>1, <2>2, <2>3, <3>1 DEF RuntimeInv, SessionEnded
    <3>2. CASE q # c
      BY <1>5, <2>1, <2>2, <2>3, <3>2 DEF RuntimeInv, SessionEnded, Alive
    <3>3. QED
      BY <3>1, <3>2
  <2>4. ASSUME step = "timedOut"
        PROVE  ~Alive("command")' /\ \A q \in Process : Alive(q)' => ~proc'[q].open
    <3>1. ~Alive("command") /\ \A q \in Process : Alive(q) => ~proc[q].open
      BY <2>1, <2>4 DEF RuntimeInv, SessionEnded
    <3>2. QED
      BY <1>1, <1>2, <1>3, <1>5, <3>1 DEF Alive, Process
  <2>5. QED
    BY <2>3, <2>4
<1>10. QED
  BY <1>1, <1>2, <1>6, <1>7, <1>8, <1>9, EngineUndisturbed

\* A process that goes on, gives something up, or ends.
LEMMA ProcessGivesUp ==
  ASSUME RuntimeInv, NEW p \in Process, Alive(p), UNCHANGED <<adapter, step, outputs>>,
         RuntimeTyped', loose \subseteq loose',
         \A q \in Process :
           /\ Alive(q)' => Alive(q)
           /\ proc'[q].inGroup => proc[q].inGroup
           /\ proc'[q].open => proc[q].open
           /\ proc[q].stubborn => proc'[q].stubborn
           /\ proc[q].open /\ ~proc'[q].open => q \in loose'
  PROVE  RuntimeInv'
<1>1. SilentAreLoose'
  BY DEF RuntimeInv, SilentAreLoose
<1>2. SessionEnded'
  BY DEF RuntimeInv, SessionEnded, Process
<1>3. QED
  BY <1>1, <1>2, EngineUndisturbed

LEMMA RuntimeCloses ==
  ASSUME RuntimeInv, NEW p \in Process, CloseOutput(p)
  PROVE  RuntimeInv'
<1> DEFINE R == [alive : BOOLEAN, inGroup : BOOLEAN, open : BOOLEAN, stubborn : BOOLEAN]
<1>1. /\ Alive(p) /\ proc' = [proc EXCEPT ![p] = [proc[p] EXCEPT !.open = FALSE]]
      /\ loose' = loose \union {p} /\ UNCHANGED <<adapter, step, out, outputs>>
      /\ proc \in [Process -> R]
  BY DEF CloseOutput, RuntimeInv, RuntimeTyped
<1>2. proc' \in [Process -> R] /\ \A q \in Process \ {p} : proc'[q] = proc[q]
  BY <1>1
<1>3. /\ proc'[p].alive = proc[p].alive /\ proc'[p].inGroup = proc[p].inGroup
      /\ proc'[p].open = FALSE /\ proc'[p].stubborn = proc[p].stubborn
  BY <1>1
<1>4. RuntimeTyped'
  BY <1>1, <1>2 DEF RuntimeInv, RuntimeTyped, outputs
<1>5. QED
  BY <1>1, <1>2, <1>3, <1>4, ProcessGivesUp DEF Alive

LEMMA RuntimeLeaves ==
  ASSUME RuntimeInv, NEW p \in Process, LeaveSession(p)
  PROVE  RuntimeInv'
<1> DEFINE R == [alive : BOOLEAN, inGroup : BOOLEAN, open : BOOLEAN, stubborn : BOOLEAN]
<1>1. /\ Alive(p) /\ proc' = [proc EXCEPT ![p] = [proc[p] EXCEPT !.inGroup = FALSE]]
      /\ UNCHANGED <<adapter, step, out, outputs, loose>>
      /\ proc \in [Process -> R]
  BY DEF LeaveSession, RuntimeInv, RuntimeTyped
<1>2. proc' \in [Process -> R] /\ \A q \in Process \ {p} : proc'[q] = proc[q]
  BY <1>1
<1>3. /\ proc'[p].alive = proc[p].alive /\ proc'[p].inGroup = FALSE
      /\ proc'[p].open = proc[p].open /\ proc'[p].stubborn = proc[p].stubborn
  BY <1>1
<1>4. RuntimeTyped'
  BY <1>1, <1>2 DEF RuntimeInv, RuntimeTyped, outputs
<1>5. QED
  BY <1>1, <1>2, <1>3, <1>4, ProcessGivesUp DEF Alive

LEMMA RuntimeWrites ==
  ASSUME RuntimeInv, NEW p \in Process, WriteOutput(p)
  PROVE  RuntimeInv'
<1>1. Alive(p) /\ UNCHANGED <<adapter, step, proc, outputs, loose>>
  BY DEF WriteOutput
<1>2. RuntimeTyped'
  BY DEF WriteOutput, RuntimeInv, RuntimeTyped, outputs
<1>3. QED
  BY <1>1, <1>2, ProcessGivesUp DEF Alive

\* Who is killed has ended; nothing else changes of any process.
LEMMA EndedOnlyEnds ==
  ASSUME RuntimeTyped, NEW dead, proc' = Ended(proc, dead)
  PROVE  /\ proc' \in [Process -> [alive : BOOLEAN, inGroup : BOOLEAN, open : BOOLEAN, stubborn : BOOLEAN]]
         /\ \A q \in Process : /\ Alive(q)' => Alive(q) /\ q \notin dead
                               /\ Alive(q) /\ q \notin dead => Alive(q)'
                               /\ proc'[q].inGroup = proc[q].inGroup
                               /\ proc'[q].open = proc[q].open
                               /\ proc'[q].stubborn = proc[q].stubborn
<1>1. ASSUME NEW q \in Process
      PROVE  /\ proc'[q] \in [alive : BOOLEAN, inGroup : BOOLEAN, open : BOOLEAN, stubborn : BOOLEAN]
             /\ proc'[q].alive => proc[q].alive /\ q \notin dead
             /\ proc[q].alive /\ q \notin dead => proc'[q].alive
             /\ proc'[q].inGroup = proc[q].inGroup
             /\ proc'[q].open = proc[q].open
             /\ proc'[q].stubborn = proc[q].stubborn
  <2>1. proc[q] \in [alive : BOOLEAN, inGroup : BOOLEAN, open : BOOLEAN, stubborn : BOOLEAN]
    BY DEF RuntimeTyped
  <2>2. CASE q \in dead
    <3>1. proc'[q] = [proc[q] EXCEPT !.alive = FALSE]
      BY <2>2 DEF Ended
    <3>2. QED
      BY <2>1, <2>2, <3>1
  <2>3. CASE q \notin dead
    BY <2>1, <2>3 DEF Ended
  <2>4. QED
    BY <2>2, <2>3
<1>2. proc' \in [Process -> [alive : BOOLEAN, inGroup : BOOLEAN, open : BOOLEAN, stubborn : BOOLEAN]]
  BY <1>1 DEF Ended
<1>3. QED
  BY <1>1, <1>2 DEF Alive

LEMMA RuntimeExits ==
  ASSUME RuntimeInv, NEW p \in Process, Exit(p)
  PROVE  RuntimeInv'
<1>1. Alive(p) /\ proc' = Ended(proc, {p}) /\ UNCHANGED <<adapter, step, out, outputs, loose>>
  BY DEF Exit
<1>2. RuntimeTyped'
  BY <1>1, EndedOnlyEnds DEF RuntimeInv, RuntimeTyped, outputs
<1>3. QED
  BY <1>1, <1>2, EndedOnlyEnds, ProcessGivesUp DEF RuntimeInv

-----------------------------------------------------------------------------
(* The call. *)

\* Before the outputs are looked at, nothing is accepted or read.
LEMMA BeforeOutputs ==
  ASSUME RuntimeInv, UNCHANGED <<adapter, evidence, read>>,
         step \notin OutputStep \union {"failed"}, step' \notin OutputStep
  PROVE  EvidenceHolds' /\ ReadSoFar'
<1>1. UNCHANGED Evident /\ \A x : Accepted(x)' = Accepted(x)
  BY DEF Evident, Accepted, AudiverisAccepts, HomrAccepts, ClarityAccepts
<1>2. EvidenceHolds'
  BY <1>1 DEF RuntimeInv, EvidenceHolds
<1>3. ReadSoFar'
  BY <1>1 DEF RuntimeInv, ReadSoFar, OutputStep
<1>4. QED
  BY <1>2, <1>3

LEMMA RuntimeStarts ==
  ASSUME RuntimeInv, Probe \/ StartCommand
  PROVE  RuntimeInv'
<1> DEFINE R == [alive : BOOLEAN, inGroup : BOOLEAN, open : BOOLEAN, stubborn : BOOLEAN]
<1>1. /\ UNCHANGED <<adapter, out, outputs, loose>>
      /\ step \in {"probing", "starting"} /\ step' \in {"starting", "failed", "running"}
  BY DEF Probe, StartCommand
<1>2. /\ proc' \in [Process -> R]
      /\ \A q \in Process : Alive(q)' /\ ~proc'[q].open => Alive(q) /\ ~proc[q].open
  <2>1. CASE UNCHANGED proc
    BY <2>1 DEF Alive, RuntimeInv, RuntimeTyped
  <2>2. ASSUME NEW b \in BOOLEAN, proc' = [proc EXCEPT !["command"] = Started(b)]
        PROVE  /\ proc' \in [Process -> R]
               /\ \A q \in Process : Alive(q)' /\ ~proc'[q].open => Alive(q) /\ ~proc[q].open
    <3>1. Started(b) \in R /\ Started(b).open
      BY DEF Started
    <3>2. QED
      BY <2>2, <3>1 DEF Alive, RuntimeInv, RuntimeTyped, Process
  <2>3. QED
    BY <2>1, <2>2 DEF Probe, StartCommand
<1>3. RuntimeTyped'
  BY <1>1, <1>2 DEF RuntimeInv, RuntimeTyped, outputs, RunningStep
<1>4. SilentAreLoose' /\ SessionEnded'
  BY <1>1, <1>2 DEF RuntimeInv, SilentAreLoose, SessionEnded
<1>5. EvidenceHolds' /\ ReadSoFar'
  BY <1>1, BeforeOutputs DEF OutputStep, outputs
<1>6. QED
  BY <1>3, <1>4, <1>5 DEF RuntimeInv

LEMMA RuntimeCompletes ==
  ASSUME RuntimeInv, Complete
  PROVE  RuntimeInv'
<1>1. /\ UNCHANGED <<adapter, proc, out, evidence, read, loose>> /\ step = "running"
      /\ Communicated
      /\ \/ step' = "failed" /\ todo' = todo
         \/ step' = "validating" /\ todo' = Collected
  BY DEF Complete
<1>2. RuntimeTyped'
  BY <1>1 DEF RuntimeInv, RuntimeTyped, Collected, Output, OutputStep
<1>3. SilentAreLoose' /\ SessionEnded'
  BY <1>1 DEF RuntimeInv, SilentAreLoose, SessionEnded, Alive
<1>4. EvidenceHolds'
  <2>1. Evident' = Evident /\ \A x : Accepted(x)' = Accepted(x)
    BY <1>1 DEF Evident, Accepted, AudiverisAccepts, HomrAccepts, ClarityAccepts
  <2>2. loose = {} => \A p \in Process : ~Alive(p)
    BY <1>1 DEF RuntimeInv, SilentAreLoose, Communicated
  <2>3. \A f \in Evident : evidence[f] = out[f]
    BY <1>1 DEF RuntimeInv, EvidenceHolds, OutputStep
  <2>4. QED
    BY <1>1, <2>1, <2>2, <2>3 DEF RuntimeInv, EvidenceHolds, OutputStep, Alive
<1>5. ReadSoFar'
  BY <1>1 DEF RuntimeInv, ReadSoFar
<1>6. QED
  BY <1>2, <1>3, <1>4, <1>5 DEF RuntimeInv

\* The call ends processes, after its time limit.
LEMMA RuntimeTimesOut ==
  ASSUME RuntimeInv, TimeOut \/ Terminated \/ Killed
  PROVE  RuntimeInv'
<1> DEFINE EndsIn(dead) ==
             /\ proc' = Ended(proc, dead) \/ (dead = {} /\ proc' = proc)
             /\ step = "running" /\ adapter = "audiveris" =>
                  /\ step' = "terminating"
                  /\ \A q \in Process : Alive(q) /\ proc[q].inGroup => q \in dead \/ proc[q].stubborn
             /\ step' = "timedOut" /\ adapter = "audiveris" => Communicated
<1>1. /\ UNCHANGED <<adapter, out, outputs, loose>>
      /\ step \in {"running", "terminating", "killed"}
      /\ step' \in {"terminating", "killed", "timedOut"}
  BY DEF TimeOut, Terminated, Killed
<1>2. \E dead \in SUBSET Process : EndsIn(dead)
  <2>1. CASE TimeOut /\ adapter = "audiveris"
    <3>1. EndsIn({p \in Group : ~proc[p].stubborn})
      BY <2>1 DEF TimeOut, Group
    <3>2. {p \in Group : ~proc[p].stubborn} \in SUBSET Process
      BY DEF Group
    <3>3. QED
      BY <3>1, <3>2
  <2>2. CASE TimeOut /\ adapter # "audiveris"
    <3>1. EndsIn({"command"})
      BY <2>2 DEF TimeOut
    <3>2. {"command"} \in SUBSET Process
      BY DEF Process
    <3>3. QED
      BY <3>1, <3>2
  <2>3. CASE Terminated /\ ~Communicated
    <3>1. EndsIn(Group)
      BY <2>3 DEF Terminated
    <3>2. Group \in SUBSET Process
      BY DEF Group
    <3>3. QED
      BY <3>1, <3>2
  <2>4. CASE (Terminated /\ Communicated) \/ Killed
    <3>1. EndsIn({})
      BY <2>4 DEF Terminated, Killed
    <3>2. QED
      BY <3>1
  <2>5. QED
    BY <2>1, <2>2, <2>3, <2>4
<1>3. PICK dead \in SUBSET Process : EndsIn(dead)
  BY <1>2
<1>4. /\ proc' \in [Process -> [alive : BOOLEAN, inGroup : BOOLEAN, open : BOOLEAN, stubborn : BOOLEAN]]
      /\ \A q \in Process : /\ Alive(q)' => Alive(q) /\ q \notin dead
                            /\ proc'[q].inGroup = proc[q].inGroup
                            /\ proc'[q].open = proc[q].open
                            /\ proc'[q].stubborn = proc[q].stubborn
  <2>1. CASE proc' = Ended(proc, dead)
    BY <2>1, EndedOnlyEnds DEF RuntimeInv
  <2>2. CASE dead = {} /\ proc' = proc
    BY <2>2 DEF RuntimeInv, RuntimeTyped, Alive
  <2>3. QED
    BY <1>3, <2>1, <2>2
<1>5. RuntimeTyped'
  BY <1>1, <1>4 DEF RuntimeInv, RuntimeTyped, outputs, RunningStep
<1>6. SilentAreLoose'
  BY <1>1, <1>4 DEF RuntimeInv, SilentAreLoose
<1>7. SessionEnded'
  <2>1. SUFFICES ASSUME adapter = "audiveris"
                 PROVE  /\ \A q \in Process : Alive(q)' /\ proc'[q].inGroup =>
                             \E s \in Process : proc'[s].stubborn
                        /\ step' = "timedOut" =>
                             ~Alive("command")' /\ \A q \in Process : Alive(q)' => ~proc'[q].open
    BY <1>1 DEF SessionEnded
  <2>2. ASSUME NEW q \in Process, Alive(q)', proc'[q].inGroup
        PROVE  \E s \in Process : proc[s].stubborn
    BY <1>1, <1>3, <1>4, <2>1, <2>2 DEF RuntimeInv, SessionEnded
  <2>3. \A s \in Process : proc[s].stubborn => proc'[s].stubborn
    BY <1>4
  <2>4. ASSUME step' = "timedOut"
        PROVE  ~Alive("command")' /\ \A q \in Process : Alive(q)' => ~proc'[q].open
    BY <1>3, <1>4, <2>1, <2>4 DEF Communicated, Process
  <2>5. QED
    BY <2>2, <2>3, <2>4
<1>8. EvidenceHolds' /\ ReadSoFar'
  BY <1>1, BeforeOutputs DEF OutputStep, outputs
<1>9. QED
  BY <1>5, <1>6, <1>7, <1>8 DEF RuntimeInv

-----------------------------------------------------------------------------
(* The outputs. *)

LEMMA RuntimeValidates ==
  ASSUME RuntimeInv, Validate
  PROVE  RuntimeInv'
<1>1. /\ UNCHANGED <<adapter, proc, out, read, loose>> /\ step = "validating"
      /\ step' \in {"verifying", "failed"} /\ todo' = todo
      /\ \/ evidence' = evidence
         \/ \E f \in Output : Accepted(out[f]) /\ evidence' = [evidence EXCEPT ![f] = out[f]]
  BY DEF Validate, RuntimeInv, RuntimeTyped
<1>2. RuntimeTyped'
  BY <1>1 DEF RuntimeInv, RuntimeTyped, OutputStep
<1>3. SilentAreLoose' /\ SessionEnded'
  BY <1>1 DEF RuntimeInv, SilentAreLoose, SessionEnded, Alive
<1>4. \A x : Accepted(x)' = Accepted(x)
  BY <1>1 DEF Accepted, AudiverisAccepts, HomrAccepts, ClarityAccepts
<1>5. \A f \in Output : evidence'[f] # "none" =>
        \/ evidence'[f] = evidence[f]
        \/ evidence'[f] = out[f] /\ Accepted(out[f])
  BY <1>1 DEF RuntimeInv, RuntimeTyped
<1>6. EvidenceHolds'
  BY <1>1, <1>4, <1>5 DEF RuntimeInv, EvidenceHolds, Evident, OutputStep, Alive
<1>7. ReadSoFar'
  BY <1>1 DEF RuntimeInv, ReadSoFar
<1>8. QED
  BY <1>2, <1>3, <1>6, <1>7 DEF RuntimeInv

LEMMA RuntimeVerifies ==
  ASSUME RuntimeInv, Verify
  PROVE  RuntimeInv'
<1>1. UNCHANGED <<adapter, proc, out, evidence, read, loose>> /\ step = "verifying"
  BY DEF Verify
<1>2. Evident' = Evident /\ \A x : Accepted(x)' = Accepted(x)
  BY <1>1 DEF Evident, Accepted, AudiverisAccepts, HomrAccepts, ClarityAccepts
<1>3. /\ todo' \subseteq Output
      /\ \/ step' \in {"failed", "validating"}
         \/ step' = "reading" /\ todo' = Evident /\ Evident # {}
  <2>1. PICK f \in Pending :
          IF out[f] # evidence[f] THEN step' = "failed" /\ UNCHANGED todo
          ELSE /\ step' = HandedOff(todo \ {f})
               /\ todo' = IF todo = {f} THEN Evident ELSE todo \ {f}
    BY DEF Verify, Evident
  <2>2. f \in Evident /\ f \in todo /\ todo \subseteq Output /\ Evident \subseteq Output
    BY DEF Pending, Evident, RuntimeInv, RuntimeTyped
  <2>3. CASE todo = {f}
    BY <2>1, <2>2, <2>3 DEF HandedOff
  <2>4. CASE todo # {f}
    BY <2>1, <2>2, <2>4 DEF HandedOff
  <2>5. QED
    BY <2>3, <2>4
<1>4. RuntimeTyped'
  BY <1>1, <1>3 DEF RuntimeInv, RuntimeTyped, OutputStep
<1>5. SilentAreLoose' /\ SessionEnded'
  BY <1>1, <1>3 DEF RuntimeInv, SilentAreLoose, SessionEnded, Alive
<1>6. EvidenceHolds'
  BY <1>1, <1>2, <1>3 DEF RuntimeInv, EvidenceHolds, OutputStep, Alive
<1>7. ReadSoFar'
  BY <1>1, <1>2, <1>3 DEF RuntimeInv, ReadSoFar
<1>8. QED
  BY <1>4, <1>5, <1>6, <1>7 DEF RuntimeInv

LEMMA RuntimeReads ==
  ASSUME RuntimeInv, ReadOutput
  PROVE  RuntimeInv'
<1>1. /\ UNCHANGED <<adapter, proc, out, evidence, loose>> /\ step = "reading"
      /\ todo \subseteq Evident /\ Evident # {} /\ Evident \subseteq Output
  BY DEF ReadOutput, RuntimeInv, ReadSoFar, Evident
<1>2. Evident' = Evident /\ \A x : Accepted(x)' = Accepted(x)
  BY <1>1 DEF Evident, Accepted, AudiverisAccepts, HomrAccepts, ClarityAccepts
<1>3. \/ step' = "failed" /\ UNCHANGED <<read, todo>>
      \/ \E f \in todo : /\ read' = [read EXCEPT ![f] = out[f]]
                         /\ todo' = todo \ {f}
                         /\ step' = IF todo = {f} THEN "done" ELSE "reading"
  BY DEF ReadOutput
<1>4. RuntimeTyped'
  BY <1>1, <1>3 DEF RuntimeInv, RuntimeTyped, OutputStep
<1>5. SilentAreLoose' /\ SessionEnded'
  BY <1>1, <1>3 DEF RuntimeInv, SilentAreLoose, SessionEnded, Alive
<1>6. EvidenceHolds'
  BY <1>1, <1>2, <1>3 DEF RuntimeInv, EvidenceHolds, OutputStep, Alive
<1>7. ReadSoFar'
  <2>1. CASE step' = "failed"
    BY <2>1 DEF ReadSoFar
  <2>2. ASSUME NEW f \in todo, read' = [read EXCEPT ![f] = out[f]], todo' = todo \ {f},
               step' = IF todo = {f} THEN "done" ELSE "reading"
        PROVE  ReadSoFar'
    <3>1. /\ step' \in {"reading", "done"} /\ todo' \subseteq Evident
          /\ step' = "done" => todo' = {}
      BY <1>1, <2>2
    <3>2. ASSUME loose = {}, NEW g \in Output
          PROVE  read'[g] = IF g \in Evident \ todo' THEN evidence[g] ELSE "none"
      <4>1. /\ evidence[f] = out[f] /\ f \in Evident
            /\ read[g] = IF g \in Evident \ todo THEN evidence[g] ELSE "none"
        BY <1>1, <2>2, <3>2 DEF RuntimeInv, EvidenceHolds, ReadSoFar, OutputStep
      <4>2. CASE g = f
        BY <2>2, <4>1, <4>2 DEF RuntimeInv, RuntimeTyped
      <4>3. CASE g # f
        BY <2>2, <4>1, <4>3 DEF RuntimeInv, RuntimeTyped
      <4>4. QED
        BY <4>2, <4>3
    <3>3. QED
      BY <1>1, <1>2, <3>1, <3>2 DEF ReadSoFar
  <2>3. QED
    BY <1>3, <2>1, <2>2
<1>8. QED
  BY <1>4, <1>5, <1>6, <1>7 DEF RuntimeInv

LEMMA RuntimeStepKeeps == RuntimeInv /\ [RuntimeNext]_runtimeVars => RuntimeInv'
<1> SUFFICES ASSUME RuntimeInv, [RuntimeNext]_runtimeVars
             PROVE  RuntimeInv'
  OBVIOUS
<1>1. CASE UNCHANGED runtimeVars
  BY <1>1 DEF runtimeVars, RuntimeInv, RuntimeTyped, SilentAreLoose, SessionEnded, EvidenceHolds,
              ReadSoFar, Evident, Alive, Accepted, AudiverisAccepts, HomrAccepts, ClarityAccepts
<1>2. CASE EngineStep
  BY <1>2, RuntimeSpawns, RuntimeCloses, RuntimeLeaves, RuntimeWrites, RuntimeExits DEF EngineStep
<1>3. CASE ServiceStep
  BY <1>3, RuntimeStarts, RuntimeCompletes, RuntimeTimesOut, RuntimeValidates, RuntimeVerifies,
     RuntimeReads DEF ServiceStep
<1>4. QED
  BY <1>1, <1>2, <1>3 DEF RuntimeNext

LEMMA RuntimeInvHolds == RuntimeSpec => []RuntimeInv
<1>1. QED
  BY RuntimeInitially, RuntimeStepKeeps, PTL DEF RuntimeSpec

\* When an Audiveris call has timed out, its command has ended, and a process
\* that still runs in the session closed its output where one of the tree
\* ignored the termination: for any number of descendants.
THEOREM TimeOutEndsTree == RuntimeSpec => []TimedOutTreeIsDead
<1>1. RuntimeInv => TimedOutTreeIsDead
  BY DEF RuntimeInv, SilentAreLoose, SessionEnded, TimedOutTreeIsDead
<1>2. QED
  BY <1>1, RuntimeInvHolds, PTL

\* A result names the very contents the validator accepted, though they are
\* read later, unless a process closed its output and ran on: for any outputs.
THEOREM ResultsAreValidated == RuntimeSpec => []ResultWasValidated
<1>1. ASSUME RuntimeInv, step = "done", loose = {}
      PROVE  /\ read = evidence
             /\ \E f \in Output : read[f] # "none"
             /\ \A f \in Output : read[f] # "none" => Accepted(read[f])
  <2>1. \A f \in Output : read[f] = evidence[f]
    BY <1>1 DEF RuntimeInv, ReadSoFar, Evident
  <2>2. read = evidence
    BY <1>1, <2>1 DEF RuntimeInv, RuntimeTyped
  <2>3. Evident # {} /\ \A f \in Evident : Accepted(evidence[f])
    BY <1>1 DEF RuntimeInv, ReadSoFar, EvidenceHolds
  <2>4. QED
    BY <2>2, <2>3 DEF Evident
<1>2. RuntimeInv => ResultWasValidated
  BY <1>1 DEF ResultWasValidated
<1>3. QED
  BY <1>2, RuntimeInvHolds, PTL

-----------------------------------------------------------------------------
(* The comparison of the candidates.                                       *)

\* What a sequence of records says at an ordinal, field by field.
SaidAt(items, i, fields) ==
  IF i \in DOMAIN items THEN {<<f, items[i][f]>> : f \in fields} ELSE {"nothing"}

\* Two records say the same exactly if their fields agree, and never nothing.
LEMMA SameFields ==
  ASSUME NEW fields, NEW r, NEW q
  PROVE  {<<f, r[f]>> : f \in fields} = {<<f, q[f]>> : f \in fields}
           <=> \A f \in fields : r[f] = q[f]
<1>1. ASSUME {<<f, r[f]>> : f \in fields} = {<<f, q[f]>> : f \in fields}, NEW f \in fields
      PROVE  r[f] = q[f]
  <2>1. <<f, r[f]>> \in {<<g, q[g]>> : g \in fields}
    BY <1>1
  <2>2. PICK g \in fields : <<f, r[f]>> = <<g, q[g]>>
    BY <2>1
  <2> QED BY <2>2
<1>2. ASSUME \A f \in fields : r[f] = q[f]
      PROVE  {<<f, r[f]>> : f \in fields} = {<<f, q[f]>> : f \in fields}
  BY <1>2
<1> QED BY <1>1, <1>2

LEMMA NeverNothing ==
  ASSUME NEW fields, NEW g \in fields, NEW h \in fields, g # h, NEW r
  PROVE  {<<f, r[f]>> : f \in fields} # {"nothing"}
<1>1. <<g, r[g]>> # <<h, r[h]>>
  OBVIOUS
<1>2. <<g, r[g]>> \in {<<f, r[f]>> : f \in fields} /\ <<h, r[h]>> \in {<<f, r[f]>> : f \in fields}
  OBVIOUS
<1> QED BY <1>1, <1>2

\* What is said differs where only one has the record, or where a field differs.
SaidTells(fields) ==
  \A s, t, i :
    /\ i \in DOMAIN s /\ i \in DOMAIN t =>
         (SaidAt(s, i, fields) # SaidAt(t, i, fields) <=> \E f \in fields : s[i][f] # t[i][f])
    /\ i \in DOMAIN s /\ i \notin DOMAIN t => SaidAt(s, i, fields) # SaidAt(t, i, fields)
    /\ i \notin DOMAIN s /\ i \in DOMAIN t => SaidAt(s, i, fields) # SaidAt(t, i, fields)
    /\ i \notin DOMAIN s /\ i \notin DOMAIN t => SaidAt(s, i, fields) = SaidAt(t, i, fields)

LEMMA SaidDiffers ==
  ASSUME NEW fields, NEW g \in fields, NEW h \in fields, g # h
  PROVE  SaidTells(fields)
<1> SUFFICES ASSUME NEW s, NEW t, NEW i
             PROVE  /\ i \in DOMAIN s /\ i \in DOMAIN t =>
                         (SaidAt(s, i, fields) # SaidAt(t, i, fields)
                            <=> \E f \in fields : s[i][f] # t[i][f])
                    /\ i \in DOMAIN s /\ i \notin DOMAIN t =>
                         SaidAt(s, i, fields) # SaidAt(t, i, fields)
                    /\ i \notin DOMAIN s /\ i \in DOMAIN t =>
                         SaidAt(s, i, fields) # SaidAt(t, i, fields)
                    /\ i \notin DOMAIN s /\ i \notin DOMAIN t =>
                         SaidAt(s, i, fields) = SaidAt(t, i, fields)
  BY DEF SaidTells
<1>1. ASSUME i \in DOMAIN s, i \in DOMAIN t
      PROVE  SaidAt(s, i, fields) # SaidAt(t, i, fields) <=> \E f \in fields : s[i][f] # t[i][f]
  BY <1>1, SameFields DEF SaidAt
<1>2. ASSUME i \in DOMAIN s, i \notin DOMAIN t PROVE SaidAt(s, i, fields) # SaidAt(t, i, fields)
  BY <1>2, NeverNothing DEF SaidAt
<1>3. ASSUME i \notin DOMAIN s, i \in DOMAIN t PROVE SaidAt(s, i, fields) # SaidAt(t, i, fields)
  BY <1>3, NeverNothing DEF SaidAt
<1>4. ASSUME i \notin DOMAIN s, i \notin DOMAIN t PROVE SaidAt(s, i, fields) = SaidAt(t, i, fields)
  BY <1>4 DEF SaidAt
<1> QED BY <1>1, <1>2, <1>3, <1>4

LEMMA FieldsTell == SaidTells(MeasureField) /\ SaidTells(EventField)
<1>1. SaidTells(MeasureField)
  <2>1. "number" \in MeasureField /\ "length" \in MeasureField /\ "number" # "length"
    BY DEF MeasureField
  <2> QED BY <2>1, SaidDiffers
<1>2. SaidTells(EventField)
  <2>1. "onset" \in EventField /\ "kind" \in EventField /\ "onset" # "kind"
    BY DEF EventField
  <2> QED BY <2>1, SaidDiffers
<1> QED BY <1>1, <1>2

LEMMA DifferingShows ==
  ASSUME NEW place, NEW field, NEW seen
  PROVE  /\ \A d \in Differing(place, field, seen) :
              /\ d.place = place /\ d.field = field
              /\ \E a, b \in DOMAIN seen : seen[a] # seen[b]
         /\ (\E a, b \in DOMAIN seen : seen[a] # seen[b]) =>
              \E d \in Differing(place, field, seen) : d.place = place /\ d.field = field
         /\ IsFiniteSet(Differing(place, field, seen))
<1>1. CASE \E a, b \in DOMAIN seen : seen[a] # seen[b]
  <2>1. Differing(place, field, seen) = {[place |-> place, field |-> field, seen |-> seen]}
    BY <1>1 DEF Differing
  <2>2. IsFiniteSet(Differing(place, field, seen))
    BY <2>1, FS_Singleton
  <2>3. \A d \in Differing(place, field, seen) : d.place = place /\ d.field = field
    BY <2>1
  <2>4. \E d \in Differing(place, field, seen) : d.place = place /\ d.field = field
    BY <2>1
  <2> QED BY <1>1, <2>2, <2>3, <2>4
<1>2. CASE ~ \E a, b \in DOMAIN seen : seen[a] # seen[b]
  <2>1. Differing(place, field, seen) = {}
    BY <1>2 DEF Differing
  <2> QED BY <1>2, <2>1, FS_EmptySet
<1> QED BY <1>1, <1>2

\* A place that some have and others have not is told by its presence.
LEMMA PresenceShows ==
  ASSUME NEW place, NEW items, NEW i
  PROVE  /\ \A d \in Presence(place, items, i) :
              /\ d.place = place /\ d.field = "presence"
              /\ \E a, b \in DOMAIN items : i \in DOMAIN items[a] /\ i \notin DOMAIN items[b]
         /\ i \in Ordinals(items) /\ ~ AllHave(items, i) =>
              \E d \in Presence(place, items, i) : d.place = place /\ d.field = "presence"
         /\ IsFiniteSet(Presence(place, items, i))
<1> DEFINE seen == [c \in DOMAIN items |-> i \in DOMAIN items[c]]
<1>1. Presence(place, items, i) = Differing(place, "presence", seen)
  BY DEF Presence
<1>2. DOMAIN seen = DOMAIN items /\ \A c \in DOMAIN items : seen[c] = (i \in DOMAIN items[c])
  OBVIOUS
<1>3. i \in Ordinals(items) /\ ~ AllHave(items, i) =>
        \E a, b \in DOMAIN seen : seen[a] # seen[b]
  <2> SUFFICES ASSUME i \in Ordinals(items), ~ AllHave(items, i)
               PROVE  \E a, b \in DOMAIN seen : seen[a] # seen[b]
    OBVIOUS
  <2>1. PICK a \in DOMAIN items : i \in DOMAIN items[a]
    BY DEF Ordinals
  <2>2. PICK b \in DOMAIN items : i \notin DOMAIN items[b]
    BY DEF AllHave
  <2>3. seen[a] # seen[b]
    BY <1>2, <2>1, <2>2
  <2> QED BY <1>2, <2>3
<1>4. ASSUME NEW a \in DOMAIN seen, NEW b \in DOMAIN seen, seen[a] # seen[b]
      PROVE  \E x, y \in DOMAIN items : i \in DOMAIN items[x] /\ i \notin DOMAIN items[y]
  BY <1>2, <1>4
<1> HIDE DEF seen
<1> QED BY <1>1, <1>3, <1>4, DifferingShows

\* The fields of a record at an ordinal, compared one by one.
Fields(place, items, i, fields) ==
  UNION {Differing(place, f, [c \in DOMAIN items |-> items[c][i][f]]) : f \in fields}

LEMMA FiniteUnion ==
  ASSUME NEW S, IsFiniteSet(S), NEW f, DOMAIN f = S, \A x \in S : IsFiniteSet(f[x])
  PROVE  IsFiniteSet(UNION {f[x] : x \in S})
<1> DEFINE T == {f[x] : x \in S}
           g == [x \in S |-> f[x]]
<1>1. g \in Surjection(S, T)
  BY DEF Surjection
<1>2. IsFiniteSet(T)
  <2> HIDE DEF g, T
  <2> QED BY <1>1, FS_Surjection
<1> QED BY <1>2, FS_UNION

LEMMA FieldsShow ==
  ASSUME NEW place, NEW items, NEW i, NEW fields, IsFiniteSet(fields)
  PROVE  /\ \A d \in Fields(place, items, i, fields) :
              /\ d.place = place /\ d.field \in fields
              /\ \E f \in fields, a, b \in DOMAIN items : items[a][i][f] # items[b][i][f]
         /\ (\E f \in fields, a, b \in DOMAIN items : items[a][i][f] # items[b][i][f]) =>
              \E d \in Fields(place, items, i, fields) : d.place = place
         /\ IsFiniteSet(Fields(place, items, i, fields))
<1> DEFINE seen(f) == [c \in DOMAIN items |-> items[c][i][f]]
           at == [f \in fields |-> Differing(place, f, seen(f))]
<1>1. \A f \in fields : /\ DOMAIN seen(f) = DOMAIN items
                        /\ \A c \in DOMAIN items : seen(f)[c] = items[c][i][f]
  OBVIOUS
<1>2. Fields(place, items, i, fields) = UNION {Differing(place, f, seen(f)) : f \in fields}
  BY DEF Fields
<1>3. \A f \in fields : at[f] = Differing(place, f, seen(f))
  OBVIOUS
<1> HIDE DEF seen
<1>4. ASSUME NEW d \in Fields(place, items, i, fields)
      PROVE  /\ d.place = place /\ d.field \in fields
             /\ \E f \in fields, a, b \in DOMAIN items : items[a][i][f] # items[b][i][f]
  <2>1. PICK f \in fields : d \in Differing(place, f, seen(f))
    BY <1>2
  <2> QED BY <1>1, <2>1, DifferingShows
<1>5. ASSUME NEW f \in fields, NEW a \in DOMAIN items, NEW b \in DOMAIN items,
             items[a][i][f] # items[b][i][f]
      PROVE  \E d \in Fields(place, items, i, fields) : d.place = place
  <2>1. \E d \in Differing(place, f, seen(f)) : d.place = place
    BY <1>1, <1>5, DifferingShows
  <2> QED BY <1>2, <2>1
<1>6. IsFiniteSet(Fields(place, items, i, fields))
  <2>1. \A f \in fields : IsFiniteSet(at[f])
    BY <1>3, DifferingShows
  <2>2. DOMAIN at = fields
    OBVIOUS
  <2>3. Fields(place, items, i, fields) = UNION {at[f] : f \in fields}
    BY <1>2, <1>3
  <2> HIDE DEF at
  <2> QED BY <2>1, <2>2, <2>3, FiniteUnion
<1> QED BY <1>4, <1>5, <1>6

\* At each ordinal, either the presence is told or the rest is compared.
Level(place, items, rest) ==
  UNION {IF ~ AllHave(items, i) THEN Presence(Append(place, i), items, i) ELSE rest[i]
         : i \in Ordinals(items)}

LEMMA LevelShows ==
  ASSUME NEW place, NEW items, NEW rest
  PROVE  /\ \A d \in Level(place, items, rest) : \E i \in Ordinals(items) :
              \/ /\ d.place = Append(place, i) /\ d.field = "presence"
                 /\ \E a, b \in DOMAIN items : i \in DOMAIN items[a] /\ i \notin DOMAIN items[b]
              \/ AllHave(items, i) /\ d \in rest[i]
         /\ \A i \in Ordinals(items) : ~ AllHave(items, i) =>
              \E d \in Level(place, items, rest) :
                d.place = Append(place, i) /\ d.field = "presence"
         /\ \A i \in Ordinals(items) : AllHave(items, i) =>
              rest[i] \subseteq Level(place, items, rest)
<1>1. ASSUME NEW d \in Level(place, items, rest)
      PROVE  \E i \in Ordinals(items) :
              \/ /\ d.place = Append(place, i) /\ d.field = "presence"
                 /\ \E a, b \in DOMAIN items : i \in DOMAIN items[a] /\ i \notin DOMAIN items[b]
              \/ AllHave(items, i) /\ d \in rest[i]
  <2>1. PICK i \in Ordinals(items) :
          d \in IF ~ AllHave(items, i) THEN Presence(Append(place, i), items, i) ELSE rest[i]
    BY DEF Level
  <2>2. CASE AllHave(items, i)
    BY <2>1, <2>2
  <2>3. CASE ~ AllHave(items, i)
    <3> DEFINE at == Append(place, i)
    <3>1. d \in Presence(at, items, i)
      BY <2>1, <2>3
    <3> HIDE DEF at
    <3>2. /\ d.place = at /\ d.field = "presence"
          /\ \E a, b \in DOMAIN items : i \in DOMAIN items[a] /\ i \notin DOMAIN items[b]
      BY <3>1, PresenceShows
    <3> QED BY <3>2 DEF at
  <2> QED BY <2>2, <2>3
<1>2. ASSUME NEW i \in Ordinals(items), ~ AllHave(items, i)
      PROVE  \E d \in Level(place, items, rest) :
                d.place = Append(place, i) /\ d.field = "presence"
  <2>1. Presence(Append(place, i), items, i) \subseteq Level(place, items, rest)
    BY <1>2 DEF Level
  <2>2. \E d \in Presence(Append(place, i), items, i) :
           d.place = Append(place, i) /\ d.field = "presence"
    <3> DEFINE at == Append(place, i)
    <3> HIDE DEF at
    <3>1. \E d \in Presence(at, items, i) : d.place = at /\ d.field = "presence"
      BY <1>2, PresenceShows
    <3> QED BY <3>1 DEF at
  <2> QED BY <2>1, <2>2
<1>3. ASSUME NEW i \in Ordinals(items), AllHave(items, i)
      PROVE  rest[i] \subseteq Level(place, items, rest)
  BY <1>3 DEF Level
<1> QED BY <1>1, <1>2, <1>3

LEMMA LevelIsFinite ==
  ASSUME NEW place, NEW V, NEW items, items \in [DOMAIN items -> Seq(V)],
         IsFiniteSet(DOMAIN items), NEW rest,
         \A i \in Ordinals(items) : AllHave(items, i) => IsFiniteSet(rest[i])
  PROVE  IsFiniteSet(Level(place, items, rest))
<1> DEFINE of == [c \in DOMAIN items |-> DOMAIN items[c]]
           at == [i \in Ordinals(items) |->
                    IF ~ AllHave(items, i) THEN Presence(Append(place, i), items, i) ELSE rest[i]]
<1>1. IsFiniteSet(Ordinals(items))
  <2>1. \A c \in DOMAIN items : Len(items[c]) \in Nat /\ of[c] = 1 .. Len(items[c])
    OBVIOUS
  <2>2. \A c \in DOMAIN items : IsFiniteSet(of[c])
    <3> HIDE DEF of
    <3>1. \A n \in Nat : IsFiniteSet(1 .. n)
      BY FS_Interval
    <3> QED BY <2>1, <3>1
  <2>3. Ordinals(items) = UNION {of[c] : c \in DOMAIN items} /\ DOMAIN of = DOMAIN items
    BY DEF Ordinals
  <2> HIDE DEF of
  <2> QED BY <2>2, <2>3, FiniteUnion
<1>2. \A i \in Ordinals(items) : IsFiniteSet(at[i])
  BY PresenceShows
<1>3. Level(place, items, rest) = UNION {at[i] : i \in Ordinals(items)} /\ DOMAIN at = Ordinals(items)
  BY DEF Level
<1> HIDE DEF at
<1> QED BY <1>1, <1>2, <1>3, FiniteUnion

\* Who all have the same ordinals have sequences of one length.
LEMMA SameOrdinals ==
  ASSUME NEW V, NEW items, items \in [DOMAIN items -> Seq(V)],
         \A i \in Ordinals(items) : AllHave(items, i),
         NEW a \in DOMAIN items, NEW b \in DOMAIN items,
         \A i \in DOMAIN items[a] : items[a][i] = items[b][i]
  PROVE  items[a] = items[b]
<1>1. DOMAIN items[a] = DOMAIN items[b]
  BY DEF Ordinals, AllHave
<1>2. items[a] \in Seq(V) /\ items[b] \in Seq(V)
  OBVIOUS
<1>3. Len(items[a]) = Len(items[b])
  BY <1>1, <1>2
<1> QED BY <1>1, <1>2, <1>3

-----------------------------------------------------------------------------
\* What a part says of an event of a measure, and a score of one of a part.
SaidIn(measures, n, i) ==
  IF n \in DOMAIN measures THEN SaidAt(measures[n].events, i, EventField) ELSE {"nothing"}

LEMMA FieldsAreFinite == IsFiniteSet(MeasureField) /\ IsFiniteSet(EventField)
<1>1. IsFiniteSet({}) /\ \A S, x : IsFiniteSet(S) => IsFiniteSet(S \union {x})
  BY FS_EmptySet, FS_AddElement
<1>2. MeasureField = ({} \union {"number"}) \union {"length"}
  BY DEF MeasureField
<1>3. EventField = ((((({} \union {"onset"}) \union {"kind"}) \union {"duration"})
                      \union {"pitch"}) \union {"chord"}) \union {"voice"}
  BY DEF EventField
<1>4. IsFiniteSet(MeasureField)
  BY <1>1, <1>2
<1>5. IsFiniteSet(EventField)
  <2>1. IsFiniteSet((({} \union {"onset"}) \union {"kind"}) \union {"duration"})
    BY <1>1
  <2> QED BY <1>1, <1>3, <2>1
<1> QED BY <1>4, <1>5

\* An event is its fields.
LEMMA EventIsItsFields ==
  ASSUME NEW e \in ScoreEvent, NEW f \in ScoreEvent,
         e.onset = f.onset, e.kind = f.kind, e.duration = f.duration, e.pitch = f.pitch,
         e.chord = f.chord, e.voice = f.voice
  PROVE  e = f
<1>1. \A x \in ScoreEvent :
        x = [onset |-> x.onset, kind |-> x.kind, duration |-> x.duration, pitch |-> x.pitch,
             chord |-> x.chord, voice |-> x.voice]
  BY DEF ScoreEvent
<1> QED BY <1>1

\* The events of a measure: a difference wherever two measures say different things.
EventsTold(place, evs, E) ==
  /\ \A a, b \in DOMAIN evs : \A i :
       SaidAt(evs[a], i, EventField) # SaidAt(evs[b], i, EventField) =>
         \E d \in E : d.place = Append(place, i)
  /\ \A d \in E : \E i \in Ordinals(evs) :
       /\ d.place = Append(place, i)
       /\ \E a, b \in DOMAIN evs :
            SaidAt(evs[a], i, EventField) # SaidAt(evs[b], i, EventField)
  /\ \A d \in E : d.field \in DOMAIN Category
  /\ E = {} => \A a, b \in DOMAIN evs : evs[a] = evs[b]
  /\ IsFiniteSet(E)

LEMMA EventsCompared ==
  ASSUME NEW place, NEW evs, evs \in [DOMAIN evs -> Seq(ScoreEvent)], IsFiniteSet(DOMAIN evs)
  PROVE  EventsTold(place, evs, EventDifferences(place, evs))
<1> DEFINE E == EventDifferences(place, evs)
           rest == [i \in Ordinals(evs) |-> Fields(Append(place, i), evs, i, EventField)]
<1>1. E = Level(place, evs, rest)
  BY DEF EventDifferences, Level, Fields
<1>2. \A i \in Ordinals(evs) : rest[i] = Fields(Append(place, i), evs, i, EventField)
  OBVIOUS
<1> HIDE DEF rest, E
<1>3. SaidTells(EventField)
  BY FieldsTell
<1>4. ASSUME NEW a \in DOMAIN evs, NEW b \in DOMAIN evs, NEW i,
             SaidAt(evs[a], i, EventField) # SaidAt(evs[b], i, EventField)
      PROVE  \E d \in E : d.place = Append(place, i)
  <2>1. i \in DOMAIN evs[a] \/ i \in DOMAIN evs[b]
    BY <1>3, <1>4 DEF SaidTells
  <2>2. i \in Ordinals(evs)
    BY <2>1 DEF Ordinals
  <2>3. CASE ~ AllHave(evs, i)
    BY <1>1, <2>2, <2>3, LevelShows
  <2>4. CASE AllHave(evs, i)
    <3>1. PICK f \in EventField : evs[a][i][f] # evs[b][i][f]
      BY <1>3, <1>4, <2>4 DEF AllHave, SaidTells
    <3> DEFINE at == Append(place, i)
    <3> HIDE DEF at
    <3>2. \E d \in Fields(at, evs, i, EventField) : d.place = at
      <4>1. \E g \in EventField, x, y \in DOMAIN evs : evs[x][i][g] # evs[y][i][g]
        BY <3>1
      <4> QED BY <4>1, FieldsShow, FieldsAreFinite
    <3>3. rest[i] \subseteq E
      BY <1>1, <2>2, <2>4, LevelShows
    <3> QED BY <1>2, <2>2, <3>2, <3>3 DEF at
  <2> QED BY <2>3, <2>4
<1>5. ASSUME NEW d \in E
      PROVE  /\ d.field \in DOMAIN Category
             /\ \E i \in Ordinals(evs) :
                  /\ d.place = Append(place, i)
                  /\ \E a, b \in DOMAIN evs :
                       SaidAt(evs[a], i, EventField) # SaidAt(evs[b], i, EventField)
  <2>1. PICK i \in Ordinals(evs) :
          \/ /\ d.place = Append(place, i) /\ d.field = "presence"
             /\ \E a, b \in DOMAIN evs : i \in DOMAIN evs[a] /\ i \notin DOMAIN evs[b]
          \/ AllHave(evs, i) /\ d \in rest[i]
    BY <1>1, LevelShows
  <2>2. EventField \subseteq DOMAIN Category /\ "presence" \in DOMAIN Category
    BY DEF EventField, Category
  <2>3. CASE /\ d.place = Append(place, i) /\ d.field = "presence"
             /\ \E a, b \in DOMAIN evs : i \in DOMAIN evs[a] /\ i \notin DOMAIN evs[b]
    <3>1. PICK a \in DOMAIN evs, b \in DOMAIN evs : i \in DOMAIN evs[a] /\ i \notin DOMAIN evs[b]
      BY <2>3
    <3>2. SaidAt(evs[a], i, EventField) # SaidAt(evs[b], i, EventField)
      BY <1>3, <3>1 DEF SaidTells
    <3> QED BY <2>2, <2>3, <3>2
  <2>4. CASE AllHave(evs, i) /\ d \in rest[i]
    <3> DEFINE at == Append(place, i)
    <3> HIDE DEF at
    <3>1. d \in Fields(at, evs, i, EventField)
      BY <1>2, <2>4 DEF at
    <3>2. /\ d.place = at /\ d.field \in EventField
          /\ \E f \in EventField, a, b \in DOMAIN evs : evs[a][i][f] # evs[b][i][f]
      BY <3>1, FieldsShow, FieldsAreFinite
    <3>3. PICK f \in EventField, a \in DOMAIN evs, b \in DOMAIN evs : evs[a][i][f] # evs[b][i][f]
      BY <3>2
    <3>4. SaidAt(evs[a], i, EventField) # SaidAt(evs[b], i, EventField)
      BY <1>3, <2>4, <3>3 DEF AllHave, SaidTells
    <3> QED BY <2>2, <3>2, <3>4 DEF at
  <2> QED BY <2>1, <2>3, <2>4
<1>6. ASSUME E = {}, NEW a \in DOMAIN evs, NEW b \in DOMAIN evs PROVE evs[a] = evs[b]
  <2>1. \A i \in Ordinals(evs) : AllHave(evs, i)
    BY <1>1, <1>6, LevelShows
  <2>2. ASSUME NEW i \in DOMAIN evs[a] PROVE evs[a][i] = evs[b][i]
    <3>1. AllHave(evs, i)
      BY <2>1 DEF Ordinals
    <3>2. evs[a][i] \in ScoreEvent /\ evs[b][i] \in ScoreEvent
      BY <3>1 DEF AllHave
    <3>3. \A f \in EventField : evs[a][i][f] = evs[b][i][f]
      <4>1. SaidAt(evs[a], i, EventField) = SaidAt(evs[b], i, EventField)
        BY <1>4, <1>6
      <4> QED BY <1>3, <3>1, <4>1 DEF AllHave, SaidTells
    <3>4. /\ evs[a][i].onset = evs[b][i].onset /\ evs[a][i].kind = evs[b][i].kind
          /\ evs[a][i].duration = evs[b][i].duration /\ evs[a][i].pitch = evs[b][i].pitch
          /\ evs[a][i].chord = evs[b][i].chord /\ evs[a][i].voice = evs[b][i].voice
      BY <3>3 DEF EventField
    <3> QED BY <3>2, <3>4, EventIsItsFields
  <2> QED BY <2>1, <2>2, SameOrdinals
<1>7. IsFiniteSet(E)
  <2>1. ASSUME NEW i \in Ordinals(evs) PROVE IsFiniteSet(rest[i])
    <3> DEFINE at == Append(place, i)
    <3> HIDE DEF at
    <3>1. IsFiniteSet(Fields(at, evs, i, EventField))
      BY FieldsShow, FieldsAreFinite
    <3> QED BY <1>2, <3>1 DEF at
  <2> QED BY <1>1, <2>1, LevelIsFinite
<1> QED BY <1>4, <1>5, <1>6, <1>7 DEF E, EventsTold

LEMMA MeasureIsItsFields ==
  ASSUME NEW m \in ScoreMeasure, NEW n \in ScoreMeasure,
         m.number = n.number, m.length = n.length, m.events = n.events
  PROVE  m = n
<1>1. \A x \in ScoreMeasure : x = [number |-> x.number, length |-> x.length, events |-> x.events]
  BY DEF ScoreMeasure
<1> QED BY <1>1

\* The measures of a part, with the events of those that all have.
MeasuresTold(place, ms, M) ==
  /\ \A a, b \in DOMAIN ms : \A n :
       SaidAt(ms[a], n, MeasureField) # SaidAt(ms[b], n, MeasureField) =>
         \E d \in M : d.place = Append(place, n)
  /\ \A a, b \in DOMAIN ms : \A n, i :
       SaidIn(ms[a], n, i) # SaidIn(ms[b], n, i) =>
         \E d \in M : \/ d.place = Append(Append(place, n), i)
                     \/ (d.place = Append(place, n) /\ d.field = "presence")
  /\ \A d \in M : \E n \in Ordinals(ms) :
       \/ /\ d.place = Append(place, n)
          /\ \E a, b \in DOMAIN ms :
               SaidAt(ms[a], n, MeasureField) # SaidAt(ms[b], n, MeasureField)
       \/ \E i : /\ d.place = Append(Append(place, n), i)
                 /\ \E a, b \in DOMAIN ms :
                      /\ n \in DOMAIN ms[a] /\ i \in DOMAIN ms[a][n].events
                      /\ SaidIn(ms[a], n, i) # SaidIn(ms[b], n, i)
  /\ \A d \in M : d.field \in DOMAIN Category
  /\ M = {} => \A a, b \in DOMAIN ms : ms[a] = ms[b]
  /\ IsFiniteSet(M)

LEMMA MeasuresCompared ==
  ASSUME NEW place, NEW ms, ms \in [DOMAIN ms -> Seq(ScoreMeasure)], IsFiniteSet(DOMAIN ms)
  PROVE  MeasuresTold(place, ms, MeasureDifferences(place, ms))
<1> DEFINE M == MeasureDifferences(place, ms)
           at(n) == Append(place, n)
           evs(n) == [c \in DOMAIN ms |-> ms[c][n].events]
           rest == [n \in Ordinals(ms) |->
                      EventDifferences(at(n), evs(n)) \union Fields(at(n), ms, n, MeasureField)]
<1>1. M = Level(place, ms, rest)
  <2>1. M = UNION {IF ~ AllHave(ms, n) THEN Presence(Append(place, n), ms, n)
                   ELSE EventDifferences(Append(place, n), [c \in DOMAIN ms |-> ms[c][n].events])
                        \union Fields(Append(place, n), ms, n, MeasureField)
                   : n \in Ordinals(ms)}
    BY DEF MeasureDifferences, Fields
  <2>2. \A n \in Ordinals(ms) :
          rest[n] = EventDifferences(Append(place, n), [c \in DOMAIN ms |-> ms[c][n].events])
                    \union Fields(Append(place, n), ms, n, MeasureField)
    OBVIOUS
  <2> HIDE DEF rest
  <2> QED BY <2>1, <2>2 DEF Level
<1>2. \A n \in Ordinals(ms) :
        rest[n] = EventDifferences(at(n), evs(n)) \union Fields(at(n), ms, n, MeasureField)
  OBVIOUS
<1>3. ASSUME NEW n, AllHave(ms, n)
      PROVE  /\ \A c \in DOMAIN ms :
                  /\ n \in DOMAIN ms[c] /\ ms[c][n] \in ScoreMeasure
                  /\ evs(n)[c] = ms[c][n].events
             /\ DOMAIN evs(n) = DOMAIN ms
             /\ EventsTold(at(n), evs(n), EventDifferences(at(n), evs(n)))
  <2> DEFINE q == evs(n)
             p == at(n)
  <2>1. \A c \in DOMAIN ms : n \in DOMAIN ms[c] /\ ms[c][n] \in ScoreMeasure
    BY <1>3 DEF AllHave
  <2>2. \A c \in DOMAIN ms : ms[c][n].events \in Seq(ScoreEvent)
    BY <2>1 DEF ScoreMeasure
  <2>3. /\ DOMAIN q = DOMAIN ms /\ \A c \in DOMAIN ms : q[c] = ms[c][n].events
        /\ q \in [DOMAIN q -> Seq(ScoreEvent)]
    BY <2>2
  <2>4. EventsTold(p, q, EventDifferences(p, q))
    <3> HIDE DEF p, q
    <3> QED BY <2>3, EventsCompared
  <2> QED BY <2>1, <2>3, <2>4
<1>4. ASSUME NEW n \in Ordinals(ms), ~ AllHave(ms, n)
      PROVE  \E d \in M : d.place = at(n) /\ d.field = "presence"
  <2> HIDE DEF M, rest
  <2> QED BY <1>1, <1>4, LevelShows
<1>5. ASSUME NEW n \in Ordinals(ms), AllHave(ms, n)
      PROVE  Fields(at(n), ms, n, MeasureField) \subseteq M /\ EventDifferences(at(n), evs(n)) \subseteq M
  <2> HIDE DEF M, rest, at, evs
  <2>1. rest[n] \subseteq M
    BY <1>1, <1>5, LevelShows
  <2> QED BY <1>2, <2>1
<1>6. ASSUME NEW d \in M
      PROVE  \E n \in Ordinals(ms) :
          \/ /\ d.place = at(n) /\ d.field = "presence"
             /\ \E a, b \in DOMAIN ms : n \in DOMAIN ms[a] /\ n \notin DOMAIN ms[b]
          \/ AllHave(ms, n) /\ d \in rest[n]
  <2> HIDE DEF M, rest
  <2> QED BY <1>1, LevelShows
<1>7. SaidTells(MeasureField)
  BY FieldsTell
<1> HIDE DEF rest, M, evs, at
<1>9. ASSUME NEW a \in DOMAIN ms, NEW b \in DOMAIN ms, NEW n,
             SaidAt(ms[a], n, MeasureField) # SaidAt(ms[b], n, MeasureField)
      PROVE  \E d \in M : d.place = at(n)
  <2>1. n \in DOMAIN ms[a] \/ n \in DOMAIN ms[b]
    BY <1>7, <1>9 DEF SaidTells
  <2>2. n \in Ordinals(ms)
    BY <2>1 DEF Ordinals
  <2>3. CASE ~ AllHave(ms, n)
    BY <1>4, <2>2, <2>3
  <2>4. CASE AllHave(ms, n)
    <3>1. \E f \in MeasureField, x, y \in DOMAIN ms : ms[x][n][f] # ms[y][n][f]
      BY <1>7, <1>9, <2>4 DEF AllHave, SaidTells
    <3>2. \E d \in Fields(at(n), ms, n, MeasureField) : d.place = at(n)
      BY <3>1, FieldsShow, FieldsAreFinite
    <3> QED BY <1>5, <2>2, <2>4, <3>2
  <2> QED BY <2>3, <2>4
<1>10. ASSUME NEW a \in DOMAIN ms, NEW b \in DOMAIN ms, NEW n, NEW i,
              SaidIn(ms[a], n, i) # SaidIn(ms[b], n, i)
       PROVE  \E d \in M : \/ d.place = Append(at(n), i)
                          \/ (d.place = at(n) /\ d.field = "presence")
  <2>1. n \in Ordinals(ms)
    BY <1>10 DEF SaidIn, Ordinals
  <2>2. CASE ~ AllHave(ms, n)
    BY <1>4, <2>1, <2>2
  <2>3. CASE AllHave(ms, n)
    <3>1. SaidAt(evs(n)[a], i, EventField) # SaidAt(evs(n)[b], i, EventField)
      BY <1>3, <1>10, <2>3 DEF SaidIn
    <3>2. \E d \in EventDifferences(at(n), evs(n)) : d.place = Append(at(n), i)
      <4> DEFINE p == at(n)
                 q == evs(n)
                 E == EventDifferences(p, q)
      <4>1. EventsTold(p, q, E) /\ DOMAIN q = DOMAIN ms
        BY <1>3, <2>3
      <4>2. SaidAt(q[a], i, EventField) # SaidAt(q[b], i, EventField)
        BY <3>1
      <4> HIDE DEF p, q, E
      <4>3. \E d \in E : d.place = Append(p, i)
        BY <4>1, <4>2 DEF EventsTold
      <4> QED BY <4>3 DEF p, q, E
    <3> QED BY <1>5, <2>1, <2>3, <3>2
  <2> QED BY <2>2, <2>3
<1>11. ASSUME NEW d \in M
       PROVE  /\ d.field \in DOMAIN Category
              /\ \E n \in Ordinals(ms) :
                   \/ /\ d.place = at(n)
                      /\ \E a, b \in DOMAIN ms :
                           SaidAt(ms[a], n, MeasureField) # SaidAt(ms[b], n, MeasureField)
                   \/ \E i : /\ d.place = Append(at(n), i)
                             /\ \E a, b \in DOMAIN ms :
                                  /\ n \in DOMAIN ms[a] /\ i \in DOMAIN ms[a][n].events
                                  /\ SaidIn(ms[a], n, i) # SaidIn(ms[b], n, i)
  <2>1. PICK n \in Ordinals(ms) :
          \/ /\ d.place = at(n) /\ d.field = "presence"
             /\ \E a, b \in DOMAIN ms : n \in DOMAIN ms[a] /\ n \notin DOMAIN ms[b]
          \/ AllHave(ms, n) /\ d \in rest[n]
    BY <1>6
  <2>2. MeasureField \subseteq DOMAIN Category /\ "presence" \in DOMAIN Category
    BY DEF MeasureField, Category
  <2>3. CASE /\ d.place = at(n) /\ d.field = "presence"
             /\ \E a, b \in DOMAIN ms : n \in DOMAIN ms[a] /\ n \notin DOMAIN ms[b]
    <3>1. PICK a \in DOMAIN ms, b \in DOMAIN ms : n \in DOMAIN ms[a] /\ n \notin DOMAIN ms[b]
      BY <2>3
    <3>2. SaidAt(ms[a], n, MeasureField) # SaidAt(ms[b], n, MeasureField)
      BY <1>7, <3>1 DEF SaidTells
    <3> QED BY <2>2, <2>3, <3>2
  <2>4. CASE AllHave(ms, n) /\ d \in Fields(at(n), ms, n, MeasureField)
    <3>1. /\ d.place = at(n) /\ d.field \in MeasureField
          /\ \E f \in MeasureField, a, b \in DOMAIN ms : ms[a][n][f] # ms[b][n][f]
      BY <2>4, FieldsShow, FieldsAreFinite
    <3>2. PICK f \in MeasureField, a \in DOMAIN ms, b \in DOMAIN ms : ms[a][n][f] # ms[b][n][f]
      BY <3>1
    <3>3. SaidAt(ms[a], n, MeasureField) # SaidAt(ms[b], n, MeasureField)
      BY <1>7, <2>4, <3>2 DEF AllHave, SaidTells
    <3> QED BY <2>2, <3>1, <3>3
  <2>5. CASE AllHave(ms, n) /\ d \in EventDifferences(at(n), evs(n))
    <3>1. /\ d.field \in DOMAIN Category
          /\ \E i : /\ d.place = Append(at(n), i)
                    /\ \E a, b \in DOMAIN ms :
                         SaidAt(evs(n)[a], i, EventField) # SaidAt(evs(n)[b], i, EventField)
      <4> DEFINE p == at(n)
                 q == evs(n)
                 E == EventDifferences(p, q)
      <4>1. EventsTold(p, q, E) /\ DOMAIN q = DOMAIN ms /\ d \in E
        BY <1>3, <2>5
      <4> HIDE DEF p, q, E
      <4>2. /\ d.field \in DOMAIN Category
            /\ \E i : /\ d.place = Append(p, i)
                      /\ \E a, b \in DOMAIN ms :
                           SaidAt(q[a], i, EventField) # SaidAt(q[b], i, EventField)
        <5>1. \E i : /\ d.place = Append(p, i)
                     /\ \E a, b \in DOMAIN q :
                          SaidAt(q[a], i, EventField) # SaidAt(q[b], i, EventField)
          BY <4>1 DEF EventsTold
        <5>2. d.field \in DOMAIN Category
          BY <4>1 DEF EventsTold
        <5> QED BY <4>1, <5>1, <5>2
      <4> QED BY <4>2 DEF p, q
    <3>2. PICK i : /\ d.place = Append(at(n), i)
                   /\ \E a, b \in DOMAIN ms :
                        SaidAt(evs(n)[a], i, EventField) # SaidAt(evs(n)[b], i, EventField)
      BY <3>1
    <3>3. PICK a \in DOMAIN ms, b \in DOMAIN ms :
            SaidAt(evs(n)[a], i, EventField) # SaidAt(evs(n)[b], i, EventField)
      BY <3>2
    <3>4. SaidIn(ms[a], n, i) # SaidIn(ms[b], n, i)
      BY <1>3, <2>5, <3>3 DEF SaidIn
    <3>5. i \in DOMAIN evs(n)[a] \/ i \in DOMAIN evs(n)[b]
      BY <3>3 DEF SaidAt
    <3>6. \E x, y \in DOMAIN ms : /\ n \in DOMAIN ms[x] /\ i \in DOMAIN ms[x][n].events
                                 /\ SaidIn(ms[x], n, i) # SaidIn(ms[y], n, i)
      BY <1>3, <2>5, <3>4, <3>5
    <3> QED BY <3>1, <3>2, <3>6
  <2> QED BY <1>2, <2>1, <2>3, <2>4, <2>5
<1>12. ASSUME M = {}, NEW a \in DOMAIN ms, NEW b \in DOMAIN ms PROVE ms[a] = ms[b]
  <2>1. \A n \in Ordinals(ms) : AllHave(ms, n)
    BY <1>4, <1>12
  <2>2. ASSUME NEW n \in DOMAIN ms[a] PROVE ms[a][n] = ms[b][n]
    <3>1. n \in Ordinals(ms) /\ AllHave(ms, n)
      BY <2>1 DEF Ordinals
    <3>2. SaidAt(ms[a], n, MeasureField) = SaidAt(ms[b], n, MeasureField)
      BY <1>9, <1>12
    <3>3. \A f \in MeasureField : ms[a][n][f] = ms[b][n][f]
      BY <1>7, <3>1, <3>2 DEF AllHave, SaidTells
    <3>4. ms[a][n].number = ms[b][n].number /\ ms[a][n].length = ms[b][n].length
      BY <3>3 DEF MeasureField
    <3>5. EventDifferences(at(n), evs(n)) = {}
      BY <1>5, <1>12, <3>1
    <3>6. evs(n)[a] = evs(n)[b]
      BY <1>3, <3>1, <3>5 DEF EventsTold
    <3> QED BY <1>3, <3>1, <3>4, <3>6, MeasureIsItsFields
  <2> QED BY <2>1, <2>2, SameOrdinals
<1>13. IsFiniteSet(M)
  <2>1. ASSUME NEW n \in Ordinals(ms), AllHave(ms, n) PROVE IsFiniteSet(rest[n])
    <3>1. IsFiniteSet(Fields(at(n), ms, n, MeasureField))
      BY FieldsShow, FieldsAreFinite
    <3>2. IsFiniteSet(EventDifferences(at(n), evs(n)))
      BY <1>3, <2>1 DEF EventsTold
    <3>3. rest[n] = EventDifferences(at(n), evs(n)) \union Fields(at(n), ms, n, MeasureField)
      BY <1>2
    <3> QED BY <3>1, <3>2, <3>3, FS_Union
  <2> QED BY <1>1, <2>1, LevelIsFinite
<1>14. MeasuresTold(place, ms, M)
  BY <1>9, <1>10, <1>11, <1>12, <1>13 DEF at, MeasuresTold
<1> QED BY <1>14 DEF M

\* What a score says of a measure, and of an event.
SaidOfMeasure(score, p, n) ==
  IF p \in DOMAIN score THEN SaidAt(score[p], n, MeasureField) ELSE {"nothing"}

SaidOfEvent(score, p, n, i) ==
  IF p \in DOMAIN score THEN SaidIn(score[p], n, i) ELSE {"nothing"}

LEMMA PlacesApart ==
  /\ \A p, n, i : /\ Append(<<>>, p) = <<p>> /\ Append(<<p>>, n) = <<p, n>>
                  /\ Append(<<p, n>>, i) = <<p, n, i>>
  /\ \A p : Len(<<p>>) = 1 /\ <<p>>[1] = p
  /\ \A p, n : Len(<<p, n>>) = 2 /\ <<p, n>>[1] = p /\ <<p, n>>[2] = n
  /\ \A p, n, i : /\ Len(<<p, n, i>>) = 3 /\ <<p, n, i>>[1] = p /\ <<p, n, i>>[2] = n
                  /\ <<p, n, i>>[3] = i
<1>1. ASSUME NEW p, NEW n, NEW i
      PROVE  /\ Append(<<>>, p) = <<p>> /\ Append(<<p>>, n) = <<p, n>>
             /\ Append(<<p, n>>, i) = <<p, n, i>>
  <2> DEFINE S == {p, n, i}
  <2>1. p \in S /\ n \in S /\ i \in S
    OBVIOUS
  <2> HIDE DEF S
  <2>2. ASSUME NEW x \in Seq(S), NEW y \in Seq(S), NEW e \in S, Len(y) = Len(x) + 1,
               \A k \in 1 .. Len(x) : y[k] = x[k], y[Len(y)] = e
        PROVE  Append(x, e) = y
    <3> DEFINE z == Append(x, e)
    <3>1. z \in Seq(S) /\ Len(z) = Len(y) /\ \A k \in 1 .. Len(y) : z[k] = y[k]
      BY <2>2
    <3> HIDE DEF z
    <3>2. z = y
      BY <3>1
    <3> QED BY <3>2 DEF z
  <2>3. Append(<<>>, p) = <<p>>
    <3>1. <<>> \in Seq(S) /\ <<p>> \in Seq(S) /\ Len(<<p>>) = Len(<<>>) + 1 /\ <<p>>[Len(<<p>>)] = p
      BY <2>1
    <3>2. \A k \in 1 .. Len(<<>>) : <<p>>[k] = <<>>[k]
      OBVIOUS
    <3> QED BY <2>1, <2>2, <3>1, <3>2
  <2>4. Append(<<p>>, n) = <<p, n>>
    <3>1. /\ <<p>> \in Seq(S) /\ <<p, n>> \in Seq(S) /\ Len(<<p, n>>) = Len(<<p>>) + 1
          /\ <<p, n>>[Len(<<p, n>>)] = n
      BY <2>1
    <3>2. \A k \in 1 .. Len(<<p>>) : <<p, n>>[k] = <<p>>[k]
      OBVIOUS
    <3> QED BY <2>1, <2>2, <3>1, <3>2
  <2>5. Append(<<p, n>>, i) = <<p, n, i>>
    <3>1. /\ <<p, n>> \in Seq(S) /\ <<p, n, i>> \in Seq(S) /\ Len(<<p, n, i>>) = Len(<<p, n>>) + 1
          /\ <<p, n, i>>[Len(<<p, n, i>>)] = i
      BY <2>1
    <3>2. \A k \in 1 .. Len(<<p, n>>) : <<p, n, i>>[k] = <<p, n>>[k]
      OBVIOUS
    <3> QED BY <2>1, <2>2, <3>1, <3>2
  <2> QED BY <2>3, <2>4, <2>5
<1>2. \A p : Len(<<p>>) = 1 /\ <<p>>[1] = p
  OBVIOUS
<1>3. \A p, n : Len(<<p, n>>) = 2 /\ <<p, n>>[1] = p /\ <<p, n>>[2] = n
  OBVIOUS
<1>4. \A p, n, i : /\ Len(<<p, n, i>>) = 3 /\ <<p, n, i>>[1] = p /\ <<p, n, i>>[2] = n
                  /\ <<p, n, i>>[3] = i
  OBVIOUS
<1> QED BY <1>1, <1>2, <1>3, <1>4

LEMMA PlaceIsOneOf ==
  ASSUME NEW score, NEW x
  PROVE  x \in Places(score) <=>
           \/ \E p \in DOMAIN score : x = <<p>>
           \/ \E p \in DOMAIN score : \E n \in DOMAIN score[p] : x = <<p, n>>
           \/ \E p \in DOMAIN score : \E n \in DOMAIN score[p] :
                \E i \in DOMAIN score[p][n].events : x = <<p, n, i>>
BY DEF Places

LEMMA SaidByPlace ==
  ASSUME NEW score
  PROVE  /\ \A p : Said(score, <<p>>) = IF p \in DOMAIN score THEN {"part"} ELSE {"nothing"}
         /\ \A p, n : Said(score, <<p, n>>) = SaidOfMeasure(score, p, n)
         /\ \A p, n, i : Said(score, <<p, n, i>>) = SaidOfEvent(score, p, n, i)
<1>1. ASSUME NEW p
      PROVE  Said(score, <<p>>) = IF p \in DOMAIN score THEN {"part"} ELSE {"nothing"}
  <2>1. <<p>> \in Places(score) <=> p \in DOMAIN score
    BY PlaceIsOneOf, PlacesApart
  <2> QED BY <2>1, PlacesApart DEF Said
<1>2. ASSUME NEW p, NEW n PROVE Said(score, <<p, n>>) = SaidOfMeasure(score, p, n)
  <2>1. <<p, n>> \in Places(score) <=> p \in DOMAIN score /\ n \in DOMAIN score[p]
    BY PlaceIsOneOf, PlacesApart
  <2> DEFINE x == <<p, n>>
  <2>2. Len(x) = 2 /\ x[1] = p /\ x[2] = n
    BY PlacesApart
  <2> HIDE DEF x
  <2>3. Said(score, x) = IF x \notin Places(score) THEN {"nothing"}
                         ELSE {<<f, score[x[1]][x[2]][f]>> : f \in MeasureField}
    BY <2>2 DEF Said
  <2> QED BY <2>1, <2>2, <2>3 DEF SaidOfMeasure, SaidAt, x
<1>3. ASSUME NEW p, NEW n, NEW i PROVE Said(score, <<p, n, i>>) = SaidOfEvent(score, p, n, i)
  <2>1. <<p, n, i>> \in Places(score) <=> /\ p \in DOMAIN score /\ n \in DOMAIN score[p]
                                         /\ i \in DOMAIN score[p][n].events
    BY PlaceIsOneOf, PlacesApart
  <2> DEFINE x == <<p, n, i>>
  <2>2. Len(x) = 3 /\ x[1] = p /\ x[2] = n /\ x[3] = i
    BY PlacesApart
  <2> HIDE DEF x
  <2>3. Said(score, x) = IF x \notin Places(score) THEN {"nothing"}
                         ELSE {<<f, score[x[1]][x[2]].events[x[3]][f]>> : f \in EventField}
    BY <2>2 DEF Said
  <2> QED BY <2>1, <2>2, <2>3 DEF SaidOfEvent, SaidIn, SaidAt, x
<1> QED BY <1>1, <1>2, <1>3

\* The scores: a difference at or around every place of which two say different things.
ScoresTold(s, C) ==
  /\ \A a, b \in DOMAIN s : \A p : p \in DOMAIN s[a] /\ p \notin DOMAIN s[b] =>
       \E d \in C : d.place = <<p>> /\ d.field = "presence"
  /\ \A a, b \in DOMAIN s : \A p, n : SaidOfMeasure(s[a], p, n) # SaidOfMeasure(s[b], p, n) =>
       \E d \in C : \/ d.place = <<p, n>>
                   \/ (d.place = <<p>> /\ d.field = "presence")
  /\ \A a, b \in DOMAIN s : \A p, n, i : SaidOfEvent(s[a], p, n, i) # SaidOfEvent(s[b], p, n, i) =>
       \E d \in C : \/ d.place = <<p, n, i>>
                   \/ (d.place \in {<<p>>, <<p, n>>} /\ d.field = "presence")
  /\ \A d \in C :
       \/ \E p : /\ d.place = <<p>>
                 /\ \E a, b \in DOMAIN s : p \in DOMAIN s[a] /\ p \notin DOMAIN s[b]
       \/ \E p, n : /\ d.place = <<p, n>>
                    /\ \E a, b \in DOMAIN s : SaidOfMeasure(s[a], p, n) # SaidOfMeasure(s[b], p, n)
       \/ \E p, n, i : /\ d.place = <<p, n, i>>
                       /\ \E a, b \in DOMAIN s :
                            SaidOfEvent(s[a], p, n, i) # SaidOfEvent(s[b], p, n, i)
  /\ \A d \in C : d.field \in DOMAIN Category
  /\ C = {} => \A a, b \in DOMAIN s : s[a] = s[b]
  /\ IsFiniteSet(C)

LEMMA ScoresCompared ==
  ASSUME NEW s, s \in [DOMAIN s -> Score], IsFiniteSet(DOMAIN s)
  PROVE  ScoresTold(s, Compare(s))
<1> DEFINE C == Compare(s)
           ms(p) == [c \in DOMAIN s |-> s[c][p]]
           rest == [p \in Ordinals(s) |-> MeasureDifferences(<<p>>, ms(p))]
<1>1. C = Level(<<>>, s, rest)
  <2>1. C = UNION {IF ~ AllHave(s, p) THEN Presence(<<p>>, s, p)
                   ELSE MeasureDifferences(<<p>>, [c \in DOMAIN s |-> s[c][p]])
                   : p \in Ordinals(s)}
    BY DEF Compare
  <2>2. \A p \in Ordinals(s) :
          rest[p] = MeasureDifferences(<<p>>, [c \in DOMAIN s |-> s[c][p]])
    OBVIOUS
  <2>3. \A p : Append(<<>>, p) = <<p>>
    BY PlacesApart
  <2> HIDE DEF rest, C, ms
  <2>4. \A p \in Ordinals(s) :
          (IF ~ AllHave(s, p) THEN Presence(<<p>>, s, p)
           ELSE MeasureDifferences(<<p>>, [c \in DOMAIN s |-> s[c][p]]))
            = (IF ~ AllHave(s, p) THEN Presence(Append(<<>>, p), s, p) ELSE rest[p])
    BY <2>2, <2>3
  <2> QED BY <2>1, <2>4 DEF Level
<1>2. \A p \in Ordinals(s) : rest[p] = MeasureDifferences(<<p>>, ms(p))
  OBVIOUS
<1>3. ASSUME NEW p, AllHave(s, p)
      PROVE  /\ \A c \in DOMAIN s : p \in DOMAIN s[c] /\ ms(p)[c] = s[c][p]
             /\ DOMAIN ms(p) = DOMAIN s
             /\ MeasuresTold(<<p>>, ms(p), MeasureDifferences(<<p>>, ms(p)))
  <2> DEFINE q == ms(p)
  <2>1. \A c \in DOMAIN s : p \in DOMAIN s[c] /\ s[c][p] \in Seq(ScoreMeasure)
    BY <1>3 DEF AllHave, Score
  <2>2. /\ DOMAIN q = DOMAIN s /\ \A c \in DOMAIN s : q[c] = s[c][p]
        /\ q \in [DOMAIN q -> Seq(ScoreMeasure)]
    BY <2>1
  <2>3. MeasuresTold(<<p>>, q, MeasureDifferences(<<p>>, q))
    <3> HIDE DEF q
    <3> QED BY <2>2, MeasuresCompared
  <2> QED BY <2>1, <2>2, <2>3
<1> HIDE DEF C, rest, ms
<1>4. ASSUME NEW p \in Ordinals(s), ~ AllHave(s, p)
      PROVE  \E d \in C : d.place = <<p>> /\ d.field = "presence"
  BY <1>1, <1>4, LevelShows, PlacesApart
<1>5. ASSUME NEW p \in Ordinals(s), AllHave(s, p)
      PROVE  MeasureDifferences(<<p>>, ms(p)) \subseteq C
  <2>1. rest[p] \subseteq C
    BY <1>1, <1>5, LevelShows
  <2> QED BY <1>2, <2>1
<1>6. ASSUME NEW d \in C
      PROVE  \E p \in Ordinals(s) :
          \/ /\ d.place = <<p>> /\ d.field = "presence"
             /\ \E a, b \in DOMAIN s : p \in DOMAIN s[a] /\ p \notin DOMAIN s[b]
          \/ AllHave(s, p) /\ d \in MeasureDifferences(<<p>>, ms(p))
  <2>1. PICK p \in Ordinals(s) :
          \/ /\ d.place = Append(<<>>, p) /\ d.field = "presence"
             /\ \E a, b \in DOMAIN s : p \in DOMAIN s[a] /\ p \notin DOMAIN s[b]
          \/ AllHave(s, p) /\ d \in rest[p]
    BY <1>1, LevelShows
  <2>2. Append(<<>>, p) = <<p>> /\ rest[p] = MeasureDifferences(<<p>>, ms(p))
    BY <1>2, PlacesApart
  <2> QED BY <2>1, <2>2
<1>7. ASSUME NEW a \in DOMAIN s, NEW b \in DOMAIN s, NEW p,
             p \in DOMAIN s[a] /\ p \notin DOMAIN s[b]
      PROVE  \E d \in C : d.place = <<p>> /\ d.field = "presence"
  <2>1. p \in Ordinals(s) /\ ~ AllHave(s, p)
    BY <1>7 DEF Ordinals, AllHave
  <2> QED BY <1>4, <2>1
<1>8. ASSUME NEW a \in DOMAIN s, NEW b \in DOMAIN s, NEW p, NEW n,
             SaidOfMeasure(s[a], p, n) # SaidOfMeasure(s[b], p, n)
      PROVE  \E d \in C : \/ d.place = <<p, n>>
                         \/ (d.place = <<p>> /\ d.field = "presence")
  <2>1. p \in Ordinals(s)
    BY <1>8 DEF SaidOfMeasure, Ordinals
  <2>2. CASE ~ AllHave(s, p)
    BY <1>4, <2>1, <2>2
  <2>3. CASE AllHave(s, p)
    <3> DEFINE q == ms(p)
               M == MeasureDifferences(<<p>>, q)
    <3>1. /\ MeasuresTold(<<p>>, q, M) /\ a \in DOMAIN q /\ b \in DOMAIN q /\ M \subseteq C
          /\ q[a] = s[a][p] /\ q[b] = s[b][p] /\ p \in DOMAIN s[a] /\ p \in DOMAIN s[b]
      BY <1>3, <1>5, <2>1, <2>3
    <3> HIDE DEF q, M
    <3>2. SaidAt(q[a], n, MeasureField) # SaidAt(q[b], n, MeasureField)
      BY <1>8, <3>1 DEF SaidOfMeasure
    <3>3. \E d \in M : d.place = Append(<<p>>, n)
      <4> DEFINE x == <<p>>
      <4> HIDE DEF x
      <4>1. MeasuresTold(x, q, M)
        BY <3>1 DEF x
      <4>2. \E d \in M : d.place = Append(x, n)
        BY <3>1, <3>2, <4>1 DEF MeasuresTold
      <4> QED BY <4>2 DEF x
    <3> QED BY <3>1, <3>3, PlacesApart
  <2> QED BY <2>2, <2>3
<1>9. ASSUME NEW a \in DOMAIN s, NEW b \in DOMAIN s, NEW p, NEW n, NEW i,
             SaidOfEvent(s[a], p, n, i) # SaidOfEvent(s[b], p, n, i)
      PROVE  \E d \in C : \/ d.place = <<p, n, i>>
                         \/ (d.place \in {<<p>>, <<p, n>>} /\ d.field = "presence")
  <2>1. p \in Ordinals(s)
    BY <1>9 DEF SaidOfEvent, Ordinals
  <2>2. CASE ~ AllHave(s, p)
    BY <1>4, <2>1, <2>2
  <2>3. CASE AllHave(s, p)
    <3> DEFINE q == ms(p)
               M == MeasureDifferences(<<p>>, q)
    <3>1. /\ MeasuresTold(<<p>>, q, M) /\ a \in DOMAIN q /\ b \in DOMAIN q /\ M \subseteq C
          /\ q[a] = s[a][p] /\ q[b] = s[b][p] /\ p \in DOMAIN s[a] /\ p \in DOMAIN s[b]
      BY <1>3, <1>5, <2>1, <2>3
    <3> HIDE DEF q, M
    <3>2. SaidIn(q[a], n, i) # SaidIn(q[b], n, i)
      BY <1>9, <3>1 DEF SaidOfEvent
    <3>3. \E d \in M : \/ d.place = Append(Append(<<p>>, n), i)
                      \/ (d.place = Append(<<p>>, n) /\ d.field = "presence")
      <4> DEFINE x == <<p>>
      <4> HIDE DEF x
      <4>1. MeasuresTold(x, q, M)
        BY <3>1 DEF x
      <4>2. \E d \in M : \/ d.place = Append(Append(x, n), i)
                        \/ (d.place = Append(x, n) /\ d.field = "presence")
        <5>1. \A c, e \in DOMAIN q : \A k, j : SaidIn(q[c], k, j) # SaidIn(q[e], k, j) =>
                \E d \in M : \/ d.place = Append(Append(x, k), j)
                            \/ (d.place = Append(x, k) /\ d.field = "presence")
          BY <4>1 DEF MeasuresTold
        <5>2. \A k, j : SaidIn(q[a], k, j) # SaidIn(q[b], k, j) =>
                \E d \in M : \/ d.place = Append(Append(x, k), j)
                            \/ (d.place = Append(x, k) /\ d.field = "presence")
          BY <3>1, <5>1
        <5> QED BY <3>2, <5>2
      <4> QED BY <4>2 DEF x
    <3>4. Append(<<p>>, n) = <<p, n>> /\ Append(<<p, n>>, i) = <<p, n, i>>
      BY PlacesApart
    <3> QED BY <3>1, <3>3, <3>4
  <2> QED BY <2>2, <2>3
<1>10. ASSUME NEW d \in C
       PROVE  /\ d.field \in DOMAIN Category
              /\ \/ \E p : /\ d.place = <<p>>
                           /\ \E a, b \in DOMAIN s : p \in DOMAIN s[a] /\ p \notin DOMAIN s[b]
                 \/ \E p, n : /\ d.place = <<p, n>>
                              /\ \E a, b \in DOMAIN s :
                                   SaidOfMeasure(s[a], p, n) # SaidOfMeasure(s[b], p, n)
                 \/ \E p, n, i : /\ d.place = <<p, n, i>>
                                 /\ \E a, b \in DOMAIN s :
                                      SaidOfEvent(s[a], p, n, i) # SaidOfEvent(s[b], p, n, i)
  <2>1. PICK p \in Ordinals(s) :
          \/ /\ d.place = <<p>> /\ d.field = "presence"
             /\ \E a, b \in DOMAIN s : p \in DOMAIN s[a] /\ p \notin DOMAIN s[b]
          \/ AllHave(s, p) /\ d \in MeasureDifferences(<<p>>, ms(p))
    BY <1>6
  <2>2. CASE /\ d.place = <<p>> /\ d.field = "presence"
             /\ \E a, b \in DOMAIN s : p \in DOMAIN s[a] /\ p \notin DOMAIN s[b]
    <3>1. "presence" \in DOMAIN Category
      BY DEF Category
    <3> QED BY <2>2, <3>1
  <2>3. CASE AllHave(s, p) /\ d \in MeasureDifferences(<<p>>, ms(p))
    <3> DEFINE q == ms(p)
               M == MeasureDifferences(<<p>>, q)
    <3>1. /\ MeasuresTold(<<p>>, q, M) /\ DOMAIN q = DOMAIN s /\ d \in M
          /\ \A c \in DOMAIN s : q[c] = s[c][p] /\ p \in DOMAIN s[c]
      BY <1>3, <2>3
    <3> HIDE DEF q, M
    <3>2. d.field \in DOMAIN Category
      BY <3>1 DEF MeasuresTold
    <3>3. \E n \in Ordinals(q) :
            \/ /\ d.place = Append(<<p>>, n)
               /\ \E a, b \in DOMAIN q :
                    SaidAt(q[a], n, MeasureField) # SaidAt(q[b], n, MeasureField)
            \/ \E i : /\ d.place = Append(Append(<<p>>, n), i)
                      /\ \E a, b \in DOMAIN q :
                           /\ n \in DOMAIN q[a] /\ i \in DOMAIN q[a][n].events
                           /\ SaidIn(q[a], n, i) # SaidIn(q[b], n, i)
      BY <3>1 DEF MeasuresTold
    <3>4. PICK n \in Ordinals(q) :
            \/ /\ d.place = Append(<<p>>, n)
               /\ \E a, b \in DOMAIN q :
                    SaidAt(q[a], n, MeasureField) # SaidAt(q[b], n, MeasureField)
            \/ \E i : /\ d.place = Append(Append(<<p>>, n), i)
                      /\ \E a, b \in DOMAIN q : SaidIn(q[a], n, i) # SaidIn(q[b], n, i)
      BY <3>3
    <3>5. Append(<<p>>, n) = <<p, n>> /\ \A i : Append(<<p, n>>, i) = <<p, n, i>>
      BY PlacesApart
    <3>6. CASE /\ d.place = Append(<<p>>, n)
               /\ \E a, b \in DOMAIN q :
                    SaidAt(q[a], n, MeasureField) # SaidAt(q[b], n, MeasureField)
      <4>1. \E a, b \in DOMAIN s : SaidOfMeasure(s[a], p, n) # SaidOfMeasure(s[b], p, n)
        BY <3>1, <3>6 DEF SaidOfMeasure
      <4> QED BY <3>2, <3>5, <3>6, <4>1
    <3>7. CASE \E i : /\ d.place = Append(Append(<<p>>, n), i)
                      /\ \E a, b \in DOMAIN q : SaidIn(q[a], n, i) # SaidIn(q[b], n, i)
      <4>1. PICK i : /\ d.place = Append(Append(<<p>>, n), i)
                     /\ \E a, b \in DOMAIN q : SaidIn(q[a], n, i) # SaidIn(q[b], n, i)
        BY <3>7
      <4>2. \E a, b \in DOMAIN s : SaidOfEvent(s[a], p, n, i) # SaidOfEvent(s[b], p, n, i)
        BY <3>1, <4>1 DEF SaidOfEvent
      <4>3. d.place = <<p, n, i>>
        BY <3>5, <4>1
      <4> QED BY <3>2, <4>2, <4>3
    <3> QED BY <3>4, <3>6, <3>7
  <2> QED BY <2>1, <2>2, <2>3
<1>11. ASSUME C = {}, NEW a \in DOMAIN s, NEW b \in DOMAIN s PROVE s[a] = s[b]
  <2>1. \A p \in Ordinals(s) : AllHave(s, p)
    BY <1>4, <1>11
  <2>2. ASSUME NEW p \in DOMAIN s[a] PROVE s[a][p] = s[b][p]
    <3>1. p \in Ordinals(s) /\ AllHave(s, p)
      BY <2>1 DEF Ordinals
    <3> DEFINE q == ms(p)
               M == MeasureDifferences(<<p>>, q)
    <3>2. /\ MeasuresTold(<<p>>, q, M) /\ a \in DOMAIN q /\ b \in DOMAIN q /\ M = {}
          /\ q[a] = s[a][p] /\ q[b] = s[b][p]
      BY <1>3, <1>5, <1>11, <3>1
    <3> HIDE DEF q, M
    <3> QED BY <3>2 DEF MeasuresTold
  <2> DEFINE V == Seq(ScoreMeasure)
  <2>3. s \in [DOMAIN s -> Seq(V)]
    BY DEF Score
  <2>4. a \in DOMAIN s /\ b \in DOMAIN s
    OBVIOUS
  <2> HIDE DEF V
  <2> QED BY <2>1, <2>2, <2>3, <2>4, SameOrdinals
<1>12. IsFiniteSet(C)
  <2>1. ASSUME NEW p \in Ordinals(s), AllHave(s, p) PROVE IsFiniteSet(rest[p])
    <3>1. MeasuresTold(<<p>>, ms(p), MeasureDifferences(<<p>>, ms(p)))
      BY <1>3, <2>1
    <3>2. IsFiniteSet(MeasureDifferences(<<p>>, ms(p)))
      BY <3>1 DEF MeasuresTold
    <3> QED BY <1>2, <3>2
  <2>2. s \in [DOMAIN s -> Seq(Seq(ScoreMeasure))]
    BY DEF Score
  <2> QED BY <1>1, <2>1, <2>2, LevelIsFinite
<1>13. ScoresTold(s, C)
  BY <1>7, <1>8, <1>9, <1>10, <1>11, <1>12 DEF ScoresTold
<1> QED BY <1>13 DEF C

-----------------------------------------------------------------------------
\* A place encloses itself, and the places of what is in it.
LEMMA EnclosesWithin ==
  /\ \A p : Encloses(<<p>>, <<p>>)
  /\ \A p, n : Encloses(<<p>>, <<p, n>>) /\ Encloses(<<p, n>>, <<p, n>>)
  /\ \A p, n, i : /\ Encloses(<<p>>, <<p, n, i>>) /\ Encloses(<<p, n>>, <<p, n, i>>)
                  /\ Encloses(<<p, n, i>>, <<p, n, i>>)
<1>1. ASSUME NEW S, NEW x \in Seq(S), NEW y \in Seq(S), Len(x) <= Len(y),
             \A k \in 1 .. Len(x) : y[k] = x[k]
      PROVE  Encloses(x, y)
  <2> DEFINE z == SubSeq(y, 1, Len(x))
  <2>1. z \in Seq(S) /\ Len(z) = Len(x) /\ \A k \in 1 .. Len(x) : z[k] = x[k]
    BY <1>1
  <2> HIDE DEF z
  <2>2. z = x
    BY <2>1
  <2> QED BY <1>1, <2>2 DEF Encloses, z
<1>2. ASSUME NEW p, NEW n, NEW i
      PROVE  /\ Encloses(<<p>>, <<p>>)
             /\ Encloses(<<p>>, <<p, n>>) /\ Encloses(<<p, n>>, <<p, n>>)
             /\ Encloses(<<p>>, <<p, n, i>>) /\ Encloses(<<p, n>>, <<p, n, i>>)
             /\ Encloses(<<p, n, i>>, <<p, n, i>>)
  <2> DEFINE S == {p, n, i}
             x1 == <<p>>
             x2 == <<p, n>>
             x3 == <<p, n, i>>
  <2>1. p \in S /\ n \in S /\ i \in S
    OBVIOUS
  <2> HIDE DEF S
  <2>2. x1 \in Seq(S) /\ x2 \in Seq(S) /\ x3 \in Seq(S)
    BY <2>1
  <2>3. Len(x1) = 1 /\ Len(x2) = 2 /\ Len(x3) = 3
    OBVIOUS
  <2>4. /\ \A k \in 1 .. 1 : x2[k] = x1[k] /\ x3[k] = x1[k]
        /\ \A k \in 1 .. 2 : x3[k] = x2[k]
    OBVIOUS
  <2> HIDE DEF x1, x2, x3
  <2>5. Encloses(x1, x1)
    BY <1>1, <2>2, <2>3
  <2>6. Encloses(x2, x2)
    BY <1>1, <2>2, <2>3
  <2>7. Encloses(x3, x3)
    BY <1>1, <2>2, <2>3
  <2>8. Encloses(x1, x2)
    BY <1>1, <2>2, <2>3, <2>4
  <2>9. Encloses(x1, x3)
    BY <1>1, <2>2, <2>3, <2>4
  <2>10. Encloses(x2, x3)
    BY <1>1, <2>2, <2>3, <2>4
  <2> QED BY <2>5, <2>6, <2>7, <2>8, <2>9, <2>10 DEF x1, x2, x3
<1> QED BY <1>2

\* Who says different things of a place of theirs has a difference at or around it.
LEMMA DisagreementFound ==
  ASSUME NEW s, s \in [DOMAIN s -> Score], IsFiniteSet(DOMAIN s),
         NEW e \in DOMAIN s, NEW x \in Places(s[e]),
         NEW c \in DOMAIN s, NEW d \in DOMAIN s, Said(s[c], x) # Said(s[d], x)
  PROVE  \E diff \in Compare(s) : /\ Encloses(diff.place, x)
                                  /\ diff.place # x => diff.field = "presence"
<1> DEFINE C == Compare(s)
<1>1. ScoresTold(s, C)
  BY ScoresCompared
<1> HIDE DEF C
<1>2. \/ \E p : x = <<p>>
      \/ \E p, n : x = <<p, n>>
      \/ \E p, n, i : x = <<p, n, i>>
  BY PlaceIsOneOf
<1>3. ASSUME NEW p, x = <<p>>
      PROVE  \E diff \in C : Encloses(diff.place, x) /\ (diff.place # x => diff.field = "presence")
  <2>1. \/ p \in DOMAIN s[c] /\ p \notin DOMAIN s[d]
        \/ p \in DOMAIN s[d] /\ p \notin DOMAIN s[c]
    BY <1>3, SaidByPlace
  <2>2. \E diff \in C : diff.place = <<p>>
    <3>1. \A a, b \in DOMAIN s : \A k : k \in DOMAIN s[a] /\ k \notin DOMAIN s[b] =>
            \E diff \in C : diff.place = <<k>> /\ diff.field = "presence"
      BY <1>1 DEF ScoresTold
    <3>2. /\ \A k : k \in DOMAIN s[c] /\ k \notin DOMAIN s[d] => \E diff \in C : diff.place = <<k>>
          /\ \A k : k \in DOMAIN s[d] /\ k \notin DOMAIN s[c] => \E diff \in C : diff.place = <<k>>
      BY <3>1
    <3> QED BY <2>1, <3>2
  <2> QED BY <1>3, <2>2, EnclosesWithin
<1>4. ASSUME NEW p, NEW n, x = <<p, n>>
      PROVE  \E diff \in C : Encloses(diff.place, x) /\ (diff.place # x => diff.field = "presence")
  <2>1. SaidOfMeasure(s[c], p, n) # SaidOfMeasure(s[d], p, n)
    BY <1>4, SaidByPlace
  <2>2. \A a, b \in DOMAIN s : \A k, m : SaidOfMeasure(s[a], k, m) # SaidOfMeasure(s[b], k, m) =>
          \E diff \in C : \/ diff.place = <<k, m>>
                         \/ (diff.place = <<k>> /\ diff.field = "presence")
    BY <1>1 DEF ScoresTold
  <2>3. \E diff \in C : \/ diff.place = <<p, n>>
                        \/ (diff.place = <<p>> /\ diff.field = "presence")
    <3>1. \A k, m : SaidOfMeasure(s[c], k, m) # SaidOfMeasure(s[d], k, m) =>
          \E diff \in C : \/ diff.place = <<k, m>>
                         \/ (diff.place = <<k>> /\ diff.field = "presence")
      BY <2>2
    <3>2. SaidOfMeasure(s[c], p, n) # SaidOfMeasure(s[d], p, n) =>
          \E diff \in C : \/ diff.place = <<p, n>>
                         \/ (diff.place = <<p>> /\ diff.field = "presence")
      BY <3>1
    <3> QED BY <2>1, <3>2
  <2>4. Encloses(<<p, n>>, <<p, n>>) /\ Encloses(<<p>>, <<p, n>>)
    BY EnclosesWithin
  <2>5. PICK diff \in C : \/ diff.place = <<p, n>>
                         \/ (diff.place = <<p>> /\ diff.field = "presence")
    BY <2>3
  <2> QED BY <1>4, <2>4, <2>5
<1>5. ASSUME NEW p, NEW n, NEW i, x = <<p, n, i>>
      PROVE  \E diff \in C : Encloses(diff.place, x) /\ (diff.place # x => diff.field = "presence")
  <2>1. SaidOfEvent(s[c], p, n, i) # SaidOfEvent(s[d], p, n, i)
    BY <1>5, SaidByPlace
  <2>2. \A a, b \in DOMAIN s : \A k, m, j :
          SaidOfEvent(s[a], k, m, j) # SaidOfEvent(s[b], k, m, j) =>
            \E diff \in C : \/ diff.place = <<k, m, j>>
                           \/ (diff.place \in {<<k>>, <<k, m>>} /\ diff.field = "presence")
    BY <1>1 DEF ScoresTold
  <2>3. \E diff \in C : \/ diff.place = <<p, n, i>>
                        \/ (diff.place \in {<<p>>, <<p, n>>} /\ diff.field = "presence")
    <3>1. \A k, m, j : SaidOfEvent(s[c], k, m, j) # SaidOfEvent(s[d], k, m, j) =>
            \E diff \in C : \/ diff.place = <<k, m, j>>
                           \/ (diff.place \in {<<k>>, <<k, m>>} /\ diff.field = "presence")
      BY <2>2
    <3>2. SaidOfEvent(s[c], p, n, i) # SaidOfEvent(s[d], p, n, i) =>
            \E diff \in C : \/ diff.place = <<p, n, i>>
                           \/ (diff.place \in {<<p>>, <<p, n>>} /\ diff.field = "presence")
      BY <3>1
    <3> QED BY <2>1, <3>2
  <2>4. /\ Encloses(<<p, n, i>>, <<p, n, i>>)
        /\ Encloses(<<p>>, <<p, n, i>>) /\ Encloses(<<p, n>>, <<p, n, i>>)
    BY EnclosesWithin
  <2>5. PICK diff \in C : \/ diff.place = <<p, n, i>>
                         \/ (diff.place \in {<<p>>, <<p, n>>} /\ diff.field = "presence")
    BY <2>3
  <2> QED BY <1>5, <2>4, <2>5
<1> QED BY <1>2, <1>3, <1>4, <1>5 DEF C

\* A difference is shown only where two scores say different things.
LEMMA DifferenceIsReal ==
  ASSUME NEW s, s \in [DOMAIN s -> Score], IsFiniteSet(DOMAIN s), NEW diff \in Compare(s)
  PROVE  \E c, d \in DOMAIN s : Said(s[c], diff.place) # Said(s[d], diff.place)
<1>1. \/ \E p : /\ diff.place = <<p>>
                /\ \E a, b \in DOMAIN s : p \in DOMAIN s[a] /\ p \notin DOMAIN s[b]
      \/ \E p, n : /\ diff.place = <<p, n>>
                   /\ \E a, b \in DOMAIN s : SaidOfMeasure(s[a], p, n) # SaidOfMeasure(s[b], p, n)
      \/ \E p, n, i : /\ diff.place = <<p, n, i>>
                      /\ \E a, b \in DOMAIN s :
                           SaidOfEvent(s[a], p, n, i) # SaidOfEvent(s[b], p, n, i)
  BY ScoresCompared DEF ScoresTold
<1>2. ASSUME NEW p, diff.place = <<p>>, NEW a \in DOMAIN s, NEW b \in DOMAIN s,
             p \in DOMAIN s[a] /\ p \notin DOMAIN s[b]
      PROVE  Said(s[a], diff.place) # Said(s[b], diff.place)
  <2>1. Said(s[a], <<p>>) = {"part"} /\ Said(s[b], <<p>>) = {"nothing"}
    BY <1>2, SaidByPlace
  <2>2. {"part"} # {"nothing"}
    OBVIOUS
  <2> QED BY <1>2, <2>1, <2>2
<1>3. ASSUME NEW p, NEW n, diff.place = <<p, n>>, NEW a \in DOMAIN s, NEW b \in DOMAIN s,
             SaidOfMeasure(s[a], p, n) # SaidOfMeasure(s[b], p, n)
      PROVE  Said(s[a], diff.place) # Said(s[b], diff.place)
  BY <1>3, SaidByPlace
<1>4. ASSUME NEW p, NEW n, NEW i, diff.place = <<p, n, i>>, NEW a \in DOMAIN s, NEW b \in DOMAIN s,
             SaidOfEvent(s[a], p, n, i) # SaidOfEvent(s[b], p, n, i)
      PROVE  Said(s[a], diff.place) # Said(s[b], diff.place)
  BY <1>4, SaidByPlace
<1> QED BY <1>1, <1>2, <1>3, <1>4

\* Scores are the same exactly if no difference is found, and each that is found counts.
LEMMA DifferencesDecide ==
  ASSUME NEW s, s \in [DOMAIN s -> Score], IsFiniteSet(DOMAIN s)
  PROVE  /\ Compare(s) = {} <=> \A c, d \in DOMAIN s : s[c] = s[d]
         /\ Compare(s) = {} <=> /\ Counted(Compare(s), Structural) = 0
                               /\ Counted(Compare(s), Musical) = 0
<1> DEFINE C == Compare(s)
           In(k) == {d \in C : Category[d.field] \in k}
<1>1. ScoresTold(s, C)
  BY ScoresCompared
<1>2. ASSUME \A c, d \in DOMAIN s : s[c] = s[d] PROVE C = {}
  BY <1>2, DifferenceIsReal
<1> HIDE DEF C
<1>3. ASSUME C = {} PROVE \A c, d \in DOMAIN s : s[c] = s[d]
  BY <1>1, <1>3 DEF ScoresTold
<1>4. ASSUME NEW k PROVE Counted(C, k) = 0 <=> In(k) = {}
  <2>1. IsFiniteSet(C) /\ In(k) \in SUBSET C
    BY <1>1 DEF ScoresTold
  <2>2. IsFiniteSet(In(k))
    <3> HIDE DEF In
    <3> QED BY <2>1, FS_Subset
  <2>3. Cardinality(In(k)) = 0 <=> In(k) = {}
    <3> HIDE DEF In
    <3> QED BY <2>2, FS_EmptySet
  <2> QED BY <2>3 DEF Counted
<1>5. \A f \in DOMAIN Category : Category[f] \in Structural \/ Category[f] \in Musical
  BY DEF Category, Structural, Musical
<1>6. \A d \in C : d.field \in DOMAIN Category
  BY <1>1 DEF ScoresTold
<1>7. C = {} <=> In(Structural) = {} /\ In(Musical) = {}
  BY <1>5, <1>6
<1> HIDE DEF In
<1> QED BY <1>2, <1>3, <1>4, <1>7 DEF C

\* A comparison holds what its scores say.
ComparedInv ==
  /\ given \in Seq(Handoff)
  /\ converged.status = "compared" =>
       /\ converged.scores \in [DOMAIN converged.scores -> Score]
       /\ IsFiniteSet(DOMAIN converged.scores)
       /\ converged.differences = Compare(converged.scores)
       /\ converged.agreement = IF converged.differences = {} THEN "full" ELSE "disagreement"
       /\ converged.structural = Counted(converged.differences, Structural)
       /\ converged.musical = Counted(converged.differences, Musical)

\* The scores that are compared are scores, of engines.
LEMMA AdmittedScores ==
  ASSUME given \in Seq(Handoff)
  PROVE  Admitted \in [DOMAIN Admitted -> Score] /\ IsFiniteSet(DOMAIN Admitted)
<1> DEFINE accepted == {i \in DOMAIN given : given[i].document.readable}
           E == {given[i].engine : i \in accepted}
           of(e) == CHOOSE h \in {given[i] : i \in accepted} : h.engine = e
<1>1. Admitted = [e \in E |-> of(e).document.score]
  BY DEF Admitted
<1>2. \A i \in accepted : given[i] \in Handoff /\ given[i].document.readable
  OBVIOUS
<1>3. ASSUME NEW e \in E PROVE of(e).document.score \in Score
  <2>1. \E h \in {given[i] : i \in accepted} : h.engine = e
    OBVIOUS
  <2>2. of(e) \in {given[i] : i \in accepted}
    BY <2>1
  <2>3. of(e) \in Handoff /\ of(e).document.readable
    BY <1>2, <2>2
  <2> QED BY <2>3, DocumentAssumption DEF Handoff
<1>4. E \subseteq Engine
  BY <1>2 DEF Handoff
<1>5. IsFiniteSet(Engine)
  <2>1. Engine = (({} \union {"audiveris"}) \union {"homr"}) \union {"clarity"}
    BY DEF Engine, Rank
  <2>2. IsFiniteSet({}) /\ \A S, x : IsFiniteSet(S) => IsFiniteSet(S \union {x})
    BY FS_EmptySet, FS_AddElement
  <2> QED BY <2>1, <2>2
<1>6. DOMAIN Admitted = E
  BY <1>1
<1>7. IsFiniteSet(E)
  <2> HIDE DEF E
  <2> QED BY <1>4, <1>5, FS_Subset
<1> HIDE DEF E, of
<1> QED BY <1>1, <1>3, <1>6, <1>7

\* Of any handoffs: a comparison is of scores, holds all that Compare finds
\* between them, and its counts and its agreement are counted from that.
THEOREM ComparisonInvariant == ComparisonSpec => []ComparedInv
<1>1. ComparisonInit => ComparedInv
  BY DEF ComparisonInit, ComparedInv, NotConverged
<1>2. ComparedInv /\ [ComparisonNext]_comparisonVars => ComparedInv'
  <2> SUFFICES ASSUME ComparedInv, [ComparisonNext]_comparisonVars PROVE ComparedInv'
    OBVIOUS
  <2>1. CASE Give
    BY <2>1 DEF Give, ComparedInv, NotConverged
  <2>2. CASE Converge
    <3>1. given' = <<>> /\ converged' = Outcome
      BY <2>2 DEF Converge
    <3>2. Outcome.status = "compared" =>
            Outcome = [status      |-> "compared",
                       scores      |-> Admitted,
                       differences |-> Compare(Admitted),
                       agreement   |-> IF Compare(Admitted) = {} THEN "full" ELSE "disagreement",
                       structural  |-> Counted(Compare(Admitted), Structural),
                       musical     |-> Counted(Compare(Admitted), Musical)]
      BY DEF Outcome, Evidence, Refusal
    <3>3. Admitted \in [DOMAIN Admitted -> Score] /\ IsFiniteSet(DOMAIN Admitted)
      BY AdmittedScores DEF ComparedInv
    <3> QED BY <3>1, <3>2, <3>3 DEF ComparedInv
  <2>3. CASE UNCHANGED comparisonVars
    BY <2>3 DEF comparisonVars, ComparedInv
  <2> QED BY <2>1, <2>2, <2>3 DEF ComparisonNext
<1> QED BY <1>1, <1>2, PTL DEF ComparisonSpec

\* Of any scores: whatever two candidates disagree on is shown, nothing else
\* is, and full agreement is said exactly of candidates that say the same.
THEOREM DisagreementIsAlwaysShown == ComparisonSpec => []DisagreementIsShown
<1>1. ComparedInv => DisagreementIsShown
  <2> SUFFICES ASSUME ComparedInv, converged.status = "compared" PROVE DisagreementIsShown
    BY DEF DisagreementIsShown
  <2> DEFINE s == converged.scores
  <2>1. /\ s \in [DOMAIN s -> Score] /\ IsFiniteSet(DOMAIN s)
        /\ converged.differences = Compare(s)
        /\ converged.agreement = IF Compare(s) = {} THEN "full" ELSE "disagreement"
        /\ converged.structural = Counted(Compare(s), Structural)
        /\ converged.musical = Counted(Compare(s), Musical)
    BY DEF ComparedInv
  <2> HIDE DEF s
  <2>2. \A x \in UNION {Places(s[c]) : c \in DOMAIN s} :
          (\E c, d \in DOMAIN s : Said(s[c], x) # Said(s[d], x)) =>
             \E diff \in converged.differences :
               /\ Encloses(diff.place, x)
               /\ diff.place # x => diff.field = "presence"
    BY <2>1, DisagreementFound
  <2>3. \A diff \in converged.differences :
          \E c, d \in DOMAIN s : Said(s[c], diff.place) # Said(s[d], diff.place)
    BY <2>1, DifferenceIsReal
  <2>4. /\ converged.agreement = "full" <=> \A c, d \in DOMAIN s : s[c] = s[d]
        /\ converged.agreement = "full" <=> converged.structural = 0 /\ converged.musical = 0
    BY <2>1, DifferencesDecide
  <2> QED BY <2>2, <2>3, <2>4 DEF DisagreementIsShown, s
<1> QED BY ComparisonInvariant, <1>1, PTL

=============================================================================
