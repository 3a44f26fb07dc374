----------------------------- MODULE JobProofs ------------------------------
(***************************************************************************)
(* Theorems about the state of a job, about the way of its document into   *)
(* the staging store, and about the proof of its dispatch: for any set of  *)
(* runs, callers, keys, payloads, documents and deliveries, and for any    *)
(* clocks, nonces and preflights.                                          *)
(*                                                                         *)
(* The argument for the state: every run stands at a pair of a state and   *)
(* a revision that the table of revisions has, and no edge of the graph    *)
(* leads out of these pairs.                                               *)
(*                                                                         *)
(* The argument for the intake: a call past its admission has its key      *)
(* bound to its payload, and one past its finalization has its document    *)
(* in the record of its session, and neither is ever taken back; so what   *)
(* a source is named after was decided by the key alone.                   *)
(*                                                                         *)
(* The argument for the dispatch: a proof is fresh for less time than its  *)
(* reservation is kept, so whoever finds no reservation of a nonce finds   *)
(* none that was made, unless it is too late to accept.                    *)
(***************************************************************************)
EXTENDS DurableJobState, SourceIntake, DispatchProof, TLAPS

-----------------------------------------------------------------------------
(* The state of a job.                                                     *)

JobInv == TypeOK /\ PositionsValid

\* A legal transition leads from a position to a valid one, one revision on.
LEMMA SuccessorIsValid ==
  ASSUME NEW x, NEW s, ValidTransition(x, s)
  PROVE  /\ ValidPosition(Successor(x, s))
         /\ Successor(x, s) \in Position
         /\ Successor(x, s).revision = x.revision + 1
         /\ x.state \in NonTerminal
<1>1. x \in Position /\ x.revision \in ValidRevisions(x.state)
  BY DEF ValidTransition, ValidPosition
<1>2. s \in State /\ x.state \in NonTerminal
  BY <1>1 DEF ValidTransition, Targets, Position, State, NonTerminal, Terminal
<1>3. x.revision + 1 \in 0..MaxRevision
  BY <1>1, <1>2 DEF ValidTransition, ValidRevisions, RevisionTable, MaxRevision,
     State, NonTerminal, Terminal
<1>4. Successor(x, s) \in Position
  BY <1>2, <1>3 DEF Successor, Position
<1>5. Successor(x, s).revision = x.revision + 1 /\ Successor(x, s).state = s
  BY DEF Successor
<1> QED
  BY <1>2, <1>4, <1>5 DEF ValidTransition, ValidPosition

\* A run that moves makes a legal transition, the others stand still.
LEMMA OneRunMoves ==
  ASSUME TypeOK, NEW q \in Run, NEW s, Transition(q, s), NEW r \in Run
  PROVE  \/ snapshot'[r] = snapshot[r]
         \/ /\ ValidTransition(snapshot[r], s)
            /\ snapshot'[r] = Successor(snapshot[r], s)
BY DEF TypeOK, Transition

\* The positions stay valid through every step.
THEOREM JobStateInvariance == Spec => []JobInv
<1>1. Init => JobInv
  BY DEF Init, JobInv, TypeOK, PositionsValid, ValidPosition, ValidRevisions,
     RevisionTable, Planned, Position, State, NonTerminal, Terminal, MaxRevision
<1>2. JobInv /\ [Next]_snapshot => JobInv'
  <2> SUFFICES ASSUME JobInv, [Next]_snapshot PROVE JobInv'
    OBVIOUS
  <2>1. CASE UNCHANGED snapshot
    BY <2>1 DEF JobInv, TypeOK, PositionsValid
  <2>2. ASSUME NEW q \in Run, NEW s \in State, Transition(q, s) PROVE JobInv'
    <3>1. \A r \in Run : ValidPosition(snapshot'[r]) /\ snapshot'[r] \in Position
      BY <2>2, OneRunMoves, SuccessorIsValid DEF JobInv, PositionsValid, TypeOK
    <3>2. snapshot' = [r \in Run |-> snapshot'[r]]
      BY <2>2 DEF Transition, JobInv, TypeOK
    <3> QED BY <3>1, <3>2 DEF JobInv, TypeOK, PositionsValid
  <2> QED BY <2>1, <2>2 DEF Next
<1> QED BY <1>1, <1>2, PTL DEF Spec

\* Every snapshot the transitions build passes the constructor's own check.
THEOREM PositionsStayValid == Spec => []PositionsValid
<1>1. JobInv => PositionsValid
  BY DEF JobInv
<1> QED BY <1>1, JobStateInvariance, PTL

\* The revision table never vetoes an edge of the graph out of a position a
\* run can be in.
THEOREM TablesNeverDisagree == Spec => []TablesAgree
<1>1. ASSUME JobInv PROVE TablesAgree
  <2> SUFFICES ASSUME NEW r \in Run, NEW s \in Targets(snapshot[r].state)
               PROVE  snapshot[r].revision + 1 \in ValidRevisions(s)
    BY DEF TablesAgree
  <2>1. /\ snapshot[r].state \in State
        /\ snapshot[r].revision \in 0..4
        /\ snapshot[r].revision \in ValidRevisions(snapshot[r].state)
    BY <1>1 DEF JobInv, TypeOK, PositionsValid, ValidPosition, Position, MaxRevision
  <2> QED
    BY <2>1 DEF Targets, ValidRevisions, RevisionTable, State, NonTerminal, Terminal
<1> QED BY <1>1, JobStateInvariance, PTL

\* A revision of a run is decided once, and a terminal state is final.
THEOREM DecidedOnce == Spec => RevisionsDecideOnce
<1>1. JobInv /\ [Next]_snapshot =>
        [\A r \in Run :
            snapshot'[r] # snapshot[r] =>
               /\ snapshot'[r].revision = snapshot[r].revision + 1
               /\ snapshot[r].state \in NonTerminal]_snapshot
  BY OneRunMoves, SuccessorIsValid DEF JobInv, Next
<1> QED BY <1>1, JobStateInvariance, PTL DEF Spec, RevisionsDecideOnce

-----------------------------------------------------------------------------
(* The intake.                                                             *)

\* A call before it is authenticated or after it was refused; any other call.
Blank == {[pc |-> "new"], RefusedCall}
Carried ==
  [pc : {"authenticated", "authorized", "rated", "admitted", "session", "inspected",
         "finalized", "done"},
   who : Caller, since : Nat, until : Nat, key : IntakeKey, body : Body, doc : Doc, at : Nat,
   answer : {"none", "written", "replay"}]

IntakeTyped ==
  /\ clock \in Nat
  /\ call \in [Delivery -> Blank \union Carried]
  /\ boundTo \in [Caller -> [IntakeKey -> Body \union {FreeKey}]]
  /\ session \in [SessionId -> Nat]
  /\ final \in [SessionId -> (Doc \X Nat) \union {NotFinal}]
  /\ source \subseteq [session : SessionId, doc : Doc]

\* The key of session i is bound to its payload.
Bound(i) == boundTo[i[1]][i[2]] = i[3]

\* Session i was finalized with document d.
FinalDoc(i, d) == final[i] # NotFinal /\ final[i][1] = d

Past(c, points) == call[c] \in Carried /\ call[c].pc \in points

\* A call beyond its admission has its key bound to its payload, one beyond
\* its finalization has its document in the session's record.
CallsBound ==
  \A c \in Delivery :
    /\ Past(c, {"admitted", "session", "inspected", "finalized"}) => Bound(SessionOf(c))
    /\ Past(c, {"finalized"}) => FinalDoc(SessionOf(c), call[c].doc)

\* So has every source.
SourcesBound == \A s \in source : Bound(s.session) /\ FinalDoc(s.session, s.doc)

ServedHasSource == \A c \in Served : JobOf(c) \in source

IntakeInv == IntakeTyped /\ CallsBound /\ SourcesBound /\ ServedHasSource

-----------------------------------------------------------------------------

LEMMA CarriedUnlessBlank ==
  ASSUME IntakeTyped, NEW c \in Delivery, call[c].pc \notin {"new", "done"}
  PROVE  /\ call[c] \in Carried /\ SessionOf(c) \in SessionId
         /\ SessionOf(c)[1] = call[c].who /\ SessionOf(c)[2] = call[c].key
         /\ SessionOf(c)[3] = call[c].body
<1>1. call[c] \in Carried
  BY DEF IntakeTyped, Blank, RefusedCall
<1>2. QED
  BY <1>1 DEF Carried, SessionOf, SessionId

\* What a step of c leaves of the other calls, and of what c carries.
LEMMA Reached ==
  ASSUME IntakeTyped, NEW c \in Delivery, call[c] \in Carried, NEW p, Reach(c, p),
         p \in {"authorized", "admitted", "session", "inspected", "finalized"}
  PROVE  /\ call' \in [Delivery -> Blank \union Carried]
         /\ call'[c] \in Carried /\ call'[c].pc = p
         /\ SessionOf(c)' = SessionOf(c) /\ call'[c].doc = call[c].doc
         /\ \A d \in Delivery \ {c} : call'[d] = call[d]
<1>1. call' = [call EXCEPT ![c] = [call[c] EXCEPT !.pc = p]]
  BY DEF Reach
<1>2. /\ [call[c] EXCEPT !.pc = p] \in Carried /\ [call[c] EXCEPT !.pc = p].pc = p
      /\ [call[c] EXCEPT !.pc = p].who = call[c].who /\ [call[c] EXCEPT !.pc = p].key = call[c].key
      /\ [call[c] EXCEPT !.pc = p].body = call[c].body /\ [call[c] EXCEPT !.pc = p].doc = call[c].doc
  BY DEF Carried
<1>3. call'[c] = [call[c] EXCEPT !.pc = p] /\ \A d \in Delivery \ {c} : call'[d] = call[d]
  BY <1>1 DEF IntakeTyped
<1>4. call' \in [Delivery -> Blank \union Carried]
  BY <1>1, <1>2 DEF IntakeTyped
<1>5. QED
  BY <1>2, <1>3, <1>4 DEF SessionOf

LEMMA Refused ==
  ASSUME IntakeTyped, NEW c \in Delivery, RefuseCall(c)
  PROVE  /\ call' \in [Delivery -> Blank \union Carried]
         /\ call'[c].pc = "done" /\ call'[c].answer = "refused" /\ call'[c] \notin Carried
         /\ \A d \in Delivery \ {c} : call'[d] = call[d]
<1>1. call' = [call EXCEPT ![c] = RefusedCall]
  BY DEF RefuseCall
<1>2. RefusedCall.pc = "done" /\ RefusedCall.answer = "refused" /\ RefusedCall \notin Carried
  BY DEF RefusedCall, Carried
<1>3. QED
  BY <1>1, <1>2 DEF IntakeTyped, Blank

\* The invariant survives a step of c that lets no record be taken back, once
\* c itself and the new sources have been looked at.
LEMMA IntakeUndisturbed ==
  ASSUME IntakeInv, NEW c \in Delivery, IntakeTyped',
         \A d \in Delivery \ {c} : call'[d] = call[d],
         \A i \in SessionId : Bound(i) => Bound(i)',
         \A i \in SessionId, d \in Doc : FinalDoc(i, d) => FinalDoc(i, d)',
         source \subseteq source',
         \A s \in source' \ source : Bound(s.session)' /\ FinalDoc(s.session, s.doc)',
         Past(c, {"admitted", "session", "inspected", "finalized"})' => Bound(SessionOf(c))',
         Past(c, {"finalized"})' => FinalDoc(SessionOf(c), call[c].doc)',
         c \in Served' => JobOf(c)' \in source'
  PROVE  IntakeInv'
<1>1. CallsBound'
  <2>1. ASSUME NEW d \in Delivery \ {c}
        PROVE  /\ Past(d, {"admitted", "session", "inspected", "finalized"})' => Bound(SessionOf(d))'
               /\ Past(d, {"finalized"})' => FinalDoc(SessionOf(d), call[d].doc)'
    <3>1. call'[d] = call[d] /\ SessionOf(d)' = SessionOf(d)
      BY DEF SessionOf
    <3>2. call[d] \in Carried => SessionOf(d) \in SessionId /\ call[d].doc \in Doc
      BY DEF SessionOf, SessionId, Carried
    <3>3. QED
      BY <3>1, <3>2 DEF IntakeInv, CallsBound, Past, Bound, FinalDoc
  <2>2. QED
    BY <2>1 DEF CallsBound
<1>2. SourcesBound'
  BY DEF IntakeInv, IntakeTyped, SourcesBound
<1>3. ServedHasSource'
  <2>1. ASSUME NEW d \in Delivery \ {c}, d \in Served'
        PROVE  JobOf(d)' \in source'
    <3>1. d \in Served /\ JobOf(d)' = JobOf(d)
      BY <2>1 DEF Served, At, JobOf, SessionOf
    <3>2. QED
      BY <3>1 DEF IntakeInv, ServedHasSource
  <2>2. QED
    BY <2>1 DEF ServedHasSource, Served
<1>4. QED
  BY <1>1, <1>2, <1>3 DEF IntakeInv

\* A call that is refused, or only goes on, when no store is changed but rate.
LEMMA IntakeRefuses ==
  ASSUME IntakeInv, NEW c \in Delivery, RefuseCall(c),
         UNCHANGED <<clock, boundTo, session, final, source>>
  PROVE  IntakeInv'
<1>1. /\ call' \in [Delivery -> Blank \union Carried] /\ call'[c] \notin Carried
      /\ call'[c].answer = "refused" /\ \A d \in Delivery \ {c} : call'[d] = call[d]
  BY Refused DEF IntakeInv
<1>2. IntakeTyped'
  BY <1>1 DEF IntakeInv, IntakeTyped
<1>3. QED
  BY <1>1, <1>2, IntakeUndisturbed DEF Past, Served, Bound, FinalDoc

LEMMA IntakeInitially == IntakeInit => IntakeInv
<1>1. ASSUME IntakeInit
      PROVE  IntakeInv
  <2>1. Never \in Nat
    BY IntakeTimesAssumption DEF Never
  <2>2. IntakeTyped
    BY <1>1, <2>1 DEF IntakeInit, IntakeTyped, Blank
  <2>3. \A c \in Delivery : call[c].pc = "new" /\ call[c] \notin Carried
    BY <1>1 DEF IntakeInit, Carried
  <2>4. QED
    BY <1>1, <2>2, <2>3 DEF IntakeInit, IntakeInv, CallsBound, SourcesBound, ServedHasSource,
                            Past, Served, At
<1>2. QED
  BY <1>1

LEMMA IntakeAuthenticates ==
  ASSUME IntakeInv, NEW c \in Delivery, Authenticate(c)
  PROVE  IntakeInv'
<1>1. PICK i \in Identity, k \in IntakeKey, b \in Body, d \in Doc :
        call' = [call EXCEPT ![c] = IF IdentityHolds(i) THEN Principal(i, k, b, d)
                                    ELSE RefusedCall]
  BY DEF Authenticate
<1>2. UNCHANGED <<clock, boundTo, session, final, source>>
  BY DEF Authenticate, intakeStores
<1>3. CASE ~IdentityHolds(i)
  BY <1>1, <1>2, <1>3, IntakeRefuses DEF RefuseCall
<1>4. CASE IdentityHolds(i)
  <2>1. call' = [call EXCEPT ![c] = Principal(i, k, b, d)]
    BY <1>1, <1>4
  <2>2. i.who \in Caller /\ i.until \in Nat /\ clock \in Nat
    <3>1. i.who \in Caller /\ i.until \in {clock + l : l \in Life}
      BY DEF Identity
    <3>2. clock \in Nat /\ Life \subseteq Nat
      BY IntakeTimesAssumption DEF IntakeInv, IntakeTyped
    <3>3. QED
      BY <3>1, <3>2
  <2>3. Principal(i, k, b, d) \in Carried /\ Principal(i, k, b, d).pc = "authenticated"
    BY <2>2 DEF Principal, Carried
  <2>4. /\ IntakeTyped' /\ call'[c].pc = "authenticated"
        /\ \A e \in Delivery \ {c} : call'[e] = call[e]
    BY <1>2, <2>1, <2>3 DEF IntakeInv, IntakeTyped
  <2>5. QED
    BY <1>2, <2>4, IntakeUndisturbed DEF Past, Served, At, Bound, FinalDoc
<1>5. QED
  BY <1>3, <1>4

\* A step of c to p, where the stores that bind are as they were.
LEMMA IntakeReaches ==
  ASSUME IntakeInv, NEW c \in Delivery, call[c].pc \notin {"new", "done"},
         NEW p \in {"authorized", "admitted", "session", "inspected", "finalized"}, Reach(c, p),
         clock' = clock, IntakeTyped',
         \A i \in SessionId : Bound(i) => Bound(i)',
         \A i \in SessionId, d \in Doc : FinalDoc(i, d) => FinalDoc(i, d)',
         source' = source,
         p # "authorized" => Bound(SessionOf(c))',
         p = "finalized" => FinalDoc(SessionOf(c), call[c].doc)'
  PROVE  IntakeInv'
<1>1. call[c] \in Carried
  BY CarriedUnlessBlank DEF IntakeInv
<1>2. /\ call'[c].pc = p /\ \A d \in Delivery \ {c} : call'[d] = call[d]
  BY <1>1, Reached DEF IntakeInv
<1>3. QED
  BY <1>2, IntakeUndisturbed DEF Past, Served, At

LEMMA IntakeAuthorizes ==
  ASSUME IntakeInv, NEW c \in Delivery, AuthorizeCall(c)
  PROVE  IntakeInv'
<1>1. call[c].pc = "authenticated" /\ UNCHANGED <<clock, boundTo, session, final, source>>
  BY DEF AuthorizeCall, At, intakeStores
<1>2. CASE RefuseCall(c)
  BY <1>1, <1>2, IntakeRefuses
<1>3. CASE Reach(c, "authorized")
  <2>1. call' \in [Delivery -> Blank \union Carried]
    BY <1>1, <1>3, CarriedUnlessBlank, Reached DEF IntakeInv
  <2>2. IntakeTyped'
    BY <1>1, <2>1 DEF IntakeInv, IntakeTyped
  <2>3. QED
    BY <1>1, <1>3, <2>2, IntakeReaches DEF Bound, FinalDoc
<1>4. QED
  BY <1>2, <1>3 DEF AuthorizeCall

LEMMA IntakeRates ==
  ASSUME IntakeInv, NEW c \in Delivery, ReserveRate(c)
  PROVE  IntakeInv'
<1>1. call[c].pc = "authorized" /\ UNCHANGED <<clock, boundTo, session, final, source>>
  BY DEF ReserveRate, At
<1>2. CASE RefuseCall(c)
  BY <1>1, <1>2, IntakeRefuses
<1>3. CASE call' = [call EXCEPT ![c].pc = "rated", ![c].at = clock]
  <2>1. call[c] \in Carried /\ clock \in Nat
    BY <1>1, CarriedUnlessBlank DEF IntakeInv, IntakeTyped
  <2>2. /\ [call[c] EXCEPT !.pc = "rated", !.at = clock] \in Carried
        /\ [call[c] EXCEPT !.pc = "rated", !.at = clock].pc = "rated"
    BY <2>1 DEF Carried
  <2>3. call' = [call EXCEPT ![c] = [call[c] EXCEPT !.pc = "rated", !.at = clock]]
    BY <1>3 DEF IntakeInv, IntakeTyped
  <2>4. /\ IntakeTyped' /\ call'[c].pc = "rated"
        /\ \A e \in Delivery \ {c} : call'[e] = call[e]
    BY <1>1, <2>2, <2>3 DEF IntakeInv, IntakeTyped
  <2>5. QED
    BY <1>1, <2>4, IntakeUndisturbed DEF Past, Served, At, Bound, FinalDoc
<1>4. QED
  BY <1>2, <1>3 DEF ReserveRate

LEMMA IntakeKeys ==
  ASSUME IntakeInv, NEW c \in Delivery, ReserveKey(c)
  PROVE  IntakeInv'
<1>1. call[c].pc = "rated" /\ UNCHANGED <<clock, rate, session, final, source>>
  BY DEF ReserveKey, At
<1>2. CASE ~SameBody(c)
  BY <1>1, <1>2, IntakeRefuses DEF ReserveKey
<1>3. CASE SameBody(c)
  <2> DEFINE w == call[c].who
             k == call[c].key
             b == call[c].body
  <2>1. /\ call[c] \in Carried /\ w \in Caller /\ k \in IntakeKey /\ b \in Body
        /\ SessionOf(c) = <<w, k, b>>
    BY <1>1, CarriedUnlessBlank DEF IntakeInv, Carried, SessionOf
  <2>2. boundTo' = [boundTo EXCEPT ![w][k] = b] /\ boundTo[w][k] \in {FreeKey, b}
    BY <1>3 DEF ReserveKey, SameBody
  <2> HIDE DEF w, k, b
  <2>3. /\ boundTo' \in [Caller -> [IntakeKey -> Body \union {FreeKey}]]
        /\ boundTo'[w][k] = b
        /\ \A x \in Caller, y \in IntakeKey : <<x, y>> # <<w, k>> => boundTo'[x][y] = boundTo[x][y]
    BY <2>1, <2>2 DEF IntakeInv, IntakeTyped
  <2>4. ASSUME NEW i \in SessionId, Bound(i)
        PROVE  Bound(i)'
    <3>1. i[1] \in Caller /\ i[2] \in IntakeKey /\ i[3] \in Body /\ boundTo[i[1]][i[2]] = i[3]
      BY <2>4 DEF SessionId, Bound
    <3>2. CASE i[1] = w /\ i[2] = k
      BY <2>2, <2>3, <3>1, <3>2, FreeKeyAssumption DEF Bound
    <3>3. CASE ~(i[1] = w /\ i[2] = k)
      BY <2>3, <3>1, <3>3 DEF Bound
    <3>4. QED
      BY <3>2, <3>3
  <2>5. \A i \in SessionId, d \in Doc : FinalDoc(i, d) => FinalDoc(i, d)'
    BY <1>1 DEF FinalDoc
  <2>6. CASE Reach(c, "admitted")
    <3>1. /\ call' \in [Delivery -> Blank \union Carried] /\ SessionOf(c)' = SessionOf(c)
      BY <2>1, <2>6, Reached DEF IntakeInv
    <3>2. IntakeTyped'
      BY <1>1, <2>3, <3>1 DEF IntakeInv, IntakeTyped
    <3>3. Bound(SessionOf(c))'
      BY <2>1, <2>3, <3>1 DEF Bound
    <3>4. QED
      BY <1>1, <2>4, <2>5, <2>6, <3>2, <3>3, IntakeReaches
  <2>7. CASE RefuseCall(c)
    <3>1. /\ call' \in [Delivery -> Blank \union Carried] /\ call'[c] \notin Carried
          /\ call'[c].answer = "refused" /\ \A d \in Delivery \ {c} : call'[d] = call[d]
      BY <2>7, Refused DEF IntakeInv
    <3>2. IntakeTyped'
      BY <1>1, <2>3, <3>1 DEF IntakeInv, IntakeTyped
    <3>3. QED
      BY <1>1, <2>4, <2>5, <3>1, <3>2, IntakeUndisturbed DEF Past, Served
  <2>8. QED
    BY <1>3, <2>6, <2>7 DEF ReserveKey
<1>4. QED
  BY <1>2, <1>3

\* A call that is refused once its record was made.
LEMMA IntakeRefusesLate ==
  ASSUME IntakeInv, NEW c \in Delivery, RefuseCall(c), clock' = clock, boundTo' = boundTo,
         session' \in [SessionId -> Nat], final' \in [SessionId -> (Doc \X Nat) \union {NotFinal}],
         source' \subseteq [session : SessionId, doc : Doc],
         \A i \in SessionId, d \in Doc : FinalDoc(i, d) => FinalDoc(i, d)',
         source \subseteq source',
         \A s \in source' \ source : Bound(s.session)' /\ FinalDoc(s.session, s.doc)'
  PROVE  IntakeInv'
<1>1. /\ call' \in [Delivery -> Blank \union Carried] /\ call'[c] \notin Carried
      /\ call'[c].answer = "refused" /\ \A d \in Delivery \ {c} : call'[d] = call[d]
  BY Refused DEF IntakeInv
<1>2. IntakeTyped'
  BY <1>1 DEF IntakeInv, IntakeTyped
<1>3. \A i \in SessionId : Bound(i) => Bound(i)'
  BY DEF Bound
<1>4. QED
  BY <1>1, <1>2, <1>3, IntakeUndisturbed DEF Past, Served

LEMMA IntakeSessions ==
  ASSUME IntakeInv, NEW c \in Delivery, ReserveSession(c)
  PROVE  IntakeInv'
<1>1. call[c].pc = "admitted" /\ UNCHANGED <<clock, rate, boundTo, final, source>>
  BY DEF ReserveSession, At
<1>2. call[c] \in Carried /\ SessionOf(c) \in SessionId /\ Bound(SessionOf(c))
  BY <1>1, CarriedUnlessBlank DEF IntakeInv, CallsBound, Past
<1>3. session' \in [SessionId -> Nat]
  <2>1. SessionMade(c) \in Nat
    BY <1>2 DEF SessionMade, Carried, IntakeInv, IntakeTyped
  <2>2. QED
    BY <1>2, <2>1 DEF ReserveSession, IntakeInv, IntakeTyped
<1>4. \A i \in SessionId, d \in Doc : FinalDoc(i, d) => FinalDoc(i, d)'
  BY <1>1 DEF FinalDoc
<1>5. CASE Reach(c, "session")
  <2>1. call' \in [Delivery -> Blank \union Carried] /\ SessionOf(c)' = SessionOf(c)
    BY <1>2, <1>5, Reached DEF IntakeInv
  <2>2. IntakeTyped'
    BY <1>1, <1>3, <2>1 DEF IntakeInv, IntakeTyped
  <2>3. QED
    BY <1>1, <1>2, <1>4, <1>5, <2>1, <2>2, IntakeReaches DEF Bound
<1>6. CASE RefuseCall(c)
  BY <1>1, <1>3, <1>4, <1>6, IntakeRefusesLate DEF IntakeInv, IntakeTyped
<1>7. QED
  BY <1>5, <1>6 DEF ReserveSession

LEMMA IntakeInspects ==
  ASSUME IntakeInv, NEW c \in Delivery, InspectDocument(c)
  PROVE  IntakeInv'
<1>1. call[c].pc = "session" /\ UNCHANGED <<clock, boundTo, session, final, source>>
  BY DEF InspectDocument, At, intakeStores
<1>2. call[c] \in Carried /\ Bound(SessionOf(c))
  BY <1>1, CarriedUnlessBlank DEF IntakeInv, CallsBound, Past
<1>3. CASE RefuseCall(c)
  BY <1>1, <1>3, IntakeRefuses
<1>4. CASE Reach(c, "inspected")
  <2>1. call' \in [Delivery -> Blank \union Carried] /\ SessionOf(c)' = SessionOf(c)
    BY <1>2, <1>4, Reached DEF IntakeInv
  <2>2. IntakeTyped'
    BY <1>1, <2>1 DEF IntakeInv, IntakeTyped
  <2>3. QED
    BY <1>1, <1>2, <1>4, <2>1, <2>2, IntakeReaches DEF Bound, FinalDoc
<1>5. QED
  BY <1>3, <1>4 DEF InspectDocument

LEMMA IntakeFinalizes ==
  ASSUME IntakeInv, NEW c \in Delivery, FinalizeSession(c)
  PROVE  IntakeInv'
<1>1. call[c].pc = "inspected" /\ UNCHANGED <<clock, rate, boundTo, session, source>>
  BY DEF FinalizeSession, At
<1>2. call[c] \in Carried /\ SessionOf(c) \in SessionId /\ Bound(SessionOf(c))
  BY <1>1, CarriedUnlessBlank DEF IntakeInv, CallsBound, Past
<1> DEFINE S == SessionOf(c)
           f == Finalization(c)
<1>3. /\ f \in Doc \X Nat /\ f # NotFinal
      /\ final[S] # NotFinal => f = final[S]
      /\ final' = [final EXCEPT ![S] = f]
  <2>1. FinalRequest(c) \in Doc \X Nat /\ FinalRequest(c) # NotFinal
    BY <1>2 DEF FinalRequest, Carried, NotFinal
  <2>2. final[S] \in (Doc \X Nat) \union {NotFinal}
    BY <1>2 DEF IntakeInv, IntakeTyped
  <2>3. QED
    BY <2>1, <2>2 DEF Finalization, FinalizeSession
<1>4. S \in SessionId
  BY <1>2
<1> HIDE DEF S, f
<1>5. /\ final' \in [SessionId -> (Doc \X Nat) \union {NotFinal}] /\ final'[S] = f
      /\ \A i \in SessionId, d \in Doc : FinalDoc(i, d) => FinalDoc(i, d)'
  BY <1>3, <1>4 DEF IntakeInv, IntakeTyped, FinalDoc
<1>6. CASE FinalHolds(c, f) /\ Reach(c, "finalized")
  <2>1. /\ call' \in [Delivery -> Blank \union Carried] /\ SessionOf(c)' = SessionOf(c)
        /\ call'[c].doc = call[c].doc
    BY <1>2, <1>6, Reached DEF IntakeInv
  <2>2. IntakeTyped'
    BY <1>1, <1>5, <2>1 DEF IntakeInv, IntakeTyped
  <2>3. FinalDoc(SessionOf(c), call[c].doc)'
    BY <1>3, <1>5, <1>6, <2>1 DEF FinalDoc, FinalHolds, S
  <2>4. QED
    BY <1>1, <1>2, <1>5, <1>6, <2>1, <2>2, <2>3, IntakeReaches DEF Bound
<1>7. CASE RefuseCall(c)
  BY <1>1, <1>5, <1>7, IntakeRefusesLate DEF IntakeInv, IntakeTyped
<1>8. QED
  BY <1>6, <1>7 DEF FinalizeSession, f

LEMMA IntakeWrites ==
  ASSUME IntakeInv, NEW c \in Delivery, WriteSource(c)
  PROVE  IntakeInv'
<1>1. /\ call[c].pc = "finalized" /\ UNCHANGED <<clock, rate, boundTo, session, final>>
      /\ source' = source \union {JobOf(c)}
  BY DEF WriteSource, At
<1>2. /\ call[c] \in Carried /\ SessionOf(c) \in SessionId /\ Bound(SessionOf(c))
      /\ FinalDoc(SessionOf(c), call[c].doc) /\ call[c].doc \in Doc
  BY <1>1, CarriedUnlessBlank DEF IntakeInv, CallsBound, Past, Carried
<1>3. /\ source' \subseteq [session : SessionId, doc : Doc]
      /\ \A s \in source' \ source : Bound(s.session)' /\ FinalDoc(s.session, s.doc)'
      /\ \A i \in SessionId, d \in Doc : FinalDoc(i, d) => FinalDoc(i, d)'
  BY <1>1, <1>2 DEF JobOf, IntakeInv, IntakeTyped, Bound, FinalDoc
<1>4. CASE RefuseCall(c)
  BY <1>1, <1>3, <1>4, IntakeRefusesLate DEF IntakeInv, IntakeTyped
<1>5. CASE AnswerCall(c, Written(c))
  <2>1. Written(c) \in {"written", "replay"}
    BY DEF Written
  <2>2. call' = [call EXCEPT ![c] = [call[c] EXCEPT !.pc = "done", !.answer = Written(c)]]
    BY <1>2, <1>5 DEF AnswerCall, IntakeInv, IntakeTyped
  <2>3. /\ [call[c] EXCEPT !.pc = "done", !.answer = Written(c)] \in Carried
        /\ [call[c] EXCEPT !.pc = "done", !.answer = Written(c)].pc = "done"
        /\ [call[c] EXCEPT !.pc = "done", !.answer = Written(c)].who = call[c].who
        /\ [call[c] EXCEPT !.pc = "done", !.answer = Written(c)].key = call[c].key
        /\ [call[c] EXCEPT !.pc = "done", !.answer = Written(c)].body = call[c].body
        /\ [call[c] EXCEPT !.pc = "done", !.answer = Written(c)].doc = call[c].doc
    BY <1>2, <2>1 DEF Carried
  <2>4. /\ call'[c] = [call[c] EXCEPT !.pc = "done", !.answer = Written(c)]
        /\ call' \in [Delivery -> Blank \union Carried]
        /\ \A d \in Delivery \ {c} : call'[d] = call[d]
    BY <2>2, <2>3 DEF IntakeInv, IntakeTyped
  <2>5. call'[c].pc = "done" /\ JobOf(c)' = JobOf(c)
    BY <2>3, <2>4 DEF JobOf, SessionOf
  <2>6. IntakeTyped'
    BY <1>1, <1>3, <2>4 DEF IntakeInv, IntakeTyped
  <2>7. QED
    BY <1>1, <1>3, <2>4, <2>5, <2>6, IntakeUndisturbed DEF Past, Bound
<1>6. QED
  BY <1>4, <1>5 DEF WriteSource

LEMMA IntakeStepKeeps ==
  IntakeInv /\ [IntakeNext]_intakeVars => IntakeInv'
<1> SUFFICES ASSUME IntakeInv, [IntakeNext]_intakeVars
             PROVE  IntakeInv'
  OBVIOUS
<1>1. CASE IntakeTick
  BY <1>1 DEF IntakeTick, intakeStores, IntakeInv, IntakeTyped, CallsBound, SourcesBound,
              ServedHasSource, Past, Bound, FinalDoc, SessionOf, JobOf, Served, At
<1>2. CASE UNCHANGED intakeVars
  BY <1>2 DEF intakeVars, IntakeInv, IntakeTyped, CallsBound, SourcesBound,
              ServedHasSource, Past, Bound, FinalDoc, SessionOf, JobOf, Served, At
<1>3. ASSUME NEW c \in Delivery, Fail(c)
      PROVE  IntakeInv'
  BY <1>3, IntakeRefuses DEF Fail, intakeStores
<1>4. ASSUME NEW c \in Delivery, IntakeStep(c)
      PROVE  IntakeInv'
  BY <1>3, <1>4, IntakeAuthenticates, IntakeAuthorizes, IntakeRates, IntakeKeys, IntakeSessions,
     IntakeInspects, IntakeFinalizes, IntakeWrites DEF IntakeStep
<1>5. QED
  BY <1>1, <1>2, <1>4 DEF IntakeNext

-----------------------------------------------------------------------------

LEMMA IntakeInvHolds == IntakeSpec => []IntakeInv
<1>1. QED
  BY IntakeInitially, IntakeStepKeeps, PTL DEF IntakeSpec

\* Two sources of one caller and key are bound to one payload, so to one
\* session, and that was finalized with one document.
LEMMA IntakeInvIsEnough == IntakeInv => OneSourcePerKey
<1> SUFFICES ASSUME IntakeInv
             PROVE  OneSourcePerKey
  OBVIOUS
<1>1. ASSUME NEW s \in source, NEW t \in source, s.session[1] = t.session[1],
             s.session[2] = t.session[2]
      PROVE  s = t
  <2>1. /\ s \in [session : SessionId, doc : Doc] /\ t \in [session : SessionId, doc : Doc]
        /\ Bound(s.session) /\ Bound(t.session)
        /\ FinalDoc(s.session, s.doc) /\ FinalDoc(t.session, t.doc)
    BY DEF IntakeInv, IntakeTyped, SourcesBound
  <2>2. s.session[3] = t.session[3]
    BY <1>1, <2>1 DEF Bound
  <2>3. s.session = t.session
    BY <1>1, <2>1, <2>2 DEF SessionId
  <2>4. s.doc = t.doc
    BY <2>1, <2>3 DEF FinalDoc
  <2>5. QED
    BY <2>1, <2>3, <2>4
<1>2. QED
  BY <1>1 DEF OneSourcePerKey, IntakeInv, ServedHasSource

\* However calls interleave, fail and are repeated, one caller's key leads to
\* one source, and every call that was served is told of a job that has its
\* source: for any number of deliveries, callers, keys, payloads and documents.
THEOREM KeyHasOneSource == IntakeSpec => []OneSourcePerKey
<1>1. QED
  BY IntakeInvHolds, IntakeInvIsEnough, PTL

LEMMA IntakeStepIsFinal ==
  IntakeInv /\ [IntakeNext]_intakeVars =>
    \A i \in SessionId :
      /\ session[i] # Never => session'[i] = session[i]
      /\ final[i] # NotFinal => final'[i] = final[i]
<1> SUFFICES ASSUME IntakeInv, [IntakeNext]_intakeVars, NEW i \in SessionId
             PROVE  /\ session[i] # Never => session'[i] = session[i]
                    /\ final[i] # NotFinal => final'[i] = final[i]
  OBVIOUS
<1>1. ASSUME NEW c \in Delivery, ReserveSession(c)
      PROVE  final' = final /\ (session[i] # Never => session'[i] = session[i])
  BY <1>1 DEF ReserveSession, SessionMade, IntakeInv, IntakeTyped
<1>2. ASSUME NEW c \in Delivery, FinalizeSession(c)
      PROVE  session' = session /\ (final[i] # NotFinal => final'[i] = final[i])
  BY <1>2 DEF FinalizeSession, Finalization, IntakeInv, IntakeTyped
<1>3. ASSUME NEW c \in Delivery, IntakeStep(c), ~ReserveSession(c), ~FinalizeSession(c)
      PROVE  session' = session /\ final' = final
  BY <1>3 DEF IntakeStep, Authenticate, AuthorizeCall, ReserveRate, ReserveKey, InspectDocument,
              WriteSource, Fail, intakeStores
<1>4. CASE IntakeTick \/ UNCHANGED intakeVars
  BY <1>4 DEF IntakeTick, intakeVars, intakeStores
<1>5. QED
  BY <1>1, <1>2, <1>3, <1>4 DEF IntakeNext

\* No retry, however late, moves the time of a session or of a finalization,
\* or changes the document a session was finalized with.
THEOREM IntakeRecordsStay == IntakeSpec => RecordsAreFinal
<1>1. IntakeInv /\ [IntakeNext]_intakeVars =>
        [\A i \in SessionId :
           /\ session[i] # Never => session'[i] = session[i]
           /\ final[i] # NotFinal => final'[i] = final[i]]_intakeVars
  BY IntakeStepIsFinal
<1>2. QED
  BY <1>1, IntakeInvHolds, PTL DEF IntakeSpec, RecordsAreFinal

-----------------------------------------------------------------------------
(* The dispatch.                                                           *)

Sent(n) == sent[n] # NotSent

\* The reservation of n's request.
KeyOf(n) == <<sent[n].engine, sent[n].gen, n>>

Pending == [nonce : Nonce, at : Moments, step : {"reserve", "accept"}, key : Engine \X Nat \X Nonce]

ProofTyped ==
  /\ time \in Moments /\ signer \in Nat
  /\ sent \in [Nonce -> [engine : Engine, gen : Nat, at : Moments] \union {NotSent}]
  /\ check \in Pending \union {NoCheck}
  /\ kept \subseteq Engine \X Nat \X Nonce
  /\ passed \in [Nonce -> Nat]

\* The preflight under way is for the very request that was signed, which was
\* not too old when the clock was read, and that was not long ago.
CheckIsTimely ==
  check # NoCheck =>
    /\ Sent(check.nonce) /\ check.key = KeyOf(check.nonce)
    /\ check.at <= sent[check.nonce].at + MaxAge
    /\ time <= check.at + Delay
    /\ check.step = "accept" => passed[check.nonce] = 0 /\ check.key \in kept

\* What was accepted is reserved, for as long as a copy may still be accepted.
AcceptedIsReserved ==
  \A n \in Nonce : passed[n] > 0 =>
    /\ Sent(n)
    /\ KeyOf(n) \in kept \/ time >= ExpiresAt(n)

ReplayInv == ProofTyped /\ CheckIsTimely /\ AcceptedIsReserved /\ AcceptedOnce

-----------------------------------------------------------------------------

LEMMA CheckPending ==
  ASSUME ProofTyped, check # NoCheck
  PROVE  /\ check \in Pending /\ check.nonce \in Nonce /\ check.at \in Moments
         /\ check.key \in Engine \X Nat \X Nonce
BY DEF ProofTyped, Pending

LEMMA StepIsPending ==
  ASSUME check.step \in {"reserve", "accept"}
  PROVE  check # NoCheck
BY DEF NoCheck

LEMMA SentIsTyped ==
  ASSUME ProofTyped, NEW n \in Nonce, Sent(n)
  PROVE  /\ sent[n] \in [engine : Engine, gen : Nat, at : Moments]
         /\ sent[n].at \in Nat /\ KeyOf(n) \in Engine \X Nat \X Nonce /\ KeyOf(n)[3] = n
BY DEF ProofTyped, Sent, KeyOf, Moments

\* A check that may still accept has its reservation before it expires.
LEMMA CheckBeforeExpiry ==
  ASSUME MaxAge + Delay < ReplayTtl, ProofTyped, CheckIsTimely, check # NoCheck
  PROVE  time < ExpiresAt(check.nonce)
<1>1. /\ sent[check.nonce].at \in Nat /\ check.at \in Nat /\ time \in Nat
      /\ check.at <= sent[check.nonce].at + MaxAge /\ time <= check.at + Delay
  BY CheckPending, SentIsTyped DEF CheckIsTimely, ProofTyped, Moments
<1>2. QED
  BY <1>1, DurationAssumption DEF ExpiresAt

LEMMA ReplayInitially == ProofInit => ReplayInv
<1>1. ASSUME ProofInit PROVE 0 \in Moments
  BY DurationAssumption DEF Moments
<1>2. QED
  BY <1>1 DEF ProofInit, ReplayInv, ProofTyped, CheckIsTimely, AcceptedIsReserved, AcceptedOnce, Sent

\* A step that changes neither requests nor the clock.
LEMMA ReplayUndisturbed ==
  ASSUME ReplayInv, signer' \in Nat,
         time' = time, sent' = sent, check' = check, kept' = kept, passed' = passed
  PROVE  ReplayInv'
BY DEF ReplayInv, ProofTyped, CheckIsTimely, AcceptedIsReserved, AcceptedOnce, Sent, KeyOf,
       ExpiresAt, NotSent, NoCheck, Pending

LEMMA ReplayTicks ==
  ASSUME ReplayInv, ProofTick
  PROVE  ReplayInv'
<1>1. /\ time' = time + 1 /\ time' \in Moments /\ time \in Nat
      /\ check # NoCheck => time < check.at + Delay
      /\ signer' = signer /\ sent' = sent /\ check' = check /\ kept' = kept /\ passed' = passed
  BY DurationAssumption DEF ProofTick, requestVars, ReplayInv, ProofTyped, Moments
<1>2. ProofTyped'
  BY <1>1 DEF ReplayInv, ProofTyped, Pending
<1>3. check # NoCheck => check.at \in Nat
  BY CheckPending DEF ReplayInv, Moments
<1>4. CheckIsTimely'
  BY <1>1, <1>3, DurationAssumption DEF ReplayInv, CheckIsTimely, Sent, KeyOf
<1>5. AcceptedIsReserved'
  <2>1. ASSUME NEW n \in Nonce, passed'[n] > 0
        PROVE  Sent(n)' /\ (KeyOf(n)' \in kept' \/ time' >= ExpiresAt(n)')
    <3>1. Sent(n) /\ (KeyOf(n) \in kept \/ time >= ExpiresAt(n))
      BY <1>1, <2>1 DEF ReplayInv, AcceptedIsReserved
    <3>2. ExpiresAt(n) \in Nat
      BY <3>1, SentIsTyped, DurationAssumption DEF ReplayInv, ExpiresAt
    <3>3. Sent(n)' /\ KeyOf(n)' = KeyOf(n) /\ ExpiresAt(n)' = ExpiresAt(n)
      BY <1>1, <3>1 DEF Sent, KeyOf, ExpiresAt
    <3>4. QED
      BY <1>1, <3>1, <3>2, <3>3
  <2>2. QED
    BY <2>1 DEF AcceptedIsReserved
<1>6. QED
  BY <1>1, <1>2, <1>4, <1>5 DEF ReplayInv, AcceptedOnce

LEMMA ReplaySigns ==
  ASSUME ReplayInv, NEW n \in Nonce, Sign(n)
  PROVE  ReplayInv'
<1>1. PICK e \in Engine, ts \in Moments : sent' = [sent EXCEPT ![n] = Signed(e, ts)]
  BY DEF Sign
<1>2. /\ check = NoCheck /\ sent[n] = NotSent /\ time' = time /\ signer' = signer
      /\ check' = check /\ kept' = kept /\ passed' = passed
  BY DEF Sign, Unlocked
<1>3. Signed(e, ts) \in [engine : Engine, gen : Nat, at : Moments]
  BY DEF Signed, ReplayInv, ProofTyped
<1>4. ProofTyped'
  BY <1>1, <1>2, <1>3 DEF ReplayInv, ProofTyped, NotSent
<1>5. CheckIsTimely'
  BY <1>2 DEF CheckIsTimely
<1>6. AcceptedIsReserved'
  <2>1. ASSUME NEW m \in Nonce, passed[m] > 0
        PROVE  m # n /\ sent'[m] = sent[m]
    BY <1>1, <1>2, <2>1 DEF ReplayInv, AcceptedIsReserved, Sent, ProofTyped
  <2>2. QED
    BY <1>2, <2>1 DEF ReplayInv, AcceptedIsReserved, Sent, KeyOf, ExpiresAt
<1>7. QED
  BY <1>2, <1>4, <1>5, <1>6 DEF ReplayInv, AcceptedOnce

LEMMA ReplayReceives ==
  ASSUME ReplayInv, NEW n \in Nonce, NEW e \in Engine, Receive(n, e)
  PROVE  ReplayInv'
<1>1. PICK m \in Arriving(n) :
        /\ Verified(n, e, m)
        /\ check' = [nonce |-> n, at |-> time, step |-> "reserve", key |-> <<e, m.gen, n>>]
  BY DEF Receive
<1>2. /\ Sent(n) /\ time' = time /\ signer' = signer
      /\ sent' = sent /\ kept' = kept /\ passed' = passed
  BY DEF Receive, Sent
<1>3. m = sent[n] /\ m.engine = e /\ time <= m.at + MaxAge
  BY <1>1 DEF Verified, AddressedTo, AuthenticRequest, FreshAt
<1>4. check'.key = KeyOf(n) /\ KeyOf(n) \in Engine \X Nat \X Nonce /\ KeyOf(n)' = KeyOf(n)
  BY <1>1, <1>2, <1>3, SentIsTyped DEF KeyOf, ReplayInv
<1>5. ProofTyped'
  BY <1>1, <1>2, <1>4 DEF ReplayInv, ProofTyped, Pending
<1>6. CheckIsTimely'
  BY <1>1, <1>2, <1>3, <1>4, DurationAssumption
     DEF CheckIsTimely, Sent, ReplayInv, ProofTyped, Moments
<1>7. AcceptedIsReserved'
  BY <1>2 DEF ReplayInv, AcceptedIsReserved, Sent, KeyOf, ExpiresAt
<1>8. QED
  BY <1>2, <1>5, <1>6, <1>7 DEF ReplayInv, AcceptedOnce

LEMMA ReplayReserves ==
  ASSUME MaxAge + Delay < ReplayTtl, ReplayInv, ReserveNonce
  PROVE  ReplayInv'
<1>1. check # NoCheck /\ check.step = "reserve"
  BY StepIsPending DEF ReserveNonce
<1>2. /\ time' = time /\ signer' = signer /\ sent' = sent /\ passed' = passed
      /\ check \in Pending /\ check.key \in Engine \X Nat \X Nonce /\ check.nonce \in Nonce
  BY <1>1, CheckPending DEF ReserveNonce, ReplayInv
<1>3. CASE check.key \in kept
  <2>1. check' = NoCheck /\ kept' = kept
    BY <1>3 DEF ReserveNonce
  <2>2. QED
    BY <1>2, <2>1 DEF ReplayInv, ProofTyped, CheckIsTimely, AcceptedIsReserved, AcceptedOnce,
                      Sent, KeyOf, ExpiresAt
<1>4. CASE check.key \notin kept
  <2>1. kept' = kept \union {check.key} /\ check' = [check EXCEPT !.step = "accept"]
    BY <1>4 DEF ReserveNonce
  <2>2. /\ check' \in Pending /\ check'.nonce = check.nonce /\ check'.at = check.at
        /\ check'.key = check.key /\ check'.step = "accept"
    BY <1>2, <2>1 DEF Pending
  <2>3. ProofTyped'
    BY <1>2, <2>1, <2>2 DEF ReplayInv, ProofTyped
  <2>4. passed[check.nonce] = 0
    <3>1. /\ Sent(check.nonce) /\ check.key = KeyOf(check.nonce) /\ time < ExpiresAt(check.nonce)
      BY <1>1, CheckBeforeExpiry DEF ReplayInv, CheckIsTimely
    <3>2. ExpiresAt(check.nonce) \in Nat /\ time \in Nat
      BY <1>2, <3>1, SentIsTyped, DurationAssumption DEF ReplayInv, ExpiresAt, ProofTyped, Moments
    <3>3. ~(passed[check.nonce] > 0)
      BY <1>2, <1>4, <3>1, <3>2 DEF ReplayInv, AcceptedIsReserved
    <3>4. QED
      BY <1>2, <3>3 DEF ReplayInv, ProofTyped
  <2>5. CheckIsTimely'
    BY <1>1, <1>2, <2>1, <2>2, <2>4 DEF ReplayInv, CheckIsTimely, Sent, KeyOf
  <2>6. AcceptedIsReserved'
    BY <1>2, <2>1 DEF ReplayInv, AcceptedIsReserved, Sent, KeyOf, ExpiresAt
  <2>7. QED
    BY <1>2, <2>3, <2>5, <2>6 DEF ReplayInv, AcceptedOnce
<1>5. QED
  BY <1>3, <1>4

LEMMA ReplayForgets ==
  ASSUME MaxAge + Delay < ReplayTtl, ReplayInv, NEW k \in kept, Forget(k)
  PROVE  ReplayInv'
<1>1. /\ time >= ExpiresAt(k[3]) /\ kept' = kept \ {k} /\ time' = time /\ signer' = signer
      /\ sent' = sent /\ check' = check /\ passed' = passed
  BY DEF Forget
<1>2. ProofTyped'
  BY <1>1 DEF ReplayInv, ProofTyped, Pending
<1>3. CheckIsTimely'
  <2>1. CASE check = NoCheck
    BY <1>1, <2>1 DEF CheckIsTimely
  <2>2. CASE check # NoCheck
    <3>1. check.key = KeyOf(check.nonce) /\ time < ExpiresAt(check.nonce) /\ Sent(check.nonce)
          /\ check.nonce \in Nonce
      BY <2>2, CheckBeforeExpiry, CheckPending DEF ReplayInv, CheckIsTimely
    <3>2. check.key[3] = check.nonce /\ ExpiresAt(check.nonce) \in Nat /\ time \in Nat
      BY <3>1, SentIsTyped, DurationAssumption DEF ReplayInv, ExpiresAt, ProofTyped, Moments
    <3>3. k # check.key
      BY <1>1, <3>1, <3>2
    <3>4. QED
      BY <1>1, <2>2, <3>3 DEF ReplayInv, CheckIsTimely, Sent, KeyOf
  <2>3. QED
    BY <2>1, <2>2
<1>4. AcceptedIsReserved'
  <2>1. ASSUME NEW n \in Nonce, passed[n] > 0
        PROVE  Sent(n) /\ (KeyOf(n) \in kept' \/ time >= ExpiresAt(n))
    <3>1. Sent(n) /\ (KeyOf(n) \in kept \/ time >= ExpiresAt(n)) /\ KeyOf(n)[3] = n
      BY <2>1, SentIsTyped DEF ReplayInv, AcceptedIsReserved
    <3>2. QED
      BY <1>1, <3>1
  <2>2. QED
    BY <1>1, <2>1 DEF AcceptedIsReserved, Sent, KeyOf, ExpiresAt
<1>5. QED
  BY <1>1, <1>2, <1>3, <1>4 DEF ReplayInv, AcceptedOnce

LEMMA ReplayAccepts ==
  ASSUME ReplayInv, Accept
  PROVE  ReplayInv'
<1>1. check # NoCheck /\ check.step = "accept"
  BY StepIsPending DEF Accept
<1>2. /\ time' = time /\ signer' = signer /\ sent' = sent /\ kept' = kept /\ check' = NoCheck
      /\ passed' = [passed EXCEPT ![check.nonce] = @ + 1] /\ check.nonce \in Nonce
  BY <1>1, CheckPending DEF Accept, ReplayInv
<1>3. /\ Sent(check.nonce) /\ KeyOf(check.nonce) \in kept /\ passed[check.nonce] = 0
  BY <1>1 DEF ReplayInv, CheckIsTimely
<1>4. /\ passed'[check.nonce] = 1
      /\ \A n \in Nonce : n # check.nonce => passed'[n] = passed[n]
  BY <1>2, <1>3 DEF ReplayInv, ProofTyped
<1>5. ProofTyped'
  BY <1>2 DEF ReplayInv, ProofTyped
<1>6. CheckIsTimely'
  BY <1>2 DEF CheckIsTimely
<1>7. AcceptedIsReserved'
  BY <1>2, <1>3, <1>4 DEF ReplayInv, AcceptedIsReserved, Sent, KeyOf, ExpiresAt
<1>8. AcceptedOnce'
  BY <1>4 DEF ReplayInv, AcceptedOnce
<1>9. QED
  BY <1>5, <1>6, <1>7, <1>8 DEF ReplayInv

LEMMA ReplayDies ==
  ASSUME ReplayInv, Die
  PROVE  ReplayInv'
BY DEF Die, ReplayInv, ProofTyped, CheckIsTimely, AcceptedIsReserved, AcceptedOnce, Sent, KeyOf,
       ExpiresAt

LEMMA ReplayStep ==
  ASSUME MaxAge + Delay < ReplayTtl, ReplayInv, [ProofNext]_proofVars
  PROVE  ReplayInv'
<1>0. signer \in Nat
  BY DEF ReplayInv, ProofTyped
<1>1. CASE RotateVerifier \/ Supersede
  BY <1>0, <1>1, ReplayUndisturbed DEF RotateVerifier, Supersede, requestVars
<1>2. CASE RotateSigner
  BY <1>0, <1>2, ReplayUndisturbed DEF RotateSigner, requestVars
<1>3. ASSUME NEW n \in Nonce, ProofStep(n)
      PROVE  ReplayInv'
  <2>1. CASE StartDispatch(n) \/ AskCancel(n) \/ Evaluate(n) \/ ProveResult(n) \/ TakeResult(n)
    BY <1>0, <2>1, ReplayUndisturbed
       DEF StartDispatch, AskCancel, Evaluate, ProveResult, TakeResult, requestVars
  <2>2. QED
    BY <1>3, <2>1, ReplaySigns, ReplayReceives DEF ProofStep
<1>4. CASE UNCHANGED proofVars
  BY <1>0, <1>4, ReplayUndisturbed DEF proofVars, requestVars
<1>5. QED
  BY <1>1, <1>2, <1>3, <1>4, ReplayTicks, ReplayReserves, ReplayForgets, ReplayAccepts, ReplayDies
     DEF ProofNext

\* No request is accepted twice, however often it is repeated, over rotations,
\* forgotten reservations and receivers that die: if the reservation is kept
\* longer than a request is fresh and a preflight may take together.  (The code
\* keeps it 600 seconds and takes no request older than 120.)
THEOREM AcceptsOnce ==
  ASSUME MaxAge + Delay < ReplayTtl
  PROVE  ProofSpec => []AcceptedOnce
<1>1. ReplayInv /\ [ProofNext]_proofVars => ReplayInv'
  BY ReplayStep
<1>2. ReplayInv => AcceptedOnce
  BY DEF ReplayInv
<1>3. QED
  BY <1>1, <1>2, ReplayInitially, PTL DEF ProofSpec

-----------------------------------------------------------------------------

Decided == [status : {"active", "cancelled", "timed_out"}, seen : Nat, ended : Nat]

EndTyped ==
  /\ time \in Moments
  /\ started \in [Nonce -> Moments \union {NoMoment}]
  /\ asked \in [Nonce -> Moments \union {NoMoment}]
  /\ returned \in [Nonce -> Moments \union {NoMoment}]
  /\ decision \in [Nonce -> Decided]

\* A dispatch that did not start has no result and no end.
StartsFirst ==
  \A n \in Nonce : started[n] = NoMoment => returned[n] = NoMoment /\ ~Over(decision[n])

\* No decision is from the future, an active dispatch has no end yet, and a result
\* taken was noticed by the last decision, before the deadline.
ResultIsSeen ==
  \A n \in Nonce :
    /\ decision[n].seen <= time
    /\ ~Over(decision[n]) => decision[n].ended = NoMoment
    /\ returned[n] # NoMoment =>
         /\ ~Over(decision[n]) => returned[n] <= decision[n].seen
         /\ returned[n] <= DeadlineOf(n)

EndInv == EndTyped /\ StartsFirst /\ ResultIsSeen /\ OneEnd

\* The parts of the invariant that speak of one dispatch.
EndOf(n) ==
  /\ decision[n].seen <= time
  /\ started[n] = NoMoment => returned[n] = NoMoment /\ ~Over(decision[n])
  /\ ~Over(decision[n]) => decision[n].ended = NoMoment
  /\ returned[n] # NoMoment =>
       /\ ~Over(decision[n]) => returned[n] <= decision[n].seen
       /\ returned[n] <= DeadlineOf(n)
       /\ returned[n] <= decision[n].ended
  /\ Over(decision[n]) => decision[n].ended <= DeadlineOf(n)

LEMMA EndByDispatch == EndInv <=> EndTyped /\ \A n \in Nonce : EndOf(n)
BY DEF EndInv, StartsFirst, ResultIsSeen, OneEnd, EndOf

LEMMA NoMomentIsLater ==
  ASSUME NEW t \in Moments
  PROVE  t \in Nat /\ NoMoment \in Nat /\ NoMoment \notin Moments /\ t < NoMoment
BY DurationAssumption DEF Moments, NoMoment

LEMMA EndInitially == ProofInit => EndInv
<1>1. ASSUME ProofInit
      PROVE  EndTyped /\ \A n \in Nonce : EndOf(n)
  <2>1. 0 \in Moments /\ NoMoment \in Nat
    BY DurationAssumption DEF Moments, NoMoment
  <2>2. /\ Active(0) \in Decided /\ ~Over(Active(0)) /\ Active(0).ended = NoMoment
        /\ Active(0).seen = 0
    BY <2>1 DEF Active, Decided, Over
  <2>3. QED
    BY <1>1, <2>1, <2>2 DEF ProofInit, EndTyped, EndOf
<1>2. QED
  BY <1>1, EndByDispatch

LEMMA EndUndisturbed ==
  ASSUME EndInv, time' \in Moments, time' >= time,
         UNCHANGED <<started, asked, decision, returned>>
  PROVE  EndInv'
<1>1. EndTyped'
  BY DEF EndInv, EndTyped
<1>2. ASSUME NEW n \in Nonce PROVE EndOf(n)'
  <2>1. EndOf(n) /\ decision[n].seen \in Nat /\ time \in Nat /\ time' \in Nat
    BY EndByDispatch, NoMomentIsLater DEF EndTyped, Decided
  <2>2. QED
    BY <2>1 DEF EndOf, DeadlineOf
<1>3. QED
  BY <1>1, <1>2 DEF EndInv, StartsFirst, ResultIsSeen, OneEnd, EndOf

\* A decision about n: how it relates to the one before it and to a cancellation.
LEMMA EvaluationEnds ==
  ASSUME EndInv, NEW n \in Nonce, NEW c \in Known(n), started[n] # NoMoment, NoRegression(n, c)
  PROVE  /\ Evaluated(n, c) \in Decided
         /\ ~Over(Evaluated(n, c)) => /\ ~Over(decision[n]) /\ Evaluated(n, c).ended = NoMoment
                                      /\ time < DeadlineOf(n)
         /\ Evaluated(n, c).seen = time
         /\ Over(Evaluated(n, c)) =>
              /\ Evaluated(n, c).ended <= DeadlineOf(n)
              /\ returned[n] # NoMoment => returned[n] <= Evaluated(n, c).ended
<1>0. /\ EndTyped /\ EndOf(n) /\ decision[n] \in Decided /\ time \in Nat /\ NoMoment \in Nat
      /\ c \in Moments \union {NoMoment} /\ c \in Nat
      /\ returned[n] \in Nat /\ started[n] \in Nat
  BY EndByDispatch, NoMomentIsLater DEF EndTyped, Known
<1>1. DeadlineOf(n) \in Nat
  BY <1>0, DurationAssumption DEF DeadlineOf
<1>2. CASE Over(decision[n])
  <2>1. Evaluated(n, c) = [decision[n] EXCEPT !.seen = time]
    BY <1>2 DEF Evaluated
  <2>2. /\ Evaluated(n, c) \in Decided /\ Over(Evaluated(n, c))
        /\ Evaluated(n, c).ended = decision[n].ended /\ Evaluated(n, c).seen = time
    BY <1>0, <1>2, <2>1 DEF Decided, Over
  <2>3. QED
    BY <1>0, <1>2, <2>2 DEF EndOf
<1>3. CASE ~Over(decision[n]) /\ c # NoMoment /\ c < DeadlineOf(n)
  <2>1. Evaluated(n, c) = Ended("cancelled", c)
    BY <1>3 DEF Evaluated
  <2>2. c >= decision[n].seen /\ decision[n].seen \in Nat
    BY <1>0, <1>3 DEF NoRegression, Decided
  <2>3. /\ Evaluated(n, c) \in Decided /\ Over(Evaluated(n, c)) /\ Evaluated(n, c).ended = c
        /\ Evaluated(n, c).seen = time
    BY <1>0, <2>1 DEF Decided, Over, Ended
  <2>4. returned[n] # NoMoment => returned[n] <= c
    BY <1>0, <1>3, <2>2 DEF EndOf
  <2>5. QED
    BY <1>0, <1>1, <1>3, <2>3, <2>4
<1>4. CASE ~Over(decision[n]) /\ ~(c # NoMoment /\ c < DeadlineOf(n)) /\ time >= DeadlineOf(n)
  <2>1. Evaluated(n, c) = Ended("timed_out", DeadlineOf(n))
    BY <1>4 DEF Evaluated
  <2>2. /\ Evaluated(n, c) \in Decided /\ Over(Evaluated(n, c))
        /\ Evaluated(n, c).ended = DeadlineOf(n) /\ Evaluated(n, c).seen = time
    BY <1>0, <1>1, <2>1 DEF Decided, Over, Ended
  <2>3. QED
    BY <1>0, <1>1, <1>4, <2>2 DEF EndOf
<1>5. CASE ~Over(decision[n]) /\ ~(c # NoMoment /\ c < DeadlineOf(n)) /\ ~(time >= DeadlineOf(n))
  <2>1. Evaluated(n, c) = Active(time)
    BY <1>5 DEF Evaluated
  <2>2. /\ Evaluated(n, c) \in Decided /\ ~Over(Evaluated(n, c))
        /\ Evaluated(n, c).ended = NoMoment /\ Evaluated(n, c).seen = time
    BY <1>0, <2>1 DEF Decided, Over, Active
  <2>3. QED
    BY <1>0, <1>1, <1>5, <2>2
<1>6. QED
  BY <1>2, <1>3, <1>4, <1>5

LEMMA EndStarts ==
  ASSUME EndInv, NEW n \in Nonce, StartDispatch(n)
  PROVE  EndInv'
<1>0. /\ EndTyped /\ \A m \in Nonce : EndOf(m)
  BY EndByDispatch
<1>1. /\ started[n] = NoMoment /\ started' = [started EXCEPT ![n] = time]
      /\ decision' = [decision EXCEPT ![n] = Active(time)]
      /\ time' = time /\ asked' = asked /\ returned' = returned
  BY DEF StartDispatch
<1>2. /\ Active(time) \in Decided /\ ~Over(Active(time)) /\ Active(time).ended = NoMoment
      /\ Active(time).seen = time /\ time \in Nat
  BY <1>0, NoMomentIsLater DEF Active, Decided, Over, EndTyped
<1>3. EndTyped'
  BY <1>0, <1>1, <1>2 DEF EndTyped
<1>4. EndOf(n)'
  BY <1>0, <1>1, <1>2, NoMomentIsLater DEF EndOf, EndTyped
<1>5. ASSUME NEW m \in Nonce \ {n} PROVE EndOf(m)'
  <2>1. started'[m] = started[m] /\ decision'[m] = decision[m] /\ returned'[m] = returned[m]
    BY <1>0, <1>1 DEF EndTyped
  <2>2. EndOf(m)
    BY <1>0
  <2>3. QED
    BY <1>1, <2>1, <2>2 DEF EndOf, DeadlineOf
<1>6. QED
  BY <1>3, <1>4, <1>5 DEF EndInv, StartsFirst, ResultIsSeen, OneEnd, EndOf

LEMMA EndEvaluates ==
  ASSUME EndInv, NEW n \in Nonce, Evaluate(n)
  PROVE  EndInv'
<1>0. /\ EndTyped /\ \A m \in Nonce : EndOf(m)
  BY EndByDispatch
<1>1. PICK c \in Known(n) :
        NoRegression(n, c) /\ decision' = [decision EXCEPT ![n] = Evaluated(n, c)]
  BY DEF Evaluate
<1>2. /\ started[n] # NoMoment /\ time' = time /\ started' = started /\ asked' = asked
      /\ returned' = returned
  BY DEF Evaluate
<1> DEFINE d == Evaluated(n, c)
<1>3. /\ d \in Decided /\ d.seen = time
      /\ ~Over(d) => ~Over(decision[n]) /\ d.ended = NoMoment
      /\ Over(d) => /\ d.ended <= DeadlineOf(n)
                    /\ returned[n] # NoMoment => returned[n] <= d.ended
  BY <1>1, <1>2, EvaluationEnds
<1> HIDE DEF d
<1>4. EndTyped' /\ decision'[n] = d
  BY <1>0, <1>1, <1>2, <1>3 DEF EndTyped, d
<1>5. EndOf(n)'
  <2>1. /\ EndOf(n) /\ returned[n] \in Nat /\ time \in Nat /\ NoMoment \in Nat
        /\ returned[n] # NoMoment => returned[n] < NoMoment
    BY <1>0, NoMomentIsLater DEF EndTyped
  <2>2. ~Over(d) /\ returned[n] # NoMoment => returned[n] <= time
    <3>1. CASE ~Over(d) /\ returned[n] # NoMoment
      <4>1. /\ returned[n] <= decision[n].seen /\ decision[n].seen <= time
            /\ decision[n].seen \in Nat
        BY <1>0, <1>3, <2>1, <3>1 DEF EndOf, EndTyped, Decided
      <4>2. QED
        BY <2>1, <4>1
    <3>2. QED
      BY <3>1
  <2>3. QED
    BY <1>2, <1>3, <1>4, <2>1, <2>2 DEF EndOf, DeadlineOf
<1>6. ASSUME NEW m \in Nonce \ {n} PROVE EndOf(m)'
  <2>1. started'[m] = started[m] /\ decision'[m] = decision[m] /\ returned'[m] = returned[m]
    BY <1>0, <1>1, <1>2 DEF EndTyped
  <2>2. EndOf(m)
    BY <1>0
  <2>3. QED
    BY <1>2, <2>1, <2>2 DEF EndOf, DeadlineOf
<1>7. QED
  BY <1>4, <1>5, <1>6 DEF EndInv, StartsFirst, ResultIsSeen, OneEnd, EndOf

LEMMA EndIsAsked ==
  ASSUME EndInv, NEW n \in Nonce, AskCancel(n)
  PROVE  EndInv'
<1>0. /\ EndTyped /\ \A m \in Nonce : EndOf(m)
  BY EndByDispatch
<1>1. /\ asked' = [asked EXCEPT ![n] = time] /\ time' = time /\ started' = started
      /\ decision' = decision /\ returned' = returned
  BY DEF AskCancel
<1>2. EndTyped'
  BY <1>0, <1>1 DEF EndTyped
<1>3. \A m \in Nonce : EndOf(m)'
  BY <1>0, <1>1 DEF EndOf, DeadlineOf
<1>4. QED
  BY <1>2, <1>3 DEF EndInv, StartsFirst, ResultIsSeen, OneEnd, EndOf

LEMMA EndTakesResult ==
  ASSUME EndInv, NEW n \in Nonce, TakeResult(n)
  PROVE  EndInv'
<1>0. /\ EndTyped /\ \A m \in Nonce : EndOf(m)
  BY EndByDispatch
<1>1. PICK c \in Known(n) :
        /\ NoRegression(n, c) /\ ~Over(Evaluated(n, c))
        /\ decision' = [decision EXCEPT ![n] = Evaluated(n, c)]
        /\ returned' = [returned EXCEPT ![n] = time]
  BY DEF TakeResult
<1>2. /\ started[n] # NoMoment /\ time' = time /\ started' = started /\ asked' = asked
  BY DEF TakeResult
<1> DEFINE d == Evaluated(n, c)
<1>3. /\ d \in Decided /\ d.seen = time /\ d.ended = NoMoment /\ ~Over(d)
      /\ time < DeadlineOf(n)
  BY <1>1, <1>2, EvaluationEnds
<1> HIDE DEF d
<1>4. EndTyped' /\ decision'[n] = d /\ returned'[n] = time
  BY <1>0, <1>1, <1>2, <1>3 DEF EndTyped, d
<1>5. EndOf(n)'
  <2>1. time \in Nat /\ NoMoment \in Nat /\ time < NoMoment /\ started[n] \in Nat
    BY <1>0, NoMomentIsLater DEF EndTyped
  <2>2. DeadlineOf(n) \in Nat /\ DeadlineOf(n)' = DeadlineOf(n)
    BY <1>2, <2>1, DurationAssumption DEF DeadlineOf
  <2>3. QED
    BY <1>2, <1>3, <1>4, <2>1, <2>2 DEF EndOf
<1>6. ASSUME NEW m \in Nonce \ {n} PROVE EndOf(m)'
  <2>1. started'[m] = started[m] /\ decision'[m] = decision[m] /\ returned'[m] = returned[m]
    BY <1>0, <1>1, <1>2 DEF EndTyped
  <2>2. EndOf(m)
    BY <1>0
  <2>3. QED
    BY <1>2, <2>1, <2>2 DEF EndOf, DeadlineOf
<1>7. QED
  BY <1>4, <1>5, <1>6 DEF EndInv, StartsFirst, ResultIsSeen, OneEnd, EndOf

LEMMA EndStep ==
  ASSUME EndInv, [ProofNext]_proofVars
  PROVE  EndInv'
<1>0. time \in Moments /\ time \in Nat
  BY EndByDispatch, NoMomentIsLater DEF EndTyped
<1>1. CASE ProofTick
  <2>1. time' \in Moments /\ time' >= time
    BY <1>0, <1>1, DurationAssumption DEF ProofTick, Moments
  <2>2. QED
    BY <1>1, <2>1, EndUndisturbed DEF ProofTick, dispatchVars
<1>2. CASE RotateVerifier
  BY <1>0, <1>2, EndUndisturbed DEF RotateVerifier, dispatchVars
<1>3. CASE RotateSigner
  BY <1>0, <1>3, EndUndisturbed DEF RotateSigner, dispatchVars
<1>4. CASE Supersede
  BY <1>0, <1>4, EndUndisturbed DEF Supersede, dispatchVars
<1>5. CASE ReserveNonce
  BY <1>0, <1>5, EndUndisturbed DEF ReserveNonce, dispatchVars
<1>6. CASE Accept
  BY <1>0, <1>6, EndUndisturbed DEF Accept, dispatchVars
<1>7. CASE Die
  BY <1>0, <1>7, EndUndisturbed DEF Die, dispatchVars
<1>8. ASSUME NEW k \in kept, Forget(k)
      PROVE  EndInv'
  BY <1>0, <1>8, EndUndisturbed DEF Forget, dispatchVars
<1>9. ASSUME NEW n \in Nonce, ProofStep(n)
      PROVE  EndInv'
  <2>1. CASE Sign(n)
    BY <1>0, <2>1, EndUndisturbed DEF Sign, dispatchVars
  <2>2. ASSUME NEW e \in Engine, Receive(n, e)
        PROVE  EndInv'
    BY <1>0, <2>2, EndUndisturbed DEF Receive, dispatchVars
  <2>3. CASE ProveResult(n)
    BY <1>0, <2>3, EndUndisturbed DEF ProveResult
  <2>4. QED
    BY <1>9, <2>1, <2>2, <2>3, EndStarts, EndIsAsked, EndEvaluates, EndTakesResult DEF ProofStep
<1>10. CASE UNCHANGED proofVars
  BY <1>0, <1>10, EndUndisturbed DEF proofVars, dispatchVars
<1>11. QED
  BY <1>1, <1>2, <1>3, <1>4, <1>5, <1>6, <1>7, <1>8, <1>9, <1>10 DEF ProofNext

\* No result is taken after the end of its dispatch, and no end is later than
\* the deadline, in whatever order deadline, cancellation and result become known.
THEOREM DispatchEndsOnce == ProofSpec => []OneEnd
<1>1. EndInv /\ [ProofNext]_proofVars => EndInv'
  BY EndStep
<1>2. EndInv => OneEnd
  BY DEF EndInv
<1>3. QED
  BY <1>1, <1>2, EndInitially, PTL DEF ProofSpec

=============================================================================
