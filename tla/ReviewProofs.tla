---------------------------- MODULE ReviewProofs ----------------------------
(***************************************************************************)
(* The proposals keep the promise of RevisionChain and answer truthfully,  *)
(* for any set of calls, keys and commands; and every publication that is  *)
(* handed on was approved, for any set of processes, approvers and         *)
(* publishers, while revisions are appended.                               *)
(*                                                                         *)
(* The argument for the approvals: a document keeps what holds of it,      *)
(* whatever is appended or made after it; every builder rebuilds what      *)
(* goes before from the head, so what it rests on is among the documents,  *)
(* and is of one revision.                                                 *)
(***************************************************************************)
EXTENDS RevisionApi, ApprovalChain, TLAPS

-----------------------------------------------------------------------------
(* The inductive invariant.                                                *)

\* The points at which a call of the API owns its key.
Owning == {"issue", "load", "authorize", "reserve", "append", "audit"}

Owns(c) == ByApi(c) /\ pc[c] \in Owning

PendingFor(c) == [state |-> "pending", binding |-> BindingOf(c), revision |-> 0]

\* A call of the API is known by its own identity, another by a command's; only
\* the first gets to the points of the API.
RequestsFit ==
  \A c \in Call :
    /\ pc[c] = "idle" => req[c].id = c
    /\ req[c].id \in {c} \union Command
    /\ pc[c] \in {"inspect", "resolve", "read", "verify", "begin", "issue", "audit"} => ByApi(c)

\* A call that owns its key finds its own entry there, and nobody else does.
KeysOwned ==
  /\ \A c \in Call : Owns(c) => slot[req[c].key] = PendingFor(c)
  /\ \A c, d \in Call : Owns(c) /\ Owns(d) /\ req[c].key = req[d].key => c = d

\* A key that has written is not free, and its owner has written only when it
\* says so.
KeysSpent ==
  /\ \A i \in DOMAIN chain : chain[i].key \in Key => slot[chain[i].key] # Free
  /\ \A c \in Call : Owns(c) /\ pc[c] # "audit" =>
       \A i \in DOMAIN chain : chain[i].key # req[c].key

ChainInOrder == \A i \in DOMAIN chain : chain[i].seen = i - 1

\* An owner about to seal its answer has its revision in the chain, and a
\* sealed answer names one with the binding's parent and edit.
SealsHold ==
  /\ \A c \in Call : pc[c] = "audit" =>
       req[c].seen + 1 \in DOMAIN chain /\ chain[req[c].seen + 1] = req[c]
  /\ \A k \in Key : slot[k].state = "committed" =>
       /\ slot[k].revision \in DOMAIN chain
       /\ chain[slot[k].revision].seen = slot[k].binding.seen
       /\ chain[slot[k].revision].edit = slot[k].binding.edit

Refusals == {"stale", "rejected", "conflict", "unavailable"}

AnswersLast == \A c \in Call : pc[c] # "done" => answer[c] = NoAnswer

MadeTrue ==
  \A c \in Call : answer[c].kind \in {"created", "replayed"} =>
    /\ answer[c].revision \in DOMAIN chain
    /\ chain[answer[c].revision].seen = req[c].seen
    /\ chain[answer[c].revision].edit = req[c].edit

\* Until a call has appended, and for ever if it is refused, the chain has no
\* revision of its identity.
RefusedTrue ==
  \A c \in Call :
    req[c].id = c /\ (pc[c] \notin {"audit", "done"} \/ answer[c].kind \in Refusals) =>
      \A i \in DOMAIN chain : chain[i].id # c

KeyInv == ProposalsTypeOK /\ RequestsFit /\ KeysOwned /\ KeysSpent

AnswerInv == ChainInOrder /\ SealsHold /\ AnswersLast /\ MadeTrue /\ RefusedTrue

-----------------------------------------------------------------------------
(* Types.                                                                  *)

USE NoKeyAssumption, CommandAssumption, BoundAssumption

LEMMA SlotTypes ==
  ASSUME NEW s \in Slot
  PROVE  /\ s = Free \/ (s.binding \in Binding /\ s.revision \in 0 .. MaxRevisions
                        /\ s.state \in {"pending", "committed"})
         /\ s.state \in {"free", "pending", "committed"}
  BY DEF Slot, Free

LEMMA SlotForms ==
  ASSUME NEW b \in Binding, NEW n \in 0 .. MaxRevisions
  PROVE  /\ [state |-> "pending", binding |-> b, revision |-> n] \in Slot
         /\ [state |-> "committed", binding |-> b, revision |-> n] \in Slot
  BY DEF Slot

LEMMA Fields ==
  ASSUME ProposalsTypeOK, NEW c \in Call
  PROVE  /\ BindingOf(c) \in Binding
         /\ req[c].key \in Key \union {NoKey} /\ req[c].seen \in 0 .. MaxRevisions
         /\ ByApi(c) => req[c].key \in Key
         /\ Len(chain) \in 0 .. MaxRevisions
  <1>1. req[c] \in Request /\ Len(chain) \in 0 .. MaxRevisions
    BY DEF ProposalsTypeOK
  <1>2. QED
    BY <1>1 DEF Request, BindingOf, Binding, ByApi

LEMMA InitTypes == ProposalInit => ProposalsTypeOK
  BY DEF ProposalInit, ProposalsTypeOK, Request, Author, Edit, Slot, Free, Point, Kind, NoAnswer

\* Every action but Abort, Begin and Audit leaves the slots alone.
LEMMA TellTypes ==
  ASSUME ProposalsTypeOK, NEW c \in Call, NEW kind \in Kind, NEW n \in 0 .. MaxRevisions,
         Tell(c, kind, n)
  PROVE  /\ pc' \in [Call -> Point]
         /\ answer' \in [Call -> [kind : Kind, revision : 0 .. MaxRevisions]]
  BY DEF ProposalsTypeOK, Tell, GoTo, Point

LEMMA GoToTypes ==
  ASSUME ProposalsTypeOK, NEW c \in Call, NEW p \in Point, GoTo(c, p)
  PROVE  pc' \in [Call -> Point]
  BY DEF ProposalsTypeOK, GoTo

LEMMA AbortTypes ==
  ASSUME ProposalsTypeOK, NEW c \in Call, Abort(c)
  PROVE  slot' \in [Key -> Slot]
  BY DEF ProposalsTypeOK, Abort, ByApi, Slot, Request

LEMMA RefuseTypes ==
  ASSUME ProposalsTypeOK, NEW c \in Call, NEW kind \in Kind, Refuse(c, kind)
  PROVE  /\ slot' \in [Key -> Slot]
         /\ pc' \in [Call -> Point]
         /\ answer' \in [Call -> [kind : Kind, revision : 0 .. MaxRevisions]]
  BY AbortTypes, TellTypes, 0 \in 0 .. MaxRevisions DEF Refuse

LEMMA DoubtTypes ==
  ASSUME ProposalsTypeOK, NEW c \in Call, Doubt(c)
  PROVE  /\ slot' \in [Key -> Slot]
         /\ pc' \in [Call -> Point]
         /\ answer' \in [Call -> [kind : Kind, revision : 0 .. MaxRevisions]]
  <1>1. "reconcile" \in Kind /\ 0 \in 0 .. MaxRevisions /\ slot' = slot
    BY DEF Doubt, Kind
  <1>2. QED
    BY <1>1, TellTypes DEF Doubt, ProposalsTypeOK

LEMMA TakenTypes ==
  ASSUME ProposalsTypeOK, NEW c \in Call, slot[req[c].key] # Free, req[c].key \in Key, Taken(c)
  PROVE  /\ pc' \in [Call -> Point]
         /\ answer' \in [Call -> [kind : Kind, revision : 0 .. MaxRevisions]]
  <1>1. slot[req[c].key].revision \in 0 .. MaxRevisions
    BY SlotTypes DEF ProposalsTypeOK
  <1>2. {"conflict", "reconcile", "replayed"} \subseteq Kind /\ 0 \in 0 .. MaxRevisions
    BY DEF Kind
  <1>3. QED
    BY <1>1, <1>2, TellTypes DEF Taken

LEMMA MadeTypes ==
  ASSUME ProposalsTypeOK, NEW c \in Call, Len(chain) < MaxRevisions,
         chain' = Append(chain, Made(c))
  PROVE  chain' \in Seq(Request) /\ Len(chain') <= MaxRevisions
  BY DEF ProposalsTypeOK, Made

LEMMA StepTypes ==
  ASSUME ProposalsTypeOK, RequestsFit, KeysOwned, SealsHold, NEW c \in Call, Step(c)
  PROVE  ProposalsTypeOK'
  <1> DEFINE Answers == [Call -> [kind : Kind, revision : 0 .. MaxRevisions]]
  <1> DEFINE Points == [Call -> Point]
  <1> USE DEF ProposalsTypeOK
  <1>1. CASE Propose(c)
    <2>1. 0 .. Len(chain) \subseteq 0 .. MaxRevisions
      OBVIOUS
    <2>2. req' \in [Call -> Request]
      BY <1>1, <2>1 DEF Propose, Request, Author
    <2>3. QED
      BY <1>1, <2>2, GoToTypes DEF Propose, Point
  <1>2. CASE Submit(c)
    <2>1. 0 .. Len(chain) \subseteq 0 .. MaxRevisions
      OBVIOUS
    <2>2. req' \in [Call -> Request]
      BY <1>2, <2>1 DEF Submit, Request, Author
    <2>3. QED
      BY <1>2, <2>2, GoToTypes DEF Submit, Point
  <1>3. CASE Inspect(c)
    <2>1. req[c].key \in Key
      BY <1>3, Fields DEF Inspect, RequestsFit
    <2>2. pc' \in Points /\ answer' \in Answers
      BY <1>3, <2>1, GoToTypes, TakenTypes DEF Inspect, Point
    <2>3. QED
      BY <1>3, <2>2 DEF Inspect
  <1>4. CASE Resolve(c)
    <2>1. pc' \in Points /\ answer' \in Answers
      BY <1>4, GoToTypes, TellTypes DEF Resolve, Point, Kind
    <2>2. QED
      BY <1>4, <2>1 DEF Resolve
  <1>5. CASE ReadRows(c)
    <2>1. pc' \in Points
      BY <1>5, GoToTypes DEF ReadRows, Point
    <2>2. rows' \in [Call -> 0 .. MaxRevisions]
      BY <1>5, Fields DEF ReadRows
    <2>3. QED
      BY <1>5, <2>1, <2>2 DEF ReadRows
  <1>6. CASE Verify(c)
    <2>1. pc' \in Points /\ answer' \in Answers
      BY <1>6, GoToTypes, TellTypes DEF Verify, Point, Kind
    <2>2. QED
      BY <1>6, <2>1 DEF Verify
  <1>7. CASE Begin(c)
    <2>1. req[c].key \in Key
      BY <1>7, Fields DEF Begin, RequestsFit
    <2>2. pc' \in Points /\ answer' \in Answers
      BY <1>7, <2>1, GoToTypes, TakenTypes DEF Begin, Point
    <2>3. slot' \in [Key -> Slot]
      <3> DEFINE new == [state |-> "pending", binding |-> BindingOf(c), revision |-> 0]
      <3>1. new \in Slot
        BY Fields, SlotForms, 0 \in 0 .. MaxRevisions
      <3>2. slot' = slot \/ slot' = [slot EXCEPT ![req[c].key] = new]
        BY <1>7 DEF Begin
      <3> HIDE DEF new
      <3>3. QED
        BY <2>1, <3>1, <3>2
    <2>4. QED
      BY <1>7, <2>2, <2>3 DEF Begin
  <1>8. CASE Issue(c)
    <2>1. CASE Refuse(c, "unavailable")
      BY <1>8, <2>1, RefuseTypes DEF Issue, Kind
    <2>2. CASE GoTo(c, "load") /\ UNCHANGED <<slot, answer>>
      BY <1>8, <2>2, GoToTypes DEF Issue, Point
    <2>3. QED
      BY <1>8, <2>1, <2>2 DEF Issue
  <1>9. CASE Authorize(c)
    <2>1. pc' \in Points /\ answer' \in Answers /\ slot' \in [Key -> Slot]
      BY <1>9, GoToTypes, RefuseTypes, DoubtTypes DEF Authorize, Point, Kind
    <2>2. QED
      BY <1>9, <2>1 DEF Authorize
  <1>10. CASE Reserve(c)
    <2>0. {"conflict", "unavailable"} \subseteq Kind /\ "append" \in Point
      BY DEF Kind, Point
    <2>1. pc' \in Points /\ answer' \in Answers /\ slot' \in [Key -> Slot]
      BY <1>10, <2>0, GoToTypes, RefuseTypes DEF Reserve
    <2>2. [id |-> req[c].id, seen |-> req[c].seen, edit |-> req[c].edit]
            \in [id : Author, seen : 0 .. MaxRevisions, edit : Edit]
      BY DEF Request
    <2>3. QED
      BY <1>10, <2>1, <2>2 DEF Reserve
  <1>11. CASE AppendRevision(c)
    <2>1. chain' \in Seq(Request) /\ Len(chain') <= MaxRevisions
      BY <1>11, MadeTypes DEF AppendRevision
    <2>2. Len(chain') \in 0 .. MaxRevisions
      BY <2>1
    <2>3. pc' \in Points /\ answer' \in Answers /\ slot' \in [Key -> Slot]
      BY <1>11, <2>2, GoToTypes, TellTypes, RefuseTypes DEF AppendRevision, Appended, Point, Kind
    <2>4. QED
      BY <1>11, <2>1, <2>3 DEF AppendRevision
  <1>12. CASE StoreFails(c)
    <2>1. chain' \in Seq(Request) /\ Len(chain') <= MaxRevisions
      BY <1>12, MadeTypes DEF StoreFails
    <2>2. QED
      BY <1>12, <2>1, DoubtTypes DEF StoreFails
  <1>13. CASE Audit(c)
    <2>1. CASE Doubt(c)
      BY <1>13, <2>1, DoubtTypes DEF Audit
    <2>2. CASE ~Doubt(c)
      <3>1. req[c].key \in Key /\ slot[req[c].key].binding \in Binding
        <4>1. pc[c] = "audit" /\ ByApi(c)
          BY <1>13 DEF Audit, RequestsFit
        <4>2. slot[req[c].key] = PendingFor(c)
          BY <4>1 DEF KeysOwned, Owns, Owning
        <4>3. PendingFor(c).binding = BindingOf(c)
          BY DEF PendingFor
        <4>4. QED
          BY <4>1, <4>2, <4>3, Fields
      <3>2. req[c].seen + 1 \in 0 .. MaxRevisions
        BY <1>13 DEF Audit, SealsHold
      <3> DEFINE sealed == [state |-> "committed", binding |-> slot[req[c].key].binding,
                            revision |-> req[c].seen + 1]
      <3>3. sealed \in Slot
        BY <3>1, <3>2, SlotForms
      <3>4. /\ slot' = [slot EXCEPT ![req[c].key] = sealed]
            /\ Tell(c, "created", req[c].seen + 1)
        BY <1>13, <2>2 DEF Audit
      <3>5. slot' \in [Key -> Slot]
        <4> HIDE DEF sealed
        <4>1. QED
          BY <3>1, <3>3, <3>4
      <3>6. "created" \in Kind
        BY DEF Kind
      <3>7. pc' \in Points /\ answer' \in Answers
        BY <3>2, <3>4, <3>6, TellTypes
      <3>8. QED
        BY <1>13, <3>5, <3>7 DEF Audit
    <2>3. QED
      BY <1>13, <2>1, <2>2 DEF Audit, Doubt
  <1>14. QED
    BY <1>1, <1>2, <1>3, <1>4, <1>5, <1>6, <1>7, <1>8, <1>9, <1>10, <1>11, <1>12, <1>13 DEF Step

-----------------------------------------------------------------------------
(* What a step does to the keys, the chain and the answers: each action is *)
(* one of these changes.                                                   *)

Asks(c) ==
  /\ pc[c] = "idle" /\ UNCHANGED <<chain, slot, answer>>
  /\ \E r \in Request :
       /\ req' = [req EXCEPT ![c] = r]
       /\ \/ r.id = c /\ r.key \in Key /\ GoTo(c, "inspect")
          \/ r.id \in Command /\ r.key = NoKey /\ GoTo(c, "load")

Moves(c) ==
  /\ UNCHANGED <<chain, slot, req, answer>>
  /\ \/ /\ pc[c] \in {"inspect", "resolve", "read", "verify"}
        /\ \E p \in {"resolve", "read", "verify", "begin"} : GoTo(c, p)
     \/ /\ pc[c] \in {"issue", "load", "authorize", "reserve"}
        /\ \E p \in {"load", "authorize", "reserve", "append"} : GoTo(c, p)

Takes(c) ==
  /\ pc[c] = "begin" /\ slot[req[c].key] = Free
  /\ slot' = [slot EXCEPT ![req[c].key] = PendingFor(c)]
  /\ GoTo(c, "issue") /\ UNCHANGED <<chain, req, answer>>

Says(c) ==
  /\ pc[c] \notin {"idle", "done"} /\ UNCHANGED <<chain, slot, req>>
  /\ \/ pc[c] # "audit" /\ \E k \in Refusals : Tell(c, k, 0)
     \/ Tell(c, "reconcile", 0)
     \/ /\ req[c].key \in Key /\ slot[req[c].key].state = "committed"
        /\ slot[req[c].key].binding = BindingOf(c)
        /\ Tell(c, "replayed", slot[req[c].key].revision)
     \/ IsHead(c) /\ Tell(c, "replayed", Len(chain))

Gives(c) ==
  /\ Owns(c) /\ pc[c] # "audit" /\ UNCHANGED <<chain, req>>
  /\ slot' = [slot EXCEPT ![req[c].key] = Free]
  /\ \E k \in Refusals : Tell(c, k, 0)

Finds(c) ==
  /\ pc[c] = "append" /\ IsHead(c) /\ ByApi(c)
  /\ GoTo(c, "audit") /\ UNCHANGED <<chain, slot, req, answer>>

Writes(c) ==
  /\ pc[c] = "append" /\ Len(chain) = req[c].seen
  /\ chain' = Append(chain, req[c]) /\ UNCHANGED <<slot, req>>
  /\ \/ ByApi(c) /\ GoTo(c, "audit") /\ UNCHANGED answer
     \/ ~ByApi(c) /\ Tell(c, "created", Len(chain) + 1)
     \/ Tell(c, "reconcile", 0)

Seals(c) ==
  /\ pc[c] = "audit" /\ UNCHANGED <<chain, req>>
  /\ slot' = [slot EXCEPT ![req[c].key] =
                [state |-> "committed", binding |-> @.binding, revision |-> req[c].seen + 1]]
  /\ Tell(c, "created", req[c].seen + 1)

Effect(c) ==
  \/ Asks(c)  \/ Moves(c) \/ Takes(c)  \/ Says(c)
  \/ Gives(c) \/ Finds(c) \/ Writes(c) \/ Seals(c)

\* A refusal between the key's reservation and the append frees the key of an
\* owner, and changes no key for another.
LEMMA RefuseEffect ==
  ASSUME NEW c \in Call, NEW k \in Refusals, Refuse(c, k), UNCHANGED <<chain, req>>,
         pc[c] \in {"issue", "load", "authorize", "reserve", "append"}
  PROVE  Says(c) \/ Gives(c)
  <1>1. CASE ByApi(c) /\ slot[req[c].key].state = "pending"
    BY <1>1 DEF Refuse, Abort, Gives, Owns, Owning
  <1>2. CASE ~(ByApi(c) /\ slot[req[c].key].state = "pending")
    BY <1>2 DEF Refuse, Abort, Says
  <1>3. QED
    BY <1>1, <1>2

LEMMA DoubtEffect ==
  ASSUME NEW c \in Call, Doubt(c), UNCHANGED <<chain, req>>, pc[c] \notin {"idle", "done"}
  PROVE  Says(c)
  BY DEF Doubt, Says

LEMMA TakenEffect ==
  ASSUME NEW c \in Call, Taken(c), UNCHANGED <<chain, slot, req>>, req[c].key \in Key,
         pc[c] \in {"inspect", "begin"}
  PROVE  Says(c)
  BY DEF Taken, Says, Refusals

LEMMA StepEffect ==
  ASSUME ProposalsTypeOK, RequestsFit, NEW c \in Call, Step(c)
  PROVE  Effect(c)
  <1>1. CASE Propose(c)
    <2>1. PICK k \in Key, n \in 0 .. Len(chain), e \in Edit :
            req' = [req EXCEPT ![c] = [id |-> c, key |-> k, seen |-> n, edit |-> e]]
      BY <1>1 DEF Propose
    <2>2. [id |-> c, key |-> k, seen |-> n, edit |-> e] \in Request
      BY Fields DEF Request, Author
    <2>3. Asks(c)
      BY <1>1, <2>1, <2>2 DEF Propose, Asks
    <2>4. QED
      BY <2>3 DEF Effect
  <1>2. CASE Submit(c)
    <2>1. PICK i \in Command, n \in 0 .. Len(chain), e \in Edit :
            req' = [req EXCEPT ![c] = [id |-> i, key |-> NoKey, seen |-> n, edit |-> e]]
      BY <1>2 DEF Submit
    <2>2. [id |-> i, key |-> NoKey, seen |-> n, edit |-> e] \in Request
      BY Fields DEF Request, Author
    <2>3. Asks(c)
      BY <1>2, <2>1, <2>2 DEF Submit, Asks
    <2>4. QED
      BY <2>3 DEF Effect
  <1>3. CASE Inspect(c)
    <2>1. req[c].key \in Key /\ pc[c] = "inspect" /\ UNCHANGED <<chain, slot, req>>
      BY <1>3, Fields DEF Inspect, RequestsFit
    <2>2. CASE Taken(c)
      BY <2>1, <2>2, TakenEffect DEF Effect
    <2>3. CASE GoTo(c, "resolve") /\ UNCHANGED answer
      BY <2>1, <2>3 DEF Moves, Effect
    <2>4. QED
      BY <1>3, <2>2, <2>3 DEF Inspect
  <1>4. CASE Resolve(c)
    BY <1>4 DEF Resolve, Moves, Says, Refusals, Effect
  <1>5. CASE ReadRows(c)
    BY <1>5 DEF ReadRows, Moves, Effect
  <1>6. CASE Verify(c)
    BY <1>6 DEF Verify, Moves, Says, Refusals, Effect
  <1>7. CASE Begin(c)
    <2>1. req[c].key \in Key /\ pc[c] = "begin" /\ UNCHANGED <<chain, req>>
      BY <1>7, Fields DEF Begin, RequestsFit
    <2>2. CASE Taken(c) /\ UNCHANGED slot
      BY <2>1, <2>2, TakenEffect DEF Effect
    <2>3. CASE slot[req[c].key] = Free
      BY <1>7, <2>1, <2>3 DEF Begin, Takes, PendingFor, Effect
    <2>4. QED
      BY <1>7, <2>2, <2>3 DEF Begin
  <1>8. CASE Issue(c)
    <2>1. CASE Refuse(c, "unavailable")
      BY <1>8, <2>1, RefuseEffect DEF Issue, Refusals, Effect
    <2>2. CASE GoTo(c, "load") /\ UNCHANGED <<slot, answer>>
      BY <1>8, <2>2 DEF Issue, Moves, Effect
    <2>3. QED
      BY <1>8, <2>1, <2>2 DEF Issue
  <1>9. CASE Authorize(c)
    <2>1. CASE Doubt(c)
      BY <1>9, <2>1, DoubtEffect DEF Authorize, Effect
    <2>2. CASE Refuse(c, "stale") \/ Refuse(c, "rejected")
      BY <1>9, <2>2, RefuseEffect DEF Authorize, Refusals, Effect
    <2>3. CASE GoTo(c, "reserve") /\ UNCHANGED <<slot, answer>>
      BY <1>9, <2>3 DEF Authorize, Moves, Effect
    <2>4. QED
      BY <1>9, <2>1, <2>2, <2>3 DEF Authorize
  <1>10. CASE Reserve(c)
    <2>1. CASE Refuse(c, "conflict") \/ Refuse(c, "unavailable")
      BY <1>10, <2>1, RefuseEffect DEF Reserve, Refusals, Effect
    <2>2. CASE GoTo(c, "append") /\ UNCHANGED <<slot, answer>>
      BY <1>10, <2>2 DEF Reserve, Moves, Effect
    <2>3. QED
      BY <1>10, <2>1, <2>2 DEF Reserve
  <1>11. CASE AppendRevision(c)
    <2>1. pc[c] = "append" /\ UNCHANGED req
      BY <1>11 DEF AppendRevision
    <2>2. CASE IsHead(c) /\ UNCHANGED <<chain, slot>> /\ Appended(c, "replayed")
      BY <2>1, <2>2 DEF Appended, Finds, Says, Effect
    <2>3. CASE UNCHANGED chain /\ Refuse(c, "stale")
      BY <2>1, <2>3, RefuseEffect DEF Refusals, Effect
    <2>4. CASE /\ Len(chain) = req[c].seen /\ chain' = Append(chain, Made(c))
               /\ UNCHANGED slot /\ Appended(c, "created")
      <3>1. Len(chain') = Len(chain) + 1 /\ chain' = Append(chain, req[c])
        BY <2>4 DEF ProposalsTypeOK, Made
      <3>2. Writes(c)
        BY <2>1, <2>4, <3>1 DEF Appended, Writes
      <3>3. QED
        BY <3>2 DEF Effect
    <2>5. QED
      BY <1>11, <2>2, <2>3, <2>4 DEF AppendRevision
  <1>12. CASE StoreFails(c)
    <2>1. CASE UNCHANGED chain
      BY <1>12, <2>1, DoubtEffect DEF StoreFails, Effect
    <2>2. CASE Len(chain) = req[c].seen /\ chain' = Append(chain, Made(c))
      BY <1>12, <2>2 DEF StoreFails, Doubt, Made, Writes, Effect
    <2>3. QED
      BY <1>12, <2>1, <2>2 DEF StoreFails
  <1>13. CASE Audit(c)
    <2>1. CASE Doubt(c)
      BY <1>13, <2>1, DoubtEffect DEF Audit, Effect
    <2>2. CASE ~Doubt(c)
      BY <1>13, <2>2 DEF Audit, Seals, Effect
    <2>3. QED
      BY <2>1, <2>2
  <1>14. QED
    BY <1>1, <1>2, <1>3, <1>4, <1>5, <1>6, <1>7, <1>8, <1>9, <1>10, <1>11, <1>12, <1>13 DEF Step

-----------------------------------------------------------------------------
(* The parts of the invariant, one lemma each, over the changes a step     *)
(* makes.                                                                  *)

LEMMA OthersStay ==
  ASSUME ProposalsTypeOK, NEW c \in Call, Effect(c), NEW d \in Call, d # c
  PROVE  pc'[d] = pc[d] /\ req'[d] = req[d] /\ answer'[d] = answer[d]
  <1> USE DEF ProposalsTypeOK
  <1>1. pc'[d] = pc[d]
    BY DEF Effect, Asks, Moves, Takes, Says, Gives, Finds, Writes, Seals, GoTo, Tell
  <1>2. req'[d] = req[d]
    BY DEF Effect, Asks, Moves, Takes, Says, Gives, Finds, Writes, Seals
  <1>3. answer'[d] = answer[d]
    BY DEF Effect, Asks, Moves, Takes, Says, Gives, Finds, Writes, Seals, Tell
  <1>4. QED
    BY <1>1, <1>2, <1>3

LEMMA Appends ==
  ASSUME ProposalsTypeOK, NEW c \in Call, chain' = Append(chain, req[c])
  PROVE  /\ DOMAIN chain' = DOMAIN chain \union {Len(chain) + 1}
         /\ Len(chain) + 1 \notin DOMAIN chain /\ Len(chain) \in Nat
         /\ Len(chain') = Len(chain) + 1
         /\ \A i \in DOMAIN chain : chain'[i] = chain[i]
         /\ chain'[Len(chain) + 1] = req[c]
  BY DEF ProposalsTypeOK

\* The chain grows at its end, or stays.
LEMMA Grows ==
  ASSUME ProposalsTypeOK, NEW c \in Call, Effect(c)
  PROVE  \/ Writes(c)
         \/ chain' = chain
  BY DEF Effect, Asks, Moves, Takes, Says, Gives, Finds, Seals

\* Only the first step of a call changes its request.
LEMMA RequestStays ==
  ASSUME NEW c \in Call, Effect(c), ~Asks(c)
  PROVE  req' = req
  BY DEF Effect, Moves, Takes, Says, Gives, Finds, Writes, Seals

LEMMA RequestsFitStep ==
  ASSUME ProposalsTypeOK, RequestsFit, NEW c \in Call, Effect(c)
  PROVE  RequestsFit'
  <1> DEFINE Fits(d) ==
        /\ pc[d] = "idle" => req[d].id = d
        /\ req[d].id \in {d} \union Command
        /\ pc[d] \in {"inspect", "resolve", "read", "verify", "begin", "issue", "audit"} => ByApi(d)
  <1>1. ASSUME NEW d \in Call, d # c PROVE Fits(d)'
    BY <1>1, OthersStay DEF RequestsFit, ByApi
  <1>2. Fits(c)'
    <2> USE DEF ProposalsTypeOK, GoTo
    <2>1. CASE Asks(c)
      BY <2>1 DEF Asks, ByApi
    <2>2. CASE Moves(c)
      BY <2>2 DEF Moves, RequestsFit, ByApi
    <2>3. CASE Takes(c)
      BY <2>3 DEF Takes, RequestsFit, ByApi
    <2>4. CASE Says(c) \/ Gives(c) \/ Seals(c)
      BY <2>4 DEF Says, Gives, Seals, Tell, RequestsFit, ByApi
    <2>5. CASE Finds(c)
      BY <2>5 DEF Finds, RequestsFit, ByApi
    <2>6. CASE Writes(c)
      BY <2>6 DEF Writes, Tell, RequestsFit, ByApi
    <2>7. QED
      BY <2>1, <2>2, <2>3, <2>4, <2>5, <2>6 DEF Effect
  <1>3. QED
    BY <1>1, <1>2 DEF RequestsFit

\* A step makes its call an owner only by taking the free key.
LEMMA OwnersStay ==
  ASSUME ProposalsTypeOK, RequestsFit, NEW c \in Call, Effect(c), NEW d \in Call, Owns(d)'
  PROVE  /\ Owns(d) \/ (d = c /\ Takes(c))
         /\ req'[d] = req[d]
         /\ pc'[d] # "audit" => pc[d] # "audit"
         /\ d = c => Moves(c) \/ Takes(c) \/ Finds(c) \/ Writes(c)
  <1> USE DEF ProposalsTypeOK, GoTo, Owns, Owning
  <1>1. CASE d # c
    BY <1>1, OthersStay DEF ByApi
  <1>2. CASE d = c
    <2>1. CASE Asks(c)
      BY <1>2, <2>1 DEF Asks, ByApi
    <2>2. CASE Moves(c)
      BY <1>2, <2>2 DEF Moves, ByApi
    <2>3. CASE Takes(c)
      BY <1>2, <2>3 DEF Takes, ByApi
    <2>4. CASE Says(c) \/ Gives(c) \/ Seals(c)
      BY <1>2, <2>4 DEF Says, Gives, Seals, Tell
    <2>5. CASE Finds(c)
      BY <1>2, <2>5 DEF Finds, ByApi
    <2>6. CASE Writes(c)
      BY <1>2, <2>6 DEF Writes, Tell, ByApi
    <2>7. QED
      BY <2>1, <2>2, <2>3, <2>4, <2>5, <2>6 DEF Effect
  <1>3. QED
    BY <1>1, <1>2

\* The slots change only where the call that makes the step owns or takes one.
LEMMA SlotsStay ==
  ASSUME ProposalsTypeOK, RequestsFit, NEW c \in Call, Effect(c)
  PROVE  \/ slot' = slot
         \/ /\ Takes(c) \/ Gives(c) \/ Seals(c)
            /\ req[c].key \in Key /\ req' = req
            /\ \A k \in Key : k # req[c].key => slot'[k] = slot[k]
  <1> USE DEF ProposalsTypeOK
  <1>1. CASE Takes(c)
    BY <1>1, Fields DEF Takes, RequestsFit
  <1>2. CASE Gives(c)
    BY <1>2, Fields DEF Gives, Owns
  <1>3. CASE Seals(c)
    BY <1>3, Fields DEF Seals, RequestsFit
  <1>4. CASE ~(Takes(c) \/ Gives(c) \/ Seals(c))
    BY <1>4 DEF Effect, Asks, Moves, Says, Finds, Writes
  <1>5. QED
    BY <1>1, <1>2, <1>3, <1>4

LEMMA PendingIsTaken ==
  ASSUME NEW c \in Call
  PROVE  PendingFor(c) # Free
  <1>1. PendingFor(c).state = "pending" /\ Free.state = "free"
    BY DEF PendingFor, Free
  <1>2. QED
    BY <1>1

LEMMA KeysOwnedStep ==
  ASSUME ProposalsTypeOK, RequestsFit, KeysOwned, NEW c \in Call, Effect(c)
  PROVE  KeysOwned'
  <1>1. ASSUME NEW d \in Call, NEW e \in Call, Owns(d)', Owns(e)', (req[d].key = req[e].key)'
        PROVE  d = e
    <2>1. CASE Owns(d) /\ Owns(e)
      BY <1>1, <2>1, OwnersStay DEF KeysOwned
    <2>2. CASE Takes(c) /\ d = c /\ e # c
      <3>1. Owns(e) /\ slot[req[e].key] = Free /\ slot[req[e].key] = PendingFor(e)
        BY <1>1, <2>2, OwnersStay DEF Takes, KeysOwned
      <3>2. QED
        BY <3>1 DEF Free, PendingFor
    <2>3. CASE Takes(c) /\ e = c /\ d # c
      <3>1. Owns(d) /\ slot[req[d].key] = Free /\ slot[req[d].key] = PendingFor(d)
        BY <1>1, <2>3, OwnersStay DEF Takes, KeysOwned
      <3>2. QED
        BY <3>1 DEF Free, PendingFor
    <2>4. QED
      BY <1>1, <2>1, <2>2, <2>3, OwnersStay
  <1>2. ASSUME NEW d \in Call, Owns(d)' PROVE (slot[req[d].key] = PendingFor(d))'
    <2>1. req'[d] = req[d] /\ PendingFor(d)' = PendingFor(d)
      BY <1>2, OwnersStay DEF PendingFor, BindingOf
    <2>2. CASE Takes(c) /\ d = c
      <3>1. req[c].key \in Key
        BY <2>2, Fields DEF Takes, RequestsFit
      <3>2. QED
        BY <2>1, <2>2, <3>1 DEF Takes, ProposalsTypeOK
    <2>3. CASE Owns(d) /\ slot' = slot
      BY <2>1, <2>3 DEF KeysOwned
    <2>4. CASE /\ Owns(d) /\ (Takes(c) \/ Gives(c) \/ Seals(c)) /\ ~(Takes(c) /\ d = c)
               /\ \A k \in Key : k # req[c].key => slot'[k] = slot[k]
      <3>1. req[d].key \in Key
        BY <2>4, Fields DEF Owns
      <3>2. CASE req[d].key = req[c].key
        <4>1. CASE Takes(c)
          BY <2>4, <3>2, <4>1, PendingIsTaken DEF Takes, KeysOwned
        <4>2. CASE Gives(c) \/ Seals(c)
          <5>1. Owns(c)
            BY <4>2 DEF Gives, Seals, Owns, Owning, RequestsFit
          <5>2. d = c
            BY <2>4, <3>2, <5>1 DEF KeysOwned
          <5>3. pc'[c] = "done"
            BY <4>2 DEF Gives, Seals, Tell, GoTo, ProposalsTypeOK
          <5>4. QED
            BY <1>2, <5>2, <5>3 DEF Owns, Owning
        <4>3. QED
          BY <2>4, <4>1, <4>2
      <3>3. CASE req[d].key # req[c].key
        BY <2>1, <2>4, <3>1, <3>3 DEF KeysOwned
      <3>4. QED
        BY <3>2, <3>3
    <2>5. QED
      BY <1>2, <2>2, <2>3, <2>4, OwnersStay, SlotsStay
  <1>3. QED
    BY <1>1, <1>2 DEF KeysOwned

LEMMA KeysSpentStep ==
  ASSUME ProposalsTypeOK, RequestsFit, KeysOwned, KeysSpent, NEW c \in Call, Effect(c)
  PROVE  KeysSpent'
  <1>1. ASSUME NEW i \in DOMAIN chain', chain'[i].key \in Key
        PROVE  slot'[chain'[i].key] # Free
    <2>1. CASE Writes(c) /\ i = Len(chain) + 1
      <3>1. chain'[i] = req[c] /\ slot' = slot
        BY <2>1, Appends DEF Writes
      <3>2. Owns(c)
        BY <1>1, <2>1, <3>1 DEF Writes, Owns, Owning, ByApi
      <3>3. QED
        BY <3>1, <3>2, PendingIsTaken DEF KeysOwned
    <2>2. CASE i \in DOMAIN chain /\ chain'[i] = chain[i]
      <3>1. slot[chain[i].key] # Free /\ chain[i].key \in Key
        BY <1>1, <2>2 DEF KeysSpent
      <3>2. CASE slot' = slot
        BY <2>2, <3>1, <3>2
      <3>3. CASE chain[i].key # req[c].key /\ slot'[chain[i].key] = slot[chain[i].key]
        BY <2>2, <3>1, <3>3
      <3>4. CASE chain[i].key = req[c].key /\ Takes(c)
        BY <3>1, <3>4 DEF Takes
      <3>5. CASE chain[i].key = req[c].key /\ Gives(c)
        BY <2>2, <3>5 DEF Gives, KeysSpent
      <3>6. CASE chain[i].key = req[c].key /\ Seals(c)
        BY <2>2, <3>1, <3>6 DEF Seals, Free, ProposalsTypeOK
      <3>7. QED
        BY <3>1, <3>2, <3>3, <3>4, <3>5, <3>6, SlotsStay
    <2>3. QED
      <3>1. CASE Writes(c)
        BY <1>1, <2>1, <2>2, <3>1, Appends DEF Writes
      <3>2. CASE chain' = chain
        BY <1>1, <2>2, <3>2
      <3>3. QED
        BY <3>1, <3>2, Grows
  <1>2. ASSUME NEW d \in Call, Owns(d)', pc'[d] # "audit", NEW i \in DOMAIN chain'
        PROVE  chain'[i].key # req'[d].key
    <2>1. /\ Owns(d) \/ (d = c /\ Takes(c))
          /\ req'[d] = req[d] /\ pc[d] # "audit"
          /\ d = c => Moves(c) \/ Takes(c) \/ Finds(c) \/ Writes(c)
      BY <1>2, OwnersStay
    <2>2. CASE Takes(c) /\ d = c
      <3>1. req[c].key \in Key /\ slot[req[c].key] = Free /\ chain' = chain
        BY <2>2, Fields DEF Takes, RequestsFit
      <3>2. QED
        BY <1>2, <2>1, <2>2, <3>1 DEF KeysSpent
    <2>3. CASE Owns(d) /\ i \in DOMAIN chain /\ chain'[i] = chain[i]
      BY <2>1, <2>3 DEF KeysSpent
    <2>4. CASE Owns(d) /\ Writes(c) /\ i = Len(chain) + 1
      <3>1. chain'[i] = req[c]
        BY <2>4, Appends DEF Writes
      <3>2. d # c
        <4>1. SUFFICES ASSUME d = c PROVE FALSE
          OBVIOUS
        <4>2. pc'[c] \in {"audit", "done"}
          BY <2>4 DEF Writes, Tell, GoTo, ProposalsTypeOK
        <4>3. QED
          BY <1>2, <4>1, <4>2 DEF Owns, Owning
      <3>3. CASE ByApi(c)
        BY <2>1, <2>4, <3>1, <3>2, <3>3 DEF KeysOwned, Owns, Owning, Writes
      <3>4. CASE ~ByApi(c)
        BY <2>1, <2>4, <3>1, <3>4 DEF Owns, ByApi
      <3>5. QED
        BY <3>3, <3>4
    <2>5. QED
      <3>1. CASE Writes(c)
        <4>1. ~Takes(c)
          BY <3>1 DEF Writes, Takes
        <4>2. QED
          BY <1>2, <2>1, <2>3, <2>4, <3>1, <4>1, Appends DEF Writes
      <3>2. CASE chain' = chain
        BY <1>2, <2>1, <2>2, <2>3, <3>2
      <3>3. QED
        BY <3>1, <3>2, Grows
  <1>3. QED
    BY <1>1, <1>2 DEF KeysSpent

LEMMA ChainInOrderStep ==
  ASSUME ProposalsTypeOK, ChainInOrder, NEW c \in Call, Effect(c)
  PROVE  ChainInOrder'
  <1>1. CASE chain' = chain
    BY <1>1 DEF ChainInOrder
  <1>2. CASE Writes(c)
    <2>1. chain' = Append(chain, req[c]) /\ req[c].seen = Len(chain)
      BY <1>2 DEF Writes
    <2>2. ASSUME NEW i \in DOMAIN chain' PROVE chain'[i].seen = i - 1
      <3>1. CASE i \in DOMAIN chain
        BY <2>1, <3>1, Appends DEF ChainInOrder
      <3>2. CASE i = Len(chain) + 1
        BY <2>1, <3>2, Appends
      <3>3. QED
        BY <2>1, <2>2, <3>1, <3>2, Appends
    <2>3. QED
      BY <2>2 DEF ChainInOrder
  <1>3. QED
    BY <1>1, <1>2, Grows

\* What stands in the chain stays.
LEMMA EntriesStay ==
  ASSUME ProposalsTypeOK, NEW c \in Call, Effect(c), NEW i \in DOMAIN chain
  PROVE  i \in DOMAIN chain' /\ chain'[i] = chain[i]
  BY Grows, Appends DEF Writes

LEMMA SealsHoldStep ==
  ASSUME ProposalsTypeOK, RequestsFit, KeysOwned, ChainInOrder, SealsHold,
         NEW c \in Call, Effect(c)
  PROVE  SealsHold'
  <1>1. ASSUME NEW d \in Call, pc'[d] = "audit"
        PROVE  /\ req'[d].seen + 1 \in DOMAIN chain'
               /\ chain'[req'[d].seen + 1] = req'[d]
    <2>1. CASE d # c
      <3>1. pc[d] = "audit" /\ req'[d] = req[d]
        BY <1>1, <2>1, OthersStay
      <3>2. QED
        BY <3>1, EntriesStay DEF SealsHold
    <2>2. CASE d = c
      <3> USE DEF ProposalsTypeOK, GoTo
      <3>1. CASE Asks(c) \/ Moves(c) \/ Takes(c)
        BY <1>1, <2>2, <3>1 DEF Asks, Moves, Takes
      <3>2. CASE Says(c) \/ Gives(c) \/ Seals(c)
        BY <1>1, <2>2, <3>2 DEF Says, Gives, Seals, Tell
      <3>3. CASE Finds(c)
        <4>1. chain # <<>> /\ chain[Len(chain)] = req[c] /\ UNCHANGED <<chain, req>>
          BY <3>3 DEF Finds, IsHead, Made
        <4>2. Len(chain) \in DOMAIN chain
          BY <4>1
        <4>3. req[c].seen = Len(chain) - 1
          BY <4>1, <4>2 DEF ChainInOrder
        <4>4. req[c].seen + 1 = Len(chain)
          BY <4>3
        <4>5. QED
          BY <2>2, <4>1, <4>2, <4>4
      <3>4. CASE Writes(c)
        BY <2>2, <3>4, Appends DEF Writes
      <3>5. QED
        BY <3>1, <3>2, <3>3, <3>4 DEF Effect
    <2>3. QED
      BY <2>1, <2>2
  <1>2. ASSUME NEW k \in Key, slot'[k].state = "committed"
        PROVE  /\ slot'[k].revision \in DOMAIN chain'
               /\ chain'[slot'[k].revision].seen = slot'[k].binding.seen
               /\ chain'[slot'[k].revision].edit = slot'[k].binding.edit
    <2>1. CASE slot'[k] = slot[k]
      BY <1>2, <2>1, EntriesStay DEF SealsHold
    <2>2. CASE Takes(c) /\ k = req[c].key
      <3>1. slot'[k] = PendingFor(c)
        BY <2>2 DEF Takes, ProposalsTypeOK
      <3>2. PendingFor(c).state = "pending"
        BY DEF PendingFor
      <3>3. QED
        BY <1>2, <3>1, <3>2
    <2>3. CASE Gives(c) /\ k = req[c].key
      <3>1. slot'[k] = Free
        BY <2>3 DEF Gives, ProposalsTypeOK
      <3>2. Free.state = "free"
        BY DEF Free
      <3>3. QED
        BY <1>2, <3>1, <3>2
    <2>4. CASE Seals(c) /\ k = req[c].key
      <3>1. slot[k] = PendingFor(c)
        BY <2>4 DEF Seals, RequestsFit, KeysOwned, Owns, Owning
      <3>2. PendingFor(c).binding = BindingOf(c)
        BY DEF PendingFor
      <3>3. slot'[k].binding = BindingOf(c) /\ slot'[k].revision = req[c].seen + 1
        BY <2>4, <3>1, <3>2 DEF Seals, ProposalsTypeOK
      <3>4. BindingOf(c).seen = req[c].seen /\ BindingOf(c).edit = req[c].edit
        BY DEF BindingOf
      <3>5. chain' = chain /\ pc[c] = "audit"
        BY <2>4 DEF Seals
      <3>6. req[c].seen + 1 \in DOMAIN chain /\ chain[req[c].seen + 1] = req[c]
        BY <3>5 DEF SealsHold
      <3>7. QED
        BY <3>3, <3>4, <3>5, <3>6
    <2>5. QED
      BY <1>2, <2>1, <2>2, <2>3, <2>4, SlotsStay
  <1>3. QED
    BY <1>1, <1>2 DEF SealsHold

LEMMA AnswersLastStep ==
  ASSUME ProposalsTypeOK, AnswersLast, NEW c \in Call, Effect(c)
  PROVE  AnswersLast'
  <1>1. ASSUME NEW d \in Call, d # c, pc'[d] # "done" PROVE answer'[d] = NoAnswer
    BY <1>1, OthersStay DEF AnswersLast
  <1>2. ASSUME pc'[c] # "done" PROVE answer'[c] = NoAnswer
    <2> USE DEF ProposalsTypeOK, GoTo
    <2>1. CASE Asks(c) \/ Moves(c) \/ Takes(c)
      BY <2>1 DEF Asks, Moves, Takes, AnswersLast
    <2>2. CASE Says(c) \/ Gives(c) \/ Seals(c)
      BY <1>2, <2>2 DEF Says, Gives, Seals, Tell
    <2>3. CASE Finds(c)
      BY <2>3 DEF Finds, AnswersLast
    <2>4. CASE Writes(c)
      BY <1>2, <2>4 DEF Writes, Tell, AnswersLast
    <2>5. QED
      BY <2>1, <2>2, <2>3, <2>4 DEF Effect
  <1>3. QED
    BY <1>1, <1>2 DEF AnswersLast

\* The kinds of answer a step gives its call.
LEMMA Answers ==
  ASSUME ProposalsTypeOK, AnswersLast, NEW c \in Call, Effect(c)
  PROVE  \/ answer'[c] = NoAnswer
         \/ answer'[c] = answer[c] /\ pc[c] = "done"
         \/ (Says(c) \/ Gives(c)) /\ pc[c] # "audit" /\ pc[c] # "done" /\ answer'[c].kind \in Refusals
         \/ answer'[c].kind = "reconcile"
         \/ /\ Says(c) /\ req[c].key \in Key /\ slot[req[c].key].state = "committed"
            /\ slot[req[c].key].binding = BindingOf(c)
            /\ answer'[c] = [kind |-> "replayed", revision |-> slot[req[c].key].revision]
         \/ Says(c) /\ IsHead(c) /\ answer'[c] = [kind |-> "replayed", revision |-> Len(chain)]
         \/ Writes(c) /\ answer'[c] = [kind |-> "created", revision |-> Len(chain) + 1]
         \/ Seals(c) /\ answer'[c] = [kind |-> "created", revision |-> req[c].seen + 1]
  <1> USE DEF ProposalsTypeOK
  <1>1. CASE Asks(c) \/ Moves(c) \/ Takes(c) \/ Finds(c)
    BY <1>1 DEF Asks, Moves, Takes, Finds, AnswersLast
  <1>2. CASE Says(c)
    <2>0. ASSUME NEW k, NEW n, Tell(c, k, n)
          PROVE  answer'[c] = [kind |-> k, revision |-> n] /\ answer'[c].kind = k
      BY <2>0 DEF Tell
    <2>1. CASE pc[c] # "audit" /\ \E k \in Refusals : Tell(c, k, 0)
      <3>1. PICK k \in Refusals : Tell(c, k, 0)
        BY <2>1
      <3>2. answer'[c].kind = k /\ pc[c] # "done"
        BY <1>2, <2>0, <3>1 DEF Says
      <3>3. QED
        BY <1>2, <2>1, <3>2
    <2>2. CASE Tell(c, "reconcile", 0)
      BY <2>0, <2>2
    <2>3. CASE IsHead(c) /\ Tell(c, "replayed", Len(chain))
      BY <1>2, <2>0, <2>3
    <2>4. CASE /\ req[c].key \in Key /\ slot[req[c].key].state = "committed"
               /\ slot[req[c].key].binding = BindingOf(c)
               /\ Tell(c, "replayed", slot[req[c].key].revision)
      BY <1>2, <2>0, <2>4
    <2>5. QED
      BY <1>2, <2>1, <2>2, <2>3, <2>4 DEF Says
  <1>3. CASE Gives(c)
    <2>1. PICK k \in Refusals : Tell(c, k, 0)
      BY <1>3 DEF Gives
    <2>2. answer'[c].kind = k /\ pc[c] # "done" /\ pc[c] # "audit"
      BY <1>3, <2>1 DEF Gives, Owns, Owning, Tell
    <2>3. QED
      BY <1>3, <2>2
  <1>4. CASE Writes(c)
    BY <1>4 DEF Writes, Tell, AnswersLast
  <1>5. CASE Seals(c)
    BY <1>5 DEF Seals, Tell
  <1>6. QED
    BY <1>1, <1>2, <1>3, <1>4, <1>5 DEF Effect

\* A refusal is given before the append is over, or stays what it was.
LEMMA RefusalsEarly ==
  ASSUME ProposalsTypeOK, AnswersLast, NEW c \in Call, Effect(c), answer'[c].kind \in Refusals
  PROVE  \/ answer'[c] = answer[c] /\ pc[c] = "done"
         \/ (Says(c) \/ Gives(c)) /\ pc[c] # "audit" /\ pc[c] # "done"
  <1>1. /\ NoAnswer.kind \notin Refusals
        /\ {"reconcile", "replayed", "created"} \intersect Refusals = {}
    BY DEF NoAnswer, Refusals
  <1>2. ASSUME NEW k \in {"replayed", "created"}, NEW n,
               answer'[c] = [kind |-> k, revision |-> n]
        PROVE  FALSE
    <2>1. answer'[c].kind = k
      BY <1>2
    <2>2. QED
      BY <1>1, <2>1
  <1>3. QED
    BY <1>1, <1>2, Answers

LEMMA MadeTrueStep ==
  ASSUME ProposalsTypeOK, RequestsFit, ChainInOrder, SealsHold, AnswersLast, MadeTrue,
         NEW c \in Call, Effect(c)
  PROVE  MadeTrue'
  <1> DEFINE Names(a, q) == /\ a.revision \in DOMAIN chain'
                            /\ chain'[a.revision].seen = q.seen
                            /\ chain'[a.revision].edit = q.edit
  <1>1. ASSUME NEW d \in Call, answer[d].kind \in {"created", "replayed"}
        PROVE  Names(answer[d], req[d])
    BY <1>1, EntriesStay DEF MadeTrue
  <1>2. ASSUME NEW d \in Call, d # c, answer'[d].kind \in {"created", "replayed"}
        PROVE  Names(answer'[d], req'[d])
    BY <1>1, <1>2, OthersStay
  <1>3. ASSUME answer'[c].kind \in {"created", "replayed"}
        PROVE  Names(answer'[c], req'[c])
    <2>1. NoAnswer.kind = "none" /\ Refusals \intersect {"created", "replayed"} = {}
      BY DEF NoAnswer, Refusals
    <2>2. CASE answer'[c] = answer[c] /\ pc[c] = "done"
      <3>1. req' = req
        BY <2>2, RequestStays DEF Asks
      <3>2. QED
        BY <1>1, <1>3, <2>2, <3>1
    <2>3. CASE /\ Says(c) /\ req[c].key \in Key /\ slot[req[c].key].state = "committed"
               /\ slot[req[c].key].binding = BindingOf(c)
               /\ answer'[c] = [kind |-> "replayed", revision |-> slot[req[c].key].revision]
      <3>1. req' = req /\ chain' = chain
        BY <2>3 DEF Says
      <3>2. BindingOf(c).seen = req[c].seen /\ BindingOf(c).edit = req[c].edit
        BY DEF BindingOf
      <3>3. answer'[c].revision = slot[req[c].key].revision
        BY <2>3
      <3>4. QED
        BY <2>3, <3>1, <3>2, <3>3 DEF SealsHold
    <2>4. CASE Says(c) /\ IsHead(c) /\ answer'[c] = [kind |-> "replayed", revision |-> Len(chain)]
      <3>1. req' = req /\ chain' = chain
        BY <2>4 DEF Says
      <3>2. chain # <<>> /\ chain[Len(chain)] = req[c]
        BY <2>4 DEF IsHead, Made
      <3>3. Len(chain) \in DOMAIN chain
        BY <3>2 DEF ProposalsTypeOK
      <3>4. answer'[c].revision = Len(chain)
        BY <2>4
      <3>5. QED
        BY <3>1, <3>2, <3>3, <3>4
    <2>5. CASE Writes(c) /\ answer'[c] = [kind |-> "created", revision |-> Len(chain) + 1]
      <3>1. req' = req /\ answer'[c].revision = Len(chain) + 1
        BY <2>5 DEF Writes
      <3>2. Len(chain) + 1 \in DOMAIN chain' /\ chain'[Len(chain) + 1] = req[c]
        BY <2>5, Appends DEF Writes
      <3>3. QED
        BY <3>1, <3>2
    <2>6. CASE Seals(c) /\ answer'[c] = [kind |-> "created", revision |-> req[c].seen + 1]
      <3>1. req' = req /\ chain' = chain /\ pc[c] = "audit" /\ answer'[c].revision = req[c].seen + 1
        BY <2>6 DEF Seals
      <3>2. req[c].seen + 1 \in DOMAIN chain /\ chain[req[c].seen + 1] = req[c]
        BY <3>1 DEF SealsHold
      <3>3. QED
        BY <3>1, <3>2
    <2>7. QED
      BY <1>3, <2>1, <2>2, <2>3, <2>4, <2>5, <2>6, Answers
  <1>4. QED
    BY <1>2, <1>3 DEF MadeTrue

LEMMA RefusedTrueStep ==
  ASSUME ProposalsTypeOK, RequestsFit, AnswersLast, RefusedTrue, NEW c \in Call, Effect(c)
  PROVE  RefusedTrue'
  <1> DEFINE Pending(d) == pc[d] \notin {"audit", "done"} \/ answer[d].kind \in Refusals
  <1>1. ASSUME NEW d \in Call, (req[d].id = d)', Pending(d)'
        PROVE  \A i \in DOMAIN chain : chain[i].id # d
    <2>1. CASE d # c
      BY <1>1, <2>1, OthersStay DEF RefusedTrue
    <2>2. CASE d = c
      <3>1. CASE pc[c] \notin {"audit", "done"} /\ req[c].id = c
        BY <2>2, <3>1 DEF RefusedTrue
      <3>2. CASE Asks(c)
        BY <2>2, <3>2 DEF Asks, RequestsFit, RefusedTrue
      <3>3. CASE pc[c] \in {"audit", "done"} /\ ~Asks(c)
        <4>1. req' = req
          BY <3>3, RequestStays
        <4>2. Says(c) \/ Seals(c)
          BY <3>3 DEF Effect, Moves, Takes, Gives, Finds, Writes, Owns, Owning
        <4>3. pc'[c] = "done" /\ pc[c] = "audit"
          BY <3>3, <4>2 DEF Says, Seals, Tell, GoTo, ProposalsTypeOK
        <4>4. answer'[c].kind \notin Refusals
          BY <4>2, <4>3, RefusalsEarly
        <4>5. QED
          BY <1>1, <2>2, <4>3, <4>4
      <3>4. CASE req[c].id # c /\ ~Asks(c)
        BY <1>1, <2>2, <3>4, RequestStays
      <3>5. QED
        BY <3>1, <3>2, <3>3, <3>4
    <2>3. QED
      BY <2>1, <2>2
  <1>2. ASSUME NEW d \in Call, (req[d].id = d)', Pending(d)', Writes(c)
        PROVE  req[c].id # d
    <2>1. CASE d # c
      <3>1. req[c].id \in {c} \union Command
        BY DEF RequestsFit
      <3>2. QED
        BY <2>1, <3>1
    <2>2. CASE d = c
      <3>1. pc'[c] \in {"audit", "done"} /\ ~Says(c) /\ ~Gives(c) /\ pc[c] = "append"
        BY <1>2 DEF Writes, Says, Gives, Tell, GoTo, ProposalsTypeOK
      <3>2. answer'[c].kind \notin Refusals
        BY <3>1, RefusalsEarly
      <3>3. QED
        BY <1>2, <2>2, <3>1, <3>2
    <2>3. QED
      BY <2>1, <2>2
  <1>3. ASSUME NEW d \in Call, (req[d].id = d)', Pending(d)', NEW i \in DOMAIN chain'
        PROVE  chain'[i].id # d
    <2>1. CASE chain' = chain
      BY <1>1, <1>3, <2>1
    <2>2. CASE Writes(c)
      <3>1. chain' = Append(chain, req[c])
        BY <2>2 DEF Writes
      <3>2. CASE i \in DOMAIN chain
        BY <1>1, <1>3, <3>1, <3>2, Appends
      <3>3. CASE i = Len(chain) + 1
        BY <1>2, <1>3, <2>2, <3>1, <3>3, Appends
      <3>4. QED
        BY <1>3, <3>1, <3>2, <3>3, Appends
    <2>3. QED
      BY <2>1, <2>2, Grows
  <1>4. QED
    BY <1>3 DEF RefusedTrue

-----------------------------------------------------------------------------
(* The theorems.                                                           *)

LEMMA InitInv == ProposalInit => KeyInv /\ AnswerInv
  <1>1. ASSUME ProposalInit PROVE KeyInv
    <2>1. ProposalsTypeOK
      BY <1>1, InitTypes
    <2>2. RequestsFit
      BY <1>1 DEF ProposalInit, RequestsFit
    <2>3. \A c \in Call : ~Owns(c)
      BY <1>1 DEF ProposalInit, Owns, Owning
    <2>4. DOMAIN chain = {}
      BY <1>1 DEF ProposalInit
    <2>5. QED
      BY <2>1, <2>2, <2>3, <2>4 DEF KeyInv, KeysOwned, KeysSpent
  <1>2. ASSUME ProposalInit PROVE AnswerInv
    <2>1. DOMAIN chain = {} /\ (\A c \in Call : pc[c] = "idle" /\ answer[c] = NoAnswer)
      BY <1>2 DEF ProposalInit
    <2>2. NoAnswer.kind = "none" /\ \A k \in Key : slot[k].state = "free"
      BY <1>2 DEF ProposalInit, NoAnswer, Free
    <2>3. QED
      BY <2>1, <2>2 DEF AnswerInv, ChainInOrder, SealsHold, AnswersLast, MadeTrue, RefusedTrue
  <1>3. QED
    BY <1>1, <1>2

LEMMA NextInv ==
  ASSUME KeyInv, AnswerInv, [ProposalNext]_proposalVars
  PROVE  (KeyInv /\ AnswerInv)'
  <1>1. CASE ProposalNext
    <2>1. PICK c \in Call : Step(c)
      BY <1>1 DEF ProposalNext
    <2>2. Effect(c) /\ ProposalsTypeOK'
      BY <2>1, StepEffect, StepTypes DEF KeyInv, AnswerInv
    <2>3. KeyInv'
      BY <2>2, RequestsFitStep, KeysOwnedStep, KeysSpentStep DEF KeyInv
    <2>4. AnswerInv'
      BY <2>2, ChainInOrderStep, SealsHoldStep, AnswersLastStep, MadeTrueStep, RefusedTrueStep
         DEF KeyInv, AnswerInv
    <2>5. QED
      BY <2>3, <2>4
  <1>2. CASE UNCHANGED proposalVars
    BY <1>2 DEF proposalVars, KeyInv, AnswerInv, ProposalsTypeOK, RequestsFit, KeysOwned,
         KeysSpent, Owns, ByApi, PendingFor, BindingOf, ChainInOrder, SealsHold, AnswersLast,
         MadeTrue, RefusedTrue
  <1>3. QED
    BY <1>1, <1>2

\* Every state of the proposals is of its type, and the stronger invariants
\* hold of it.
THEOREM ProposalsInvariant == ProposalSpec => [](KeyInv /\ AnswerInv)
  BY InitInv, NextInv, PTL DEF ProposalSpec

\* The variables keep their types (chain, slots, requests, answers).
THEOREM ProposalsTyped == ProposalSpec => []ProposalsTypeOK
  BY ProposalsInvariant, PTL DEF KeyInv

\* Whatever an editor is told of her proposal is so, over every interleaving
\* of any number of editors, replays and failures of the store.
THEOREM AnswersAreTrue == ProposalSpec => []AnswerIsTrue
  <1>1. KeyInv /\ AnswerInv => AnswerIsTrue
    <2> SUFFICES ASSUME KeyInv, AnswerInv PROVE AnswerIsTrue
      OBVIOUS
    <2>1. ASSUME NEW c \in Call, answer[c].kind \in Refusals, req[c].id = c
          PROVE  ~Wrote(c)
      BY <2>1 DEF AnswerInv, RefusedTrue, Wrote, Made
    <2>2. QED
      BY <2>1 DEF AnswerIsTrue, AnswerInv, MadeTrue, Refusals
  <1>2. QED
    BY <1>1, ProposalsInvariant, PTL

\* The calls implement the abstract chain: an append is made from the head its
\* author saw, by a key that never wrote before.
THEOREM ChainKept == ProposalSpec => ChainPromise
  <1> DEFINE spent == {chain[i].key : i \in DOMAIN chain} \ {NoKey}
  <1>1. ProposalInit => Promise!Init
    BY DEF ProposalInit, Promise!Init
  <1>2. ASSUME KeyInv, [ProposalNext]_proposalVars
        PROVE  [Promise!Next]_<<chain, spent>>
    <2>1. CASE chain' = chain
      BY <2>1
    <2>2. ASSUME NEW c \in Call, Writes(c) PROVE Promise!Next
      <3>0. req[c] \in Request
        BY <1>2 DEF KeyInv, ProposalsTypeOK
      <3>1. /\ chain' = Append(chain, req[c]) /\ req[c].seen = Len(chain)
            /\ req[c] \in Request /\ pc[c] = "append"
        BY <2>2, <3>0 DEF Writes
      <3>2. req[c] = [id |-> req[c].id, key |-> req[c].key, seen |-> Len(chain), edit |-> req[c].edit]
        BY <3>1 DEF Request
      <3>3. req[c].key \notin spent
        <4>1. CASE ByApi(c)
          <5>1. Owns(c) /\ pc[c] # "audit"
            BY <3>1, <4>1 DEF Owns, Owning
          <5>2. \A i \in DOMAIN chain : chain[i].key # req[c].key
            BY <1>2, <5>1 DEF KeyInv, KeysSpent
          <5>3. QED
            BY <5>2
        <4>2. CASE ~ByApi(c)
          BY <4>2 DEF ByApi
        <4>3. QED
          BY <4>1, <4>2
      <3>4. spent' = spent \union ({req[c].key} \ {NoKey})
        BY <1>2, <3>1, Appends DEF KeyInv
      <3>6. req[c].id \in Author /\ req[c].key \in Key \union {NoKey} /\ req[c].edit \in Edit
        BY <3>1 DEF Request
      <3>7. QED
        BY <3>1, <3>2, <3>3, <3>4, <3>6 DEF Promise!Next, Promise!Write
    <2>3. CASE ProposalNext
      <3>1. PICK c \in Call : Step(c)
        BY <2>3 DEF ProposalNext
      <3>2. Effect(c)
        BY <1>2, <3>1, StepEffect DEF KeyInv
      <3>3. QED
        BY <1>2, <2>1, <2>2, <3>2, Grows DEF KeyInv
    <2>4. QED
      BY <1>2, <2>1, <2>3 DEF proposalVars
  <1>3. QED
    BY <1>1, <1>2, ProposalsInvariant, PTL DEF ProposalSpec, ChainPromise, Promise!Spec

-----------------------------------------------------------------------------
(* The approvals.                                                          *)

\* A document, its revision and artifact counted from one.
Document ==
  [kind : Built \union Issued, rev : Nat \ {0}, artifact : Nat \ {0},
   approver : Approver \union {Nobody}, decision : Decision \union {Nobody},
   publisher : Publisher \union {Nobody}]

DocumentsTyped ==
  /\ stored \in Seq(Store!Revision)
  /\ docs \subseteq Document
  /\ work \in [Process -> Document \union {NoDocument}]

\* The handoff and the decision a document rests on.
HandoffOf(q)  == [As(q, "handoff") EXCEPT !.publisher = Nobody, !.decision = Nobody]
DecisionOf(q) == [As(q, "decision") EXCEPT !.publisher = Nobody]

Undecided   == {"evidence", "handoffGrant", "handoff"}
Unpublished == Undecided \union {"decision", "record", "publishable"}

\* What holds of every document, whatever was appended since it was made.
Sound(q) ==
  /\ q.rev = q.artifact /\ q.rev \in 1 .. Len(stored)
  /\ q.kind # "evidence" => q.approver \in Approver /\ Eligible(q.rev)
  /\ q.kind \in Undecided => q.decision = Nobody
  /\ q.kind \notin Undecided => DecisionOf(q) \in docs /\ HandoffOf(q) \in docs
  /\ q.kind \in Unpublished => q.publisher = Nobody
  /\ q.kind \notin Unpublished => q.publisher \in Publisher

DocumentsSound ==
  /\ \A q \in docs : Sound(q)
  /\ \A p \in Process : work[p] # NoDocument => Sound(work[p])

ApprovalInv == DocumentsTyped /\ DocumentsSound

-----------------------------------------------------------------------------

\* A document is its six parts.
LEMMA SameDocument ==
  ASSUME NEW d \in Document, NEW e \in Document,
         d.kind = e.kind, d.rev = e.rev, d.artifact = e.artifact,
         d.approver = e.approver, d.decision = e.decision, d.publisher = e.publisher
  PROVE  d = e
BY DEF Document

\* As changes the kind of a document and nothing else.
LEMMA AsIsDocument ==
  ASSUME NEW d \in Document, NEW k \in Built \union Issued
  PROVE  /\ As(d, k) \in Document /\ As(d, k).kind = k
         /\ As(d, k).rev = d.rev /\ As(d, k).artifact = d.artifact
         /\ As(d, k).approver = d.approver /\ As(d, k).decision = d.decision
         /\ As(d, k).publisher = d.publisher
BY DEF As, Document

\* The handoff and the decision of a document are documents.
LEMMA GroundsAreDocuments ==
  ASSUME NEW d \in Document
  PROVE  /\ HandoffOf(d) \in Document /\ HandoffOf(d).kind = "handoff"
         /\ HandoffOf(d).rev = d.rev /\ HandoffOf(d).artifact = d.artifact
         /\ HandoffOf(d).approver = d.approver
         /\ HandoffOf(d).decision = Nobody /\ HandoffOf(d).publisher = Nobody
         /\ DecisionOf(d) \in Document /\ DecisionOf(d).kind = "decision"
         /\ DecisionOf(d).rev = d.rev /\ DecisionOf(d).artifact = d.artifact
         /\ DecisionOf(d).approver = d.approver
         /\ DecisionOf(d).decision = d.decision /\ DecisionOf(d).publisher = Nobody
<1> DEFINE h == As(d, "handoff")
           e == As(d, "decision")
<1>1. /\ h \in Document /\ h.kind = "handoff" /\ h.rev = d.rev /\ h.artifact = d.artifact
      /\ h.approver = d.approver
  BY AsIsDocument DEF Built
<1>2. /\ e \in Document /\ e.kind = "decision" /\ e.rev = d.rev /\ e.artifact = d.artifact
      /\ e.approver = d.approver /\ e.decision = d.decision
  BY AsIsDocument DEF Issued
<1> HIDE DEF h, e
<1>3. /\ HandoffOf(d) = [h EXCEPT !.publisher = Nobody, !.decision = Nobody]
      /\ DecisionOf(d) = [e EXCEPT !.publisher = Nobody]
  BY DEF HandoffOf, DecisionOf, h, e
<1>4. /\ HandoffOf(d) \in Document /\ HandoffOf(d).kind = "handoff"
      /\ HandoffOf(d).rev = d.rev /\ HandoffOf(d).artifact = d.artifact
      /\ HandoffOf(d).approver = d.approver
      /\ HandoffOf(d).decision = Nobody /\ HandoffOf(d).publisher = Nobody
  BY <1>1, <1>3 DEF Document
<1>5. /\ DecisionOf(d) \in Document /\ DecisionOf(d).kind = "decision"
      /\ DecisionOf(d).rev = d.rev /\ DecisionOf(d).artifact = d.artifact
      /\ DecisionOf(d).approver = d.approver
      /\ DecisionOf(d).decision = d.decision /\ DecisionOf(d).publisher = Nobody
  BY <1>2, <1>3 DEF Document
<1>6. QED
  BY <1>4, <1>5

\* Two documents that agree but for the kind and the publisher rest on the same.
LEMMA SameGrounds ==
  ASSUME NEW d \in Document, NEW e \in Document,
         d.rev = e.rev, d.artifact = e.artifact, d.approver = e.approver
  PROVE  /\ HandoffOf(d) = HandoffOf(e)
         /\ d.decision = e.decision => DecisionOf(d) = DecisionOf(e)
<1>1. HandoffOf(d) = HandoffOf(e)
  BY GroundsAreDocuments, SameDocument
<1>2. d.decision = e.decision => DecisionOf(d) = DecisionOf(e)
  BY GroundsAreDocuments, SameDocument
<1>3. QED
  BY <1>1, <1>2

\* What rests on the same as a sound document is sound.
LEMMA SoundAlike ==
  ASSUME NEW d \in Document, NEW e \in Document, Sound(d),
         d.rev = e.rev, d.artifact = e.artifact, d.approver = e.approver,
         d.decision = e.decision, d.publisher = e.publisher, d.kind # "evidence",
         d.kind \in Undecided <=> e.kind \in Undecided,
         d.kind \in Unpublished <=> e.kind \in Unpublished
  PROVE  Sound(e)
<1>1. HandoffOf(d) = HandoffOf(e) /\ DecisionOf(d) = DecisionOf(e)
  BY SameGrounds
<1>2. /\ e.rev = e.artifact /\ e.rev \in 1 .. Len(stored)
      /\ e.kind # "evidence" => e.approver \in Approver /\ Eligible(e.rev)
  BY DEF Sound
<1>3. e.kind \in Undecided => e.decision = Nobody
  BY DEF Sound
<1>4. e.kind \notin Undecided => DecisionOf(e) \in docs /\ HandoffOf(e) \in docs
  BY <1>1 DEF Sound
<1>5. /\ e.kind \in Unpublished => e.publisher = Nobody
      /\ e.kind \notin Unpublished => e.publisher \in Publisher
  BY DEF Sound
<1>6. QED
  BY <1>2, <1>3, <1>4, <1>5 DEF Sound

\* A sound document stays sound while revisions are appended and documents made.
LEMMA SoundStays ==
  ASSUME DocumentsTyped, NEW q \in Document, Sound(q),
         docs \subseteq docs',
         \/ stored' = stored
         \/ \E x \in Store!Revision : stored' = Append(stored, x)
  PROVE  Sound(q)'
<1>1. q.rev \in 1 .. Len(stored') /\ stored'[q.rev] = stored[q.rev]
  BY DEF DocumentsTyped, Sound, Document
<1>2. QED
  BY <1>1 DEF Sound, Eligible, HandoffOf, DecisionOf

\* What holds of a handoff grant that passes its check.
LEMMA HandoffGrantHolds ==
  ASSUME ApprovalInv, NEW g \in OfKind("handoffGrant"), NEW rev, NEW artifact, NEW approver,
         HandoffHolds(g, rev, artifact, approver)
  PROVE  /\ g \in Document /\ g.kind = "handoffGrant" /\ g.approver \in Approver
         /\ g.rev = Len(stored) /\ g.artifact = g.rev /\ g.rev \in 1 .. Len(stored)
         /\ Eligible(g.rev) /\ g.decision = Nobody /\ g.publisher = Nobody
         /\ As(g, "handoff") \in Document /\ Sound(As(g, "handoff"))
<1>1. g \in Document /\ g.kind = "handoffGrant" /\ Sound(g)
  BY DEF ApprovalInv, DocumentsTyped, DocumentsSound, OfKind
<1>2. /\ g.rev = Len(stored) /\ g.artifact = g.rev
      /\ g.approver \in Approver /\ Eligible(g.rev) /\ g.rev \in 1 .. Len(stored)
      /\ g.decision = Nobody /\ g.publisher = Nobody
  BY <1>1 DEF HandoffHolds, CurrentRevision, Sound, Undecided, Unpublished
<1>3. As(g, "handoff") \in Document /\ As(g, "handoff").kind = "handoff"
  BY <1>1, AsIsDocument DEF Built
<1>4. Sound(As(g, "handoff"))
  <2>1. "handoff" \in Built \union Issued /\ "handoff" \in Undecided /\ "handoff" \in Unpublished
        /\ "handoffGrant" \in Undecided /\ "handoffGrant" \in Unpublished
    BY DEF Undecided, Unpublished, Built
  <2>2. QED
    BY <1>1, <1>3, <2>1, AsIsDocument, SoundAlike
<1>5. QED
  BY <1>1, <1>2, <1>3, <1>4

\* The record of a decision rests on that decision.
LEMMA RecordIsSound ==
  ASSUME ApprovalInv, NEW g \in OfKind("handoffGrant"), NEW h \in OfKind("handoff"),
         NEW d \in OfKind("decision"), NEW rev, NEW artifact, NEW approver,
         RecordHolds(g, h, d, rev, artifact, approver)
  PROVE  /\ Record(h, d) \in Document /\ Record(h, d).kind = "record"
         /\ Record(h, d).rev = Len(stored) /\ Sound(Record(h, d))
<1> DEFINE m == Record(h, d)
<1>1. /\ h = As(g, "handoff") /\ d.rev = h.rev /\ d.artifact = h.artifact
      /\ d.approver = approver /\ g.approver = approver
      /\ HandoffHolds(g, rev, artifact, approver)
  BY DEF RecordHolds, HandoffHolds
<1>2. /\ g \in Document /\ h \in Document /\ Sound(h) /\ h.rev = Len(stored)
      /\ h.artifact = h.rev /\ h.approver = approver /\ h.approver \in Approver
      /\ h.decision = Nobody /\ h.publisher = Nobody /\ Eligible(h.rev) /\ h.kind = "handoff"
      /\ h \in docs
  BY <1>1, HandoffGrantHolds, AsIsDocument DEF OfKind, Built
<1>3. d \in Document /\ d \in docs /\ d.kind = "decision" /\ d.publisher = Nobody
  BY DEF ApprovalInv, DocumentsTyped, DocumentsSound, OfKind, Sound, Undecided, Unpublished
<1>4. As(h, "record") \in Document
  BY <1>2, AsIsDocument DEF Built
<1>5. /\ m \in Document /\ m.kind = "record" /\ m.rev = h.rev /\ m.artifact = h.artifact
      /\ m.approver = h.approver /\ m.decision = d.decision /\ m.publisher = Nobody
  BY <1>2, <1>3, <1>4, AsIsDocument DEF Record, Document, Built
<1>6. HandoffOf(m) = h
  BY <1>2, <1>5, GroundsAreDocuments, SameDocument
<1>7. DecisionOf(m) = d
  BY <1>1, <1>2, <1>3, <1>5, GroundsAreDocuments, SameDocument
<1>8. Sound(m)
  <2>1. m.rev \in 1 .. Len(stored)
    BY <1>2, <1>5 DEF Sound
  <2>2. QED
    BY <2>1, <1>2, <1>3, <1>5, <1>6, <1>7 DEF Sound, Undecided, Unpublished
<1>9. QED
  BY <1>2, <1>5, <1>8

\* Each builder makes a sound document of the head.
LEMMA BuiltIsSound ==
  ASSUME ApprovalInv, NEW p \in Process, Build(p)
  PROVE  \E d \in Document : /\ Make(p, d) /\ Sound(d)
                             /\ d.kind \in Built /\ d.rev = Len(stored)
<1>1. CASE BuildEvidence(p)
  <2>1. PICK rev \in 1 .. MaxStored, artifact \in 1 .. MaxStored :
           CurrentRevision(rev, artifact) /\ Make(p, Evidence(rev, artifact))
    BY <1>1 DEF BuildEvidence
  <2>2. rev = Len(stored) /\ artifact = rev /\ rev \in 1 .. Len(stored) /\ rev \in Nat \ {0}
    BY <2>1 DEF CurrentRevision, ApprovalInv, DocumentsTyped
  <2>3. /\ Evidence(rev, artifact) \in Document /\ Evidence(rev, artifact).kind = "evidence"
        /\ Evidence(rev, artifact).rev = rev
    BY <2>2 DEF Evidence, Document, Built
  <2>4. Sound(Evidence(rev, artifact))
    BY <2>2, <2>3 DEF Evidence, Sound, Undecided, Unpublished
  <2>5. QED
    BY <2>1, <2>2, <2>3, <2>4 DEF Built
<1>2. CASE BuildHandoff(p)
  <2>1. PICK g \in OfKind("handoffGrant"), approver \in Approver,
             rev \in 1 .. MaxStored, artifact \in 1 .. MaxStored :
           HandoffHolds(g, rev, artifact, approver) /\ Make(p, As(g, "handoff"))
    BY <1>2 DEF BuildHandoff
  <2>2. QED
    BY <2>1, HandoffGrantHolds, AsIsDocument DEF Built
<1>3. CASE BuildRecord(p)
  <2>1. PICK g \in OfKind("handoffGrant"), h \in OfKind("handoff"), d \in OfKind("decision"),
             approver \in Approver, rev \in 1 .. MaxStored, artifact \in 1 .. MaxStored :
           RecordHolds(g, h, d, rev, artifact, approver) /\ Make(p, Record(h, d))
    BY <1>3 DEF BuildRecord
  <2>2. QED
    BY <2>1, RecordIsSound DEF Built
<1>4. CASE BuildPublishable(p)
  <2>1. PICK g \in OfKind("handoffGrant"), h \in OfKind("handoff"), d \in OfKind("decision"),
             m \in OfKind("record"), approver \in Approver,
             rev \in 1 .. MaxStored, artifact \in 1 .. MaxStored :
           PublishableHolds(g, h, d, m, rev, artifact, approver) /\ Make(p, As(m, "publishable"))
    BY <1>4 DEF BuildPublishable
  <2>2. m \in Document /\ m.kind = "record" /\ m.rev = Len(stored) /\ Sound(m)
    BY <2>1, RecordIsSound DEF PublishableHolds
  <2>3. /\ As(m, "publishable") \in Document /\ As(m, "publishable").kind = "publishable"
        /\ As(m, "publishable").rev = m.rev
    BY <2>2, AsIsDocument DEF Built
  <2>4. /\ "publishable" \in Built /\ "publishable" \notin Undecided /\ "record" \notin Undecided
        /\ "publishable" \in Unpublished /\ "record" \in Unpublished
    BY DEF Undecided, Unpublished, Built
  <2>5. Sound(As(m, "publishable"))
    BY <2>2, <2>3, <2>4, AsIsDocument, SoundAlike
  <2>6. QED
    BY <2>1, <2>2, <2>3, <2>5 DEF Built
<1>5. CASE BuildPublication(p)
  <2>1. PICK g \in OfKind("handoffGrant"), h \in OfKind("handoff"), d \in OfKind("decision"),
             m \in OfKind("record"), pg \in OfKind("publicationGrant"),
             approver \in Approver, publisher \in Publisher,
             rev \in 1 .. MaxStored, artifact \in 1 .. MaxStored :
           /\ PublicationHolds(g, h, d, m, pg, rev, artifact, approver, publisher)
           /\ Make(p, As(pg, "publication"))
    BY <1>5 DEF BuildPublication
  <2>2. /\ m \in Document /\ m.rev = Len(stored)
        /\ pg = [As(m, "publicationGrant") EXCEPT !.publisher = publisher]
    BY <2>1, RecordIsSound DEF PublicationHolds, PublishableHolds
  <2>3. pg.rev = m.rev
    BY <2>2, AsIsDocument DEF Document, Issued
  <2>4. pg \in Document /\ pg.kind = "publicationGrant" /\ Sound(pg)
    BY DEF ApprovalInv, DocumentsTyped, DocumentsSound, OfKind
  <2>5. /\ As(pg, "publication") \in Document /\ As(pg, "publication").kind = "publication"
        /\ As(pg, "publication").rev = pg.rev
    BY <2>4, AsIsDocument DEF Built
  <2>6. /\ "publication" \in Built
        /\ "publication" \notin Undecided /\ "publicationGrant" \notin Undecided
        /\ "publication" \notin Unpublished /\ "publicationGrant" \notin Unpublished
    BY DEF Undecided, Unpublished, Built
  <2>7. Sound(As(pg, "publication"))
    BY <2>4, <2>5, <2>6, AsIsDocument, SoundAlike
  <2>8. QED
    BY <2>1, <2>2, <2>3, <2>5, <2>7 DEF Built
<1>6. QED
  BY <1>1, <1>2, <1>3, <1>4, <1>5 DEF Build

\* What is issued over a document in hand is sound as well.
LEMMA IssuedIsSound ==
  ASSUME ApprovalInv, IssueGrant
  PROVE  \E d \in Document : /\ docs' = docs \union {d} /\ d.kind \in Issued
                             /\ Sound(d)' /\ stored' = stored /\ work' = work
<1> USE DEF IssueGrant
<1>1. CASE IssueHandoffGrant
  <2>1. PICK e \in OfKind("evidence"), approver \in Approver :
           /\ Eligible(e.rev)
           /\ docs' = docs \union {[As(e, "handoffGrant") EXCEPT !.approver = approver]}
    BY <1>1 DEF IssueHandoffGrant
  <2> DEFINE d == [As(e, "handoffGrant") EXCEPT !.approver = approver]
  <2>2. e \in Document /\ e.kind = "evidence" /\ Sound(e)
    BY DEF ApprovalInv, DocumentsTyped, DocumentsSound, OfKind
  <2>3. /\ d \in Document /\ d.kind = "handoffGrant" /\ d.rev = e.rev /\ d.artifact = e.artifact
        /\ d.approver = approver /\ d.decision = e.decision /\ d.publisher = e.publisher
    BY <2>2, AsIsDocument DEF Document, Issued
  <2>4. Sound(d)
    BY <2>1, <2>2, <2>3 DEF Sound, Undecided, Unpublished
  <2>5. Sound(d)'
    BY <2>1, <2>3, <2>4, SoundStays DEF ApprovalInv
  <2>6. QED
    BY <2>1, <2>3, <2>5 DEF Issued
<1>2. CASE Decide
  <2>1. PICK h \in OfKind("handoff"), approver \in Approver, i \in Decision :
           docs' = docs \union {[As(h, "decision") EXCEPT !.decision = i]}
    BY <1>2 DEF Decide
  <2> DEFINE d == [As(h, "decision") EXCEPT !.decision = i]
  <2>2. h \in Document /\ h.kind = "handoff" /\ h \in docs /\ Sound(h)
    BY DEF ApprovalInv, DocumentsTyped, DocumentsSound, OfKind
  <2>3. /\ d \in Document /\ d.kind = "decision" /\ d.rev = h.rev /\ d.artifact = h.artifact
        /\ d.approver = h.approver /\ d.decision = i /\ d.publisher = h.publisher
    BY <2>2, AsIsDocument DEF Document, Issued
  <2>4. h.publisher = Nobody /\ h.decision = Nobody
    BY <2>2 DEF Sound, Undecided, Unpublished
  <2> HIDE DEF d
  <2>5. DecisionOf(d) = d /\ HandoffOf(d) = h
    <3>1. DecisionOf(d) = d
      BY <2>2, <2>3, <2>4, GroundsAreDocuments, SameDocument
    <3>2. HandoffOf(d) = h
      BY <2>2, <2>3, <2>4, GroundsAreDocuments, SameDocument
    <3>3. QED
      BY <3>1, <3>2
  <2>6. Sound(d)'
    BY <2>1, <2>2, <2>3, <2>4, <2>5 DEF d, Sound, Undecided, Unpublished, Eligible, HandoffOf, DecisionOf
  <2>7. QED
    BY <2>1, <2>3, <2>6 DEF d, Issued
<1>3. CASE IssuePublicationGrant
  <2>1. PICK e \in OfKind("publishable"), publisher \in Publisher :
           docs' = docs \union {[As(e, "publicationGrant") EXCEPT !.publisher = publisher]}
    BY <1>3 DEF IssuePublicationGrant
  <2> DEFINE d == [As(e, "publicationGrant") EXCEPT !.publisher = publisher]
  <2>2. e \in Document /\ e.kind = "publishable" /\ Sound(e)
    BY DEF ApprovalInv, DocumentsTyped, DocumentsSound, OfKind
  <2>3. /\ d \in Document /\ d.kind = "publicationGrant" /\ d.rev = e.rev
        /\ d.artifact = e.artifact /\ d.approver = e.approver /\ d.decision = e.decision
        /\ d.publisher = publisher
    BY <2>2, AsIsDocument DEF Document, Issued
  <2>4. HandoffOf(d) = HandoffOf(e) /\ DecisionOf(d) = DecisionOf(e)
    BY <2>2, <2>3, SameGrounds
  <2>5. Sound(d)
    BY <2>2, <2>3, <2>4 DEF Sound, Undecided, Unpublished
  <2>6. Sound(d)'
    BY <2>1, <2>3, <2>5, SoundStays DEF ApprovalInv
  <2>7. QED
    BY <2>1, <2>3, <2>6 DEF Issued
<1>4. QED
  BY <1>1, <1>2, <1>3

LEMMA DocumentKinds ==
  ASSUME NEW d \in Document
  PROVE  d # NoDocument /\ d.kind \in Built \union Issued
BY DEF Document, NoDocument, Built, Issued

LEMMA ApprovalInitially == ApprovalInit => ApprovalInv
BY DEF ApprovalInit, Store!Init, ApprovalInv, DocumentsTyped, DocumentsSound

LEMMA ApprovalStep ==
  ASSUME ApprovalInv, [ApprovalNext]_approvalVars
  PROVE  ApprovalInv'
<1>1. CASE OtherRevision
  <2>1. PICK x \in Store!Revision : stored' = Append(stored, x)
    BY <1>1 DEF OtherRevision, Store!Write, Store!Revision, ApprovalInv, DocumentsTyped
  <2>2. docs' = docs /\ work' = work
    BY <1>1 DEF OtherRevision
  <2>3. DocumentsTyped'
    BY <2>1, <2>2 DEF ApprovalInv, DocumentsTyped, Document
  <2>4. ASSUME NEW q \in Document, Sound(q)
        PROVE  Sound(q)'
    BY <2>1, <2>2, <2>4, SoundStays DEF ApprovalInv
  <2>5. DocumentsSound'
    BY <2>2, <2>4 DEF ApprovalInv, DocumentsTyped, DocumentsSound
  <2>6. QED
    BY <2>3, <2>5 DEF ApprovalInv
<1>2. CASE IssueGrant
  <2>1. PICK d \in Document : /\ docs' = docs \union {d} /\ Sound(d)'
                              /\ stored' = stored /\ work' = work
    BY <1>2, IssuedIsSound
  <2>2. DocumentsTyped'
    BY <2>1 DEF ApprovalInv, DocumentsTyped, Document
  <2>3. ASSUME NEW q \in Document, Sound(q)
        PROVE  Sound(q)'
    BY <2>1, <2>3, SoundStays DEF ApprovalInv
  <2>4. DocumentsSound'
    BY <2>1, <2>3 DEF ApprovalInv, DocumentsTyped, DocumentsSound
  <2>5. QED
    BY <2>2, <2>4 DEF ApprovalInv
<1>3. ASSUME NEW p \in Process, Build(p)
      PROVE  ApprovalInv'
  <2>1. PICK d \in Document : Make(p, d) /\ Sound(d)
    BY <1>3, BuiltIsSound
  <2>2. work' = [work EXCEPT ![p] = d] /\ docs' = docs /\ stored' = stored
    BY <2>1 DEF Make
  <2>3. DocumentsTyped'
    BY <2>2 DEF ApprovalInv, DocumentsTyped, Document
  <2>4. ASSUME NEW q \in Document, Sound(q)
        PROVE  Sound(q)'
    BY <2>2, <2>4, SoundStays DEF ApprovalInv
  <2>5. DocumentsSound'
    BY <2>1, <2>2, <2>4 DEF ApprovalInv, DocumentsTyped, DocumentsSound
  <2>6. QED
    BY <2>3, <2>5 DEF ApprovalInv
<1>4. ASSUME NEW p \in Process, Return(p)
      PROVE  ApprovalInv'
  <2>1. /\ work[p] # NoDocument /\ docs' = docs \union {work[p]}
        /\ work' = [work EXCEPT ![p] = NoDocument] /\ stored' = stored
    BY <1>4 DEF Return
  <2>2. work[p] \in Document /\ Sound(work[p])
    BY <2>1 DEF ApprovalInv, DocumentsTyped, DocumentsSound
  <2>3. DocumentsTyped'
    BY <2>1, <2>2 DEF ApprovalInv, DocumentsTyped, Document
  <2>4. ASSUME NEW q \in Document, Sound(q)
        PROVE  Sound(q)'
    BY <2>1, <2>4, SoundStays DEF ApprovalInv
  <2>5. DocumentsSound'
    BY <2>1, <2>2, <2>4 DEF ApprovalInv, DocumentsTyped, DocumentsSound
  <2>6. QED
    BY <2>3, <2>5 DEF ApprovalInv
<1>5. CASE UNCHANGED approvalVars
  BY <1>5 DEF approvalVars, ApprovalInv, DocumentsTyped, DocumentsSound, Sound, Eligible,
              HandoffOf, DecisionOf, Document
<1>6. QED
  BY <1>1, <1>2, <1>3, <1>4, <1>5 DEF ApprovalNext

\* Every document ever built or issued rests on documents that were returned,
\* all about one revision that was eligible.
THEOREM ApprovalsSound == ApprovalSpec => []ApprovalInv
<1>1. QED
  BY ApprovalInitially, ApprovalStep, PTL DEF ApprovalSpec

\* A publication request is of one eligible revision and its own artifact, and
\* the decision and the handoff it rests on were handed out: for any set of
\* processes, approvers and publishers, over any mixture of documents.
THEOREM PublicationsAreApproved == ApprovalSpec => []PublicationIsApproved
<1>1. ApprovalInv => PublicationIsApproved
  <2> SUFFICES ASSUME ApprovalInv,
                      NEW q \in OfKind("publication") \union {work[p] : p \in Process},
                      q.kind = "publication"
               PROVE  /\ [As(q, "decision") EXCEPT !.publisher = Nobody] \in docs
                      /\ [As(q, "handoff") EXCEPT !.publisher = Nobody, !.decision = Nobody] \in docs
                      /\ q.approver \in Approver /\ q.publisher \in Publisher
                      /\ q.rev = q.artifact /\ Eligible(q.rev)
    BY DEF PublicationIsApproved
  <2>1. q # NoDocument
    BY DEF NoDocument
  <2>2. Sound(q)
    BY <2>1 DEF ApprovalInv, DocumentsTyped, DocumentsSound, OfKind
  <2>3. QED
    BY <2>2 DEF Sound, Undecided, Unpublished, DecisionOf, HandoffOf
<1>2. QED
  BY <1>1, ApprovalsSound, PTL

\* Once a revision has been superseded, nothing new is built of it.
THEOREM SupersededStaysFinal == ApprovalSpec => SupersededIsFinal
<1>1. ASSUME ApprovalInv, [ApprovalNext]_approvalVars, NEW rev \in 1 .. Len(stored) - 1
      PROVE  InHand(rev)' \subseteq InHand(rev)
  <2>0. Len(stored) \in Nat
    BY <1>1 DEF ApprovalInv, DocumentsTyped
  <2>1. ASSUME UNCHANGED <<docs, work>>
        PROVE  InHand(rev)' \subseteq InHand(rev)
    BY <2>1 DEF InHand
  <2>2. CASE IssueGrant
    <3>1. PICK d \in Document : docs' = docs \union {d} /\ d.kind \in Issued /\ work' = work
      BY <1>1, <2>2, IssuedIsSound
    <3>2. d.kind \notin Built
      BY <3>1 DEF Issued, Built
    <3>3. QED
      BY <3>1, <3>2 DEF InHand
  <2>3. ASSUME NEW p \in Process, Build(p)
        PROVE  InHand(rev)' \subseteq InHand(rev)
    <3>1. PICK d \in Document : Make(p, d) /\ d.rev = Len(stored)
      BY <1>1, <2>3, BuiltIsSound
    <3>2. work' = [work EXCEPT ![p] = d] /\ docs' = docs
      BY <3>1 DEF Make
    <3>3. d.rev # rev
      BY <2>0, <3>1
    <3>4. \A x : x \in {work'[s] : s \in Process} => x = d \/ x \in {work[s] : s \in Process}
      BY <1>1, <3>2 DEF ApprovalInv, DocumentsTyped
    <3>5. QED
      BY <3>2, <3>3, <3>4 DEF InHand
  <2>4. ASSUME NEW p \in Process, Return(p)
        PROVE  InHand(rev)' \subseteq InHand(rev)
    <3>1. /\ docs' = docs \union {work[p]}
          /\ work' = [work EXCEPT ![p] = NoDocument]
      BY <2>4 DEF Return
    <3>2. NoDocument.kind \notin Built
      BY DEF NoDocument, Built
    <3>3. \A x : x \in {work'[s] : s \in Process} =>
                   x = NoDocument \/ x \in {work[s] : s \in Process}
      BY <1>1, <3>1 DEF ApprovalInv, DocumentsTyped
    <3>4. QED
      BY <3>1, <3>2, <3>3 DEF InHand
  <2>5. QED
    BY <1>1, <2>1, <2>2, <2>3, <2>4 DEF ApprovalNext, OtherRevision, approvalVars
<1>2. ApprovalInv /\ [ApprovalNext]_approvalVars =>
        [\A rev \in 1 .. Len(stored) - 1 : InHand(rev)' \subseteq InHand(rev)]_approvalVars
  BY <1>1
<1>3. QED
  BY <1>2, ApprovalsSound, PTL DEF ApprovalSpec, SupersededIsFinal

=============================================================================
