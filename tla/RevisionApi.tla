----------------------------- MODULE RevisionApi -----------------------------
(***************************************************************************)
(* Proposals of score revisions, from the review API down to the durable   *)
(* store: the API's idempotency ledger, the server write boundary with its *)
(* own reservation, and the transaction that appends a revision under the  *)
(* parent it was made from.  Calls run concurrently; the ledger and the    *)
(* reserver are guarded by a lock each, an append is one transaction, and  *)
(* a reader of the store reads the revisions and then the head.            *)
(***************************************************************************)
EXTENDS Naturals, Sequences

CONSTANTS
  Call,          \* concurrent calls
  Key, NoKey,    \* idempotency keys; the key of a call that does without one
  Command,       \* command identities that direct callers choose themselves
  MaxRevisions   \* bound on the length of the chain

\* What becomes of an edit: its state is valid, or keeps blocking issues; its
\* target is not in the state; the edit itself is rejected.
Edit == {"clean", "faulty", "noTarget", "rejected"}

ASSUME NoKeyAssumption   == NoKey \notin Key
ASSUME CommandAssumption == Command \intersect Call = {}
ASSUME BoundAssumption   == MaxRevisions \in Nat

VARIABLES
  chain,      \* the stored revisions; their number is the head's sequence
  slot,       \* slot[k]: the API ledger's entry of key k
  reserved,   \* the write boundary's reservations: [id, parent, edit]
  pc,         \* pc[c]: the point call c has reached
  req,        \* req[c]: the request of c
  rows,       \* rows[c]: how many revisions c read before it read the head
  answer      \* answer[c]: what c was told, [kind, revision]

proposalVars == <<chain, slot, reserved, pc, req, rows, answer>>

Author   == Call \union Command
Request  == [id : Author, key : Key \union {NoKey}, seen : 0 .. MaxRevisions,
             edit : Edit]
Free     == [state |-> "free"]
NoAnswer == [kind |-> "none", revision |-> 0]
Kind     == {"none", "created", "replayed", "stale", "conflict", "rejected",
             "unavailable", "reconcile"}
Binding  == [seen : 0 .. MaxRevisions, edit : Edit]
Slot     == {Free} \union [state : {"pending", "committed"}, binding : Binding,
                           revision : 0 .. MaxRevisions]
Point    == {"idle", "inspect", "resolve", "read", "verify", "begin", "issue",
             "load", "authorize", "reserve", "append", "audit", "done"}

ProposalInit ==
  /\ chain = <<>> /\ reserved = {}
  /\ slot = [k \in Key |-> Free]
  /\ pc = [c \in Call |-> "idle"]
  /\ req = [c \in Call |-> [id |-> c, key |-> NoKey, seen |-> 0, edit |-> "clean"]]
  /\ rows = [c \in Call |-> 0]
  /\ answer = [c \in Call |-> NoAnswer]

-----------------------------------------------------------------------------

GoTo(c, p) == pc' = [pc EXCEPT ![c] = p]

Tell(c, kind, n) ==
  /\ answer' = [answer EXCEPT ![c] = [kind |-> kind, revision |-> n]]
  /\ GoTo(c, "done")

ByApi(c) == req[c].key # NoKey

BindingOf(c) == [seen |-> req[c].seen, edit |-> req[c].edit]

\* Only the call that took a slot returns it; a direct call has none.
Abort(c) ==
  slot' = IF ByApi(c) /\ slot[req[c].key].state = "pending"
          THEN [slot EXCEPT ![req[c].key] = Free] ELSE slot

\* A mutation that certainly did not happen gives the key back.
Refuse(c, kind) == Abort(c) /\ Tell(c, kind, 0)

\* Mutant: an ambiguous failure is answered like a certain one.
DoubtAsRefusal(c) == Refuse(c, "unavailable")

\* Mutant: a key is given back although its mutation may have happened.
DoubtFreesKey(c) == Abort(c) /\ Tell(c, "reconcile", 0)

\* A mutation that may have happened keeps the key.
Doubt(c) == slot' = slot /\ Tell(c, "reconcile", 0)

\* A teacher proposes an edit of a revision she has read.
Propose(c) ==
  /\ pc[c] = "idle"
  /\ \E k \in Key, n \in 0 .. Len(chain), e \in Edit :
       req' = [req EXCEPT ![c] = [id |-> c, key |-> k, seen |-> n, edit |-> e]]
  /\ GoTo(c, "inspect")
  /\ UNCHANGED <<chain, slot, reserved, rows, answer>>

\* A trusted caller submits a command to the write boundary itself.
Submit(c) ==
  /\ pc[c] = "idle"
  /\ \E i \in Command, n \in 0 .. Len(chain), e \in Edit :
       req' = [req EXCEPT ![c] = [id |-> i, key |-> NoKey, seen |-> n, edit |-> e]]
  /\ GoTo(c, "load")
  /\ UNCHANGED <<chain, slot, reserved, rows, answer>>

\* A key that is taken answers for itself.
Taken(c) ==
  LET s == slot[req[c].key] IN
  \/ s.binding # BindingOf(c) /\ Tell(c, "conflict", 0)
  \/ s.binding = BindingOf(c) /\ s.state = "pending" /\ Tell(c, "reconcile", 0)
  \/ s.binding = BindingOf(c) /\ s.state = "committed" /\ Tell(c, "replayed", s.revision)

Inspect(c) ==
  /\ pc[c] = "inspect"
  /\ IF slot[req[c].key] = Free THEN GoTo(c, "resolve") /\ UNCHANGED answer
                                ELSE Taken(c)
  /\ UNCHANGED <<chain, slot, reserved, req, rows>>

\* The document is resolved at its head; the projection of another one is stale.
Resolve(c) ==
  /\ pc[c] = "resolve"
  /\ IF req[c].seen = Len(chain) THEN GoTo(c, "read") /\ UNCHANGED answer
                                 ELSE Tell(c, "stale", 0)
  /\ UNCHANGED <<chain, slot, reserved, req, rows>>

\* Loading the head starts with the revisions; a store without any says so.
ReadRows(c) ==
  /\ \/ pc[c] = "read" /\ GoTo(c, "verify")
     \/ pc[c] = "load" /\ GoTo(c, "authorize")
  /\ rows' = [rows EXCEPT ![c] = Len(chain)]
  /\ UNCHANGED <<chain, slot, reserved, req, answer>>

\* The address or the old value of the edit is not in the state any more.
TargetGone(c) == req[c].edit = "noTarget"

EditRejected(c) == req[c].edit = "rejected"

\* A grant, and the command made under it, name the head they are for.
NamesHead(c) == rows[c] = req[c].seen

\* A head appended between the two reads does not end the revisions read.
Torn(c) == rows[c] # 0 /\ rows[c] # Len(chain)

\* The head must be the revision resolved; else the state is called invalid.
Verify(c) ==
  /\ pc[c] = "verify"
  /\ \/ Torn(c) /\ Tell(c, "unavailable", 0)
     \/ ~Torn(c) /\ ~NamesHead(c) /\ Tell(c, "unavailable", 0)
     \/ /\ ~Torn(c) /\ NamesHead(c)
        /\ IF TargetGone(c) THEN Tell(c, "stale", 0)
                            ELSE GoTo(c, "begin") /\ UNCHANGED answer
  /\ UNCHANGED <<chain, slot, reserved, req, rows>>

Begin(c) ==
  /\ pc[c] = "begin"
  /\ IF slot[req[c].key] = Free
     THEN /\ slot' = [slot EXCEPT ![req[c].key] =
                        [state |-> "pending", binding |-> BindingOf(c), revision |-> 0]]
          /\ GoTo(c, "issue") /\ UNCHANGED answer
     ELSE Taken(c) /\ UNCHANGED slot
  /\ UNCHANGED <<chain, reserved, req, rows>>

\* The server's own grant and command, which may fail to be made.
Issue(c) ==
  /\ pc[c] = "issue"
  /\ \/ GoTo(c, "load") /\ UNCHANGED <<slot, answer>>
     \/ Refuse(c, "unavailable")
  /\ UNCHANGED <<chain, reserved, req, rows>>

\* The boundary loads the head again: the grant and command must name it, and
\* the edit is applied to its state in memory.
Authorize(c) ==
  /\ pc[c] = "authorize"
  /\ \/ Torn(c) /\ Doubt(c)
     \/ ~Torn(c) /\ ~NamesHead(c) /\ Refuse(c, "stale")
     \/ /\ ~Torn(c) /\ NamesHead(c)
        /\ \/ TargetGone(c) /\ Refuse(c, "stale")
           \/ EditRejected(c) /\ Refuse(c, "rejected")
           \/ /\ ~TargetGone(c) /\ ~EditRejected(c)
              /\ GoTo(c, "reserve") /\ UNCHANGED <<slot, answer>>
  /\ UNCHANGED <<chain, reserved, req, rows>>

SameSlot(c) == {r \in reserved : r.id = req[c].id /\ r.seen = req[c].seen}

Reserve(c) ==
  LET mine == [id |-> req[c].id, seen |-> req[c].seen, edit |-> req[c].edit]
  IN
  /\ pc[c] = "reserve"
  /\ \/ /\ SameSlot(c) \subseteq {mine}
        /\ reserved' = reserved \union {mine}
        /\ GoTo(c, "append") /\ UNCHANGED <<slot, answer>>
     \/ /\ ~ SameSlot(c) \subseteq {mine}
        /\ Refuse(c, "conflict") /\ UNCHANGED reserved
     \/ Refuse(c, "unavailable") /\ UNCHANGED reserved
  /\ UNCHANGED <<chain, req, rows>>

Made(c) == req[c]

\* The revision is the head already: an exact replay.
IsHead(c) == chain # <<>> /\ chain[Len(chain)] = Made(c)

\* What follows the append of a revision, or its replay, at the head.
Appended(c, kind) ==
  IF ByApi(c) THEN GoTo(c, "audit") /\ UNCHANGED answer
              ELSE Tell(c, kind, Len(chain'))

\* One transaction, under the condition that the parent is still the head.
AppendRevision(c) ==
  /\ pc[c] = "append"
  /\ \/ IsHead(c) /\ UNCHANGED <<chain, slot>> /\ Appended(c, "replayed")
     \/ /\ ~IsHead(c) /\ Len(chain) # req[c].seen
        /\ UNCHANGED chain /\ Refuse(c, "stale")
     \/ /\ ~IsHead(c) /\ Len(chain) = req[c].seen
        /\ Len(chain) < MaxRevisions
        /\ chain' = Append(chain, Made(c))
        /\ UNCHANGED slot /\ Appended(c, "created")
  /\ UNCHANGED <<reserved, req, rows>>

\* The store fails, before the commit or after it; the caller cannot tell.
StoreFails(c) ==
  /\ pc[c] = "append"
  /\ \/ UNCHANGED chain
     \/ /\ Len(chain) = req[c].seen /\ Len(chain) < MaxRevisions
        /\ chain' = Append(chain, Made(c))
  /\ Doubt(c)
  /\ UNCHANGED <<reserved, req, rows>>

\* The audit event is written before the answer is sealed in the ledger.
Audit(c) ==
  /\ pc[c] = "audit"
  /\ \/ Doubt(c)
     \/ /\ slot' = [slot EXCEPT ![req[c].key] =
                       [state |-> "committed", binding |-> @.binding,
                        revision |-> req[c].seen + 1]]
        /\ Tell(c, "created", req[c].seen + 1)
  /\ UNCHANGED <<chain, reserved, req, rows>>

Step(c) ==
  \/ Propose(c)   \/ Submit(c)   \/ Inspect(c) \/ Resolve(c)
  \/ ReadRows(c)  \/ Verify(c)   \/ Begin(c)   \/ Issue(c)
  \/ Authorize(c) \/ Reserve(c)  \/ AppendRevision(c)
  \/ StoreFails(c) \/ Audit(c)

ProposalNext == \E c \in Call : Step(c)

ProposalSpec == ProposalInit /\ [][ProposalNext]_proposalVars

-----------------------------------------------------------------------------

ProposalsTypeOK ==
  /\ chain \in Seq(Request) /\ Len(chain) <= MaxRevisions
  /\ slot \in [Key -> Slot]
  /\ reserved \subseteq [id : Author, seen : 0 .. MaxRevisions, edit : Edit]
  /\ pc \in [Call -> Point]
  /\ req \in [Call -> Request]
  /\ rows \in [Call -> 0 .. MaxRevisions]
  /\ answer \in [Call -> [kind : Kind, revision : 0 .. MaxRevisions]]

Wrote(c) == \E i \in DOMAIN chain : chain[i] = Made(c)

\* What a call is told is so.  A created or replayed revision stands at the
\* position named, made by the edit asked for of the revision its author saw;
\* and a refusal that invites another attempt left no revision of the call.
\* (api_harness handle_revision_proposal: the split into certain and ambiguous
\* errors, over every interleaving of other editors, replays and failures.)
AnswerIsTrue ==
  \A c \in Call :
    /\ answer[c].kind \in {"created", "replayed"} =>
         /\ answer[c].revision \in DOMAIN chain
         /\ chain[answer[c].revision].seen = req[c].seen
         /\ chain[answer[c].revision].edit = req[c].edit
    /\ answer[c].kind \in {"stale", "rejected", "conflict", "unavailable"} =>
         (req[c].id = c => ~Wrote(c))

\* The stored chain and the keys that have written.
Promise == INSTANCE RevisionChain
             WITH spent <- {chain[i].key : i \in DOMAIN chain} \ {NoKey}

\* The detailed calls keep the promise of RevisionChain: every append is made
\* from the head its author saw, and a key never writes twice, however often
\* and with whatever snapshot its request is sent again.
ChainPromise == Promise!Spec

\* A call whose document moved on before the write boundary is reached is told
\* that its snapshot is stale.
StaleIsSaid ==
  [][\A c \in Call : pc[c] = "verify" /\ pc'[c] = "done" /\ Len(chain) # req[c].seen
                       => answer'[c].kind = "stale"]_proposalVars

=============================================================================
