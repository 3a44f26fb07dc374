--------------------------- MODULE IdempotentLedger ---------------------------
(***************************************************************************)
(* The D.2 idempotency ledger of one run.  Callers hold snapshots, perhaps *)
(* stale or restored from other evidence, and ask for transitions from     *)
(* them; the ledger applies a transition once, replays it exactly, or      *)
(* refuses.  Its last record, not a caller's snapshot, says where the run  *)
(* stands.                                                                 *)
(***************************************************************************)
EXTENDS Naturals, Sequences

CONSTANTS Caller, TheRun

VARIABLES
  ledger,    \* the decisions, oldest first: [from, to, result]
  held,      \* held[c]: the snapshot caller c has in hand
  answer     \* answer[c]: the outcome of its last request

vars == <<ledger, held, answer>>

Tip == IF ledger = <<>> THEN [state |-> "planned", revision |-> 0]
                        ELSE ledger[Len(ledger)].result

\* The job-run state machine, with the tip of the ledger as its state.
D1 == INSTANCE DurableJobState
        WITH Run <- {TheRun}, snapshot <- [r \in {TheRun} |-> Tip]

Answer == {"none", "applied", "replayed", "conflict", "mismatch", "invalid"}

Record == [from : D1!Position, to : D1!State, result : D1!Position]

-----------------------------------------------------------------------------

\* The one record of the slot of position x: a slot is a run and a revision.
InSlot(i, x) == ledger[i].from.revision = x.revision

\* Mutant: a record is taken for the answer whatever target it is about.
SameOrigin(i, x, s) == ledger[i].from = x

\* The record is about the very request: same slot, same state, same target.
SameRequest(i, x, s) == ledger[i].from = x /\ ledger[i].to = s

Init ==
  /\ ledger = <<>>
  /\ held = [c \in Caller |-> D1!Planned]
  /\ answer = [c \in Caller |-> "none"]

Reply(c, a) == answer' = [answer EXCEPT ![c] = a]

Replay(c, s) ==
  \E i \in DOMAIN ledger :
    /\ InSlot(i, held[c]) /\ SameRequest(i, held[c], s)
    /\ D1!ValidTransition(held[c], s)
    /\ held' = [held EXCEPT ![c] = D1!Successor(@, s)]
    /\ Reply(c, "replayed")
    /\ UNCHANGED ledger

Conflict(c, s) ==
  /\ \E i \in DOMAIN ledger : InSlot(i, held[c]) /\ ~SameRequest(i, held[c], s)
  /\ Reply(c, "conflict")
  /\ UNCHANGED <<ledger, held>>

FreeSlot(c) == \A i \in DOMAIN ledger : ~InSlot(i, held[c])

\* A snapshot that is not the tip cannot claim a new slot.
Mismatch(c) ==
  /\ FreeSlot(c)
  /\ held[c] # Tip
  /\ Reply(c, "mismatch")
  /\ UNCHANGED <<ledger, held>>

Invalid(c, s) ==
  /\ FreeSlot(c)
  /\ held[c] = Tip
  /\ ~D1!ValidTransition(held[c], s)
  /\ Reply(c, "invalid")
  /\ UNCHANGED <<ledger, held>>

\* The decision is appended and its result handed to the caller.
Decide(c, s) ==
  /\ ledger' = Append(ledger, [from |-> held[c], to |-> s,
                               result |-> D1!Successor(held[c], s)])
  /\ held' = [held EXCEPT ![c] = D1!Successor(@, s)]
  /\ Reply(c, "applied")

\* Mutants: a stale snapshot claims a slot; an edge the graph lacks is taken.
ApplyStale(c, s) == FreeSlot(c) /\ D1!ValidTransition(held[c], s) /\ Decide(c, s)
ApplyAny(c, s)   == FreeSlot(c) /\ held[c] = Tip /\ Decide(c, s)

Apply(c, s) ==
  /\ FreeSlot(c)
  /\ held[c] = Tip
  /\ D1!ValidTransition(held[c], s)
  /\ Decide(c, s)

\* A caller comes back with a snapshot it restored: any the snapshot class
\* accepts.
Restore(c) ==
  /\ \E x \in D1!Position : D1!ValidPosition(x) /\ held' = [held EXCEPT ![c] = x]
  /\ Reply(c, "none")
  /\ UNCHANGED ledger

Next ==
  \E c \in Caller :
    \/ \E s \in D1!State : Replay(c, s) \/ Conflict(c, s) \/ Invalid(c, s) \/ Apply(c, s)
    \/ Mismatch(c)
    \/ Restore(c)

Spec == Init /\ [][Next]_vars

-----------------------------------------------------------------------------

TypeOK ==
  /\ ledger \in Seq(Record)
  /\ held \in [Caller -> D1!Position]
  /\ answer \in [Caller -> Answer]

\* The ledger the code builds always passes the ledger's own construction
\* check: one record per slot, each a legal edge, each from where the one
\* before it ended, the first from planned.
LedgerValid ==
  \A i \in DOMAIN ledger :
    /\ ledger[i].from.revision = i - 1
    /\ D1!ValidTransition(ledger[i].from, ledger[i].to)
    /\ ledger[i].result = D1!Successor(ledger[i].from, ledger[i].to)
    /\ ledger[i].from = IF i = 1 THEN D1!Planned ELSE ledger[i - 1].result

\* Two callers told an outcome for one revision were told the same: whatever
\* a caller holds after an application or a replay is what the ledger has.
AnswersAgree ==
  \A c \in Caller :
    answer[c] \in {"applied", "replayed"} =>
      \E i \in DOMAIN ledger : ledger[i].result = held[c]

\* The ledger follows the D.1 graph: every decision is one legal step from
\* where the run stood.
FollowsTheGraph == D1!Spec

=============================================================================
