---------------------------- MODULE RevisionChain ----------------------------
(***************************************************************************)
(* What the teacher-review service promises of one score: its revisions    *)
(* form one chain that only grows, each made from the revision its author  *)
(* was looking at, and an idempotency key writes at most one of them.      *)
(***************************************************************************)
EXTENDS Naturals, Sequences

CONSTANTS
  Key,      \* idempotency keys of the review API
  NoKey,    \* stands for the key of a revision written without the API
  Author,   \* identities of edit commands
  Edit      \* the edits a teacher may propose

VARIABLES
  chain,    \* the revisions, oldest first; position 0 is the base score
  spent     \* the keys that have written

Revision == [id : Author, key : Key \union {NoKey}, seen : Nat, edit : Edit]

Init == chain = <<>> /\ spent = {}

\* A revision is made from the head, and its key is spent with it.
Write(a, k, e) ==
  /\ k \notin spent
  /\ chain' = Append(chain, [id |-> a, key |-> k, seen |-> Len(chain), edit |-> e])
  /\ spent' = spent \union ({k} \ {NoKey})

Next == \E a \in Author, k \in Key \union {NoKey}, e \in Edit : Write(a, k, e)

Spec == Init /\ [][Next]_<<chain, spent>>

=============================================================================
