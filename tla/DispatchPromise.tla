--------------------------- MODULE DispatchPromise ---------------------------
(***************************************************************************)
(* What the gateway promises about a run and the engine that serves it:    *)
(* the run follows the D.1 graph, and the four private messages (the       *)
(* trusted plan, the dispatch, the source, the execution trigger) leave    *)
(* the gateway at most once each, in that order, and only while the run    *)
(* stands at dispatching, revision 2.  There is no retry.                  *)
(***************************************************************************)
EXTENDS DurableJobState

VARIABLE sent                \* sent[r][m]: how often message m left for run r

Message == {"provision", "dispatch", "source", "execute"}

\* The message that has to precede m, itself for the first.
Before(m) ==
  CASE m = "provision" -> "provision"
    [] m = "dispatch"  -> "provision"
    [] m = "source"    -> "dispatch"
    [] m = "execute"   -> "source"

PromiseInit == Init /\ sent = [r \in Run |-> [m \in Message |-> 0]]

Advance(r, s) == Transition(r, s) /\ UNCHANGED sent

Send(r, m) ==
  /\ snapshot[r].state = "dispatching"
  /\ sent[r][m] = 0
  /\ m # "provision" => sent[r][Before(m)] = 1
  /\ sent' = [sent EXCEPT ![r][m] = 1]
  /\ UNCHANGED snapshot

PromiseNext ==
  \E r \in Run : \/ \E s \in State : Advance(r, s)
                 \/ \E m \in Message : Send(r, m)

PromiseSpec == PromiseInit /\ [][PromiseNext]_<<snapshot, sent>>

=============================================================================
