SPECIFICATION Spec
CONSTANTS
  Proc = {p1, p2}
  Run = {r1}
  Job = job
  NoProc = none
  SourceMayChange = FALSE
  PowerMayFail = FALSE
  Operations = {"lifecycle", "plan", "queue", "intent", "cancel", "dispatch", "deliver", "execute", "recoverPlanned", "recoverDispatching"}
SYMMETRY ProcSymmetry
INVARIANTS TypeOK SentAtMostOnce ToldIsTrue
PROPERTIES PlanBeforeTransitions PromiseKept
