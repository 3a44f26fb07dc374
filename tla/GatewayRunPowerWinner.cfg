SPECIFICATION FairSpec
CONSTANTS
  Proc = {p1, p2}
  Run = {r1}
  Job = job
  NoProc = none
  SourceMayChange = FALSE
  PowerMayFail = TRUE
  Operations = {"lifecycle", "queue", "intent", "cancel", "dispatch", "recoverCancelled"}
INVARIANTS OneWinner
