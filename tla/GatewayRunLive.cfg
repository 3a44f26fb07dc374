SPECIFICATION FairSpec
CONSTANTS
  Proc = {p1, p2}
  Run = {r1}
  Job = job
  NoProc = none
  SourceMayChange = TRUE
  PowerMayFail = FALSE
  Operations = {"lifecycle", "queue", "intent", "cancel", "dispatch", "deliver"}
INVARIANTS ChainComplete
PROPERTIES PromiseKept CallsReturn
