SPECIFICATION Spec
CONSTANTS
  Proc = {p1, p2}
  Run = {r1}
  Job = job
  NoProc = none
  SourceMayChange = TRUE
  PowerMayFail = TRUE
  Operations = {"lifecycle", "queue", "intent", "cancel", "dispatch", "deliver", "execute", "recoverCancelled", "recoverQueued", "recoverIntent"}
SYMMETRY ProcSymmetry
INVARIANTS SentIsRecorded
