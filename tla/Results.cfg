SPECIFICATION MCSpec
CONSTANTS
  \* ledger
  Caller = {x1, x2}
  TheRun = r1
  \* evidence
  Artifact = {"musicxml"}
  Sealable = {x1, x2}
  MaxCrashes = 2
  \* ingestion
  Requested = {x1, x2}
  Delivery = {x1, x2, c3}
  Frame <- Frames
  Large = {"large"}
  \* the call of an engine
  Child = {p1}
  Path = {x1, x2}
  MaxOutputs = 2
  \* comparison
  Job = {x1, x2}
  Document <- Documents
  MaxCandidates = 3
  MaxDifferences = 2
SYMMETRY Symmetry
INVARIANTS
  LedgerValid AnswersAgree
  OneContent PreservedIsWhole
  OneResultPerRun HandoffIsReported
  TimedOutTreeIsDead ResultWasValidated
  DisagreementIsShown
PROPERTIES FollowsTheGraph NothingIsReplaced
\* every call ends, and so does every delivery
CHECK_DEADLOCK FALSE
