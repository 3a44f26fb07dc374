SPECIFICATION MCSpec
CONSTANTS
  \* the state of a job
  Run = {r1, r2}
  \* proposals
  Call = {x1, x2, c3}
  Key = {k1}
  NoKey = none
  Command = {d1}
  MaxRevisions = 3
  \* the requests of a job
  Plan = {x1, x2}
  NoPlan = noPlan
  Age = 1
  Skew = 1
  Overlap = 4
  Lag = 1
  Ahead = 1
  MaxRotations = 1
  MaxAccepted = 4
  MaxTime = 4
  \* intake
  Delivery = {x1, x2}
  Caller = {"p"}
  Granted = {"p"}
  IntakeKey = {k1}
  Body = {"b1", "b2"}
  Doc <- IntakeDocs
  Limit <- IntakeLimit
  MaxRequests = 1
  Window = 1
  Ttl = 2
  Life = {2}
  IntakeTime = 3
  \* the proof of a dispatch
  Nonce = {n1}
  Engine = {x1, x2}
  MaxGen = 2
  ClockSkew = 1
  MaxAge = 1
  OverlapTime = 4
  SignerLag = 1
  ReplayTtl = 3
  Delay = 1
  Timeout = 2
  ProofTime = 4
  \* approvals
  Process = {q1}
  Approver = {x1, x2}
  Decision = {h1}
  Publisher = {u1}
  Nobody = none
  Teacher = {t1}
  StoredEdit = {"clean", "faulty"}
  MaxStored = 2
  \* scores: what documents are made of
  Document <- AllDocs
  Voice <- AllVoices
  VoiceRead <- VoicesRead
  Look <- Looks
  BareLook <- BareLooks
  ExactLook <- ExactLooks
  LookRead <- LooksRead
  \* what edits set
  Signature = {0, 4}
  Length = {0, 2, 3}
  \* the times a document can state
  Unit = 6
  MaxDivisions = 5
  MaxUnits = 2
  \* the revisions made during a navigation
  MaxEdits = 2
SYMMETRY Symmetry
INVARIANTS
  AnswerIsTrue PublicationIsApproved
  JobHasOnePlan AcceptedInItsGeneration RotationIsSeamless
  OneSourcePerKey AcceptedOnce OneEnd
  OverlapIsSaid ExportIsExact CursorIsInItsScore
PROPERTIES
  RevisionsDecideOnce ChainPromise SupersededIsFinal RecordsAreFinal
\* every call ends, and so does every clock
CHECK_DEADLOCK FALSE
