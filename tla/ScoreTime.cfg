SPECIFICATION ReviewSpec
CONSTANTS
  \* what documents are made of
  Document <- AllDocs
  Voice <- AllVoices
  VoiceRead <- VoicesRead
  Look <- Looks
  BareLook <- BareLooks
  ExactLook <- ExactLooks
  LookRead <- LooksRead
  \* what edits set
  Signature = {0, 4}
  Length = {0, 2, 3}
  \* the times a document can state
  Unit = 6
  MaxDivisions = 5
  MaxUnits = 2
  \* the revisions made during a navigation
  MaxEdits = 2
INVARIANTS MidMeasureOnly
CHECK_DEADLOCK FALSE
