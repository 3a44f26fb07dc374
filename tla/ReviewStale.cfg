SPECIFICATION ProposalSpec
CONSTANTS
  Call = {c1, c2}
  Key = {k1}
  NoKey = none
  Command = {d1}
  MaxRevisions = 2
CHECK_DEADLOCK FALSE
PROPERTY StaleIsSaid
