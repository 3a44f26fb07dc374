SPECIFICATION Spec
CONSTANTS
  Thread = {t1, t2}
  Run = {r1}
  Nonce = {n1, n2}
  None = none
  GatewayWaits = TRUE
  PowerMayFail = TRUE
SYMMETRY Symmetry
INVARIANTS SourceKept
