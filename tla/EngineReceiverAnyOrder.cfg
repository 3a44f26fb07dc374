SPECIFICATION Spec
CONSTANTS
  Thread = {t1, t2}
  Run = {r1, r2}
  Nonce = {n1}
  None = none
  GatewayWaits = FALSE
  PowerMayFail = TRUE
SYMMETRY Symmetry
PROPERTY StartsPrepared
