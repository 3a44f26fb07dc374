----------------------------- MODULE MCGatewayRun -----------------------------
(* Small instances of GatewayRun for TLC.                                   *)
EXTENDS GatewayRun, TLC

ProcSymmetry == Permutations(Proc)

=============================================================================
