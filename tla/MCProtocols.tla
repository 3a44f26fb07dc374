----------------------------- MODULE MCProtocols -----------------------------
(***************************************************************************)
(* Small instances, for TLC, of the machines that share no state: of the   *)
(* gateway the state of a job, the intake of a source and the proof of a   *)
(* dispatch; of an engine the requests of a job; of the teacher review the *)
(* proposals, the approvals, and the score with its navigation (MCScore).  *)
(* A behaviour runs one of them, chosen at the start, so that their states *)
(* add up instead of multiplying.  Proposals and approvals meet in the     *)
(* chain of revisions, which RevisionApi extends as ApprovalChain assumes. *)
(***************************************************************************)
EXTENDS DurableJobState, RevisionApi, ApprovalChain, EngineAuthentication,
        SourceIntake, DispatchProof, MCScore, TLC

-----------------------------------------------------------------------------
(* The documents an external caller may send. *)

Pdf == [format |-> "pdf", media |-> "application/pdf", extension |-> ".pdf",
        bytes |-> 1, pages |-> 1, width |-> 0, height |-> 0]
Png == [format |-> "png", media |-> "image/png", extension |-> ".png",
        bytes |-> 1, pages |-> 0, width |-> 1, height |-> 2]
Big == [Png EXCEPT !.width = 2]

IntakeDocs  == {Pdf, Png, Big}
IntakeLimit == [bytes |-> 1, pages |-> 1, side |-> 2, pixels |-> 2]

-----------------------------------------------------------------------------

MCInit ==
  /\ Init /\ ProposalInit /\ ApprovalInit /\ AuthInit /\ IntakeInit /\ ProofInit
  /\ \/ ReviewInit
     \/ /\ active \in {"job", "proposals", "requests", "intake", "proof", "approvals"}
        /\ score = <<>> /\ past = <<>> /\ plans = {} /\ nav = <<>>

\* The machines that do not run stay as they are.
Others(m) ==
  /\ m # "review" => UNCHANGED <<active, navVars>>
  /\ m # "job" => UNCHANGED snapshot
  /\ m # "proposals" => UNCHANGED proposalVars
  /\ m # "requests" => UNCHANGED authVars
  /\ m # "intake" => UNCHANGED intakeVars
  /\ m # "proof" => UNCHANGED proofVars
  /\ m # "approvals" => UNCHANGED approvalVars

MCNext ==
  \/ active = "job" /\ Next /\ Others("job")
  \/ active = "proposals" /\ ProposalNext /\ Others("proposals")
  \/ active = "requests" /\ AuthNext /\ Others("requests")
  \/ active = "intake" /\ IntakeNext /\ Others("intake")
  \/ active = "proof" /\ ProofNext /\ Others("proof")
  \/ active = "approvals" /\ ApprovalNext /\ Others("approvals")
  \/ ReviewNext /\ Others("review")

MCSpec ==
  MCInit /\ [][MCNext]_<<active, snapshot, proposalVars, authVars, intakeVars, proofVars,
                         approvalVars, navVars>>

\* calls, deliveries, engines, plans and approvers share two of their names.
Symmetry == Permutations(Plan)

=============================================================================
