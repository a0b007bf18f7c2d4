--------------------------- MODULE MCApprovalBatch ---------------------------
(* Model-checking instances of ApprovalBatch: two approvals, one of them of  *)
(* low risk, listed together or alone.                                      *)
EXTENDS ApprovalBatch

CONSTANTS a1, a2

TwoApprovals == {a1, a2}
OneLowRisk == {a1}
Lists == {<<a1, a2>>, <<a2>>}
OneApproval == {a1}
OneList == {<<a1>>}

=============================================================================
