---------------------------- MODULE MCCardConfirm ----------------------------
(* Model-checking instances of CardConfirm: which messages arrive beside the *)
(* clicks, and which buttons of the cards are in use.                       *)
EXTENDS CardConfirm

NoRequests == {}
NoInputs == {}
NoButtons == {}
ApproveOnly == {"approve"}
ApproveAndTransfer == {"approve", "transfer"}

ParameterTexts == {"confirm"}
ConfirmTexts == {"approve", "confirm"}

=============================================================================
