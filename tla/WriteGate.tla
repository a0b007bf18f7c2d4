----------------------------- MODULE WriteGate -----------------------------
(***************************************************************************)
(* What a reader of the program expects of a write, whichever way it takes *)
(* through the code: an action is proposed, its user confirms it, and only *)
(* then is it handed to the provider.  Nothing is said of how often.       *)
(*                                                                         *)
(* RuntimeV5 (chat turns, portal) and ApprovalCommands (text commands and  *)
(* the older approval card) both implement it.                             *)
(***************************************************************************)
CONSTANT Actions

VARIABLES
    confirmed,      \* actions whose user confirmed them
    submitted       \* actions handed to the provider

gateVars == <<confirmed, submitted>>

Init == confirmed = {} /\ submitted = {}

Confirm ==
    /\ \E a \in Actions : confirmed' = confirmed \cup {a}
    /\ UNCHANGED submitted

Submit ==
    /\ \E a \in confirmed : submitted' = submitted \cup {a}
    /\ UNCHANGED confirmed

Next == Confirm \/ Submit

Spec == Init /\ [][Next]_gateVars

=============================================================================
