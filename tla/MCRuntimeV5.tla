----------------------------- MODULE MCRuntimeV5 -----------------------------
(* Model-checking instances of RuntimeV5. *)
EXTENDS RuntimeV5

Confirmed == [confirm |-> TRUE, chat |-> TRUE]
Unconfirmed == [confirm |-> FALSE, chat |-> TRUE]

SomeTexts == {"approve", "transfer", "confirm", "cancel", "query", "followup", "blank"}
Broken == {[NoInput EXCEPT !.kind = k] : k \in {"legacy", "no_company"}}
LeftByCard(kind, message, strategy) ==
    [kind |-> kind, id |-> 1, message |-> message, strategy |-> strategy]
CardInputs == {LeftByCard("missing", "reject", "reject"),
               LeftByCard("missing", "transfer", "transfer"),
               LeftByCard("cancel", "cancel", "approve")}
AnyInput == Broken \cup CardInputs

ConfirmedRequests == {Confirmed}
UnconfirmedRequests == {Unconfirmed}
WriteTexts == {"approve", "reject", "transfer", "confirm", "cancel"}

=============================================================================
