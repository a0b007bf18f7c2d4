------------------------- MODULE MCApprovalCommands -------------------------
EXTENDS ApprovalCommands, TLC

\* A text that approves and names no row, a button that rejects the second row,
\* and the two confirmations.
SomeMessages ==
    {[kind |-> "prepare", action |-> "approve", row |-> 0],
     [kind |-> "click", action |-> "reject", row |-> 2],
     [kind |-> "confirm", action |-> "approve"],
     [kind |-> "confirm", action |-> "reject"]}

Interchangeable == Permutations(Handlers) \cup Permutations(Tasks)
=============================================================================
