---------------------------- MODULE MCWorkEvents ----------------------------
(* Instance of WorkEvents for TLC.  Writers, and indexing processes, are    *)
(* interchangeable: no property names one of them.                          *)
EXTENDS WorkEvents, TLC

Interchangeable == Permutations(Writers) \cup Permutations(Tasks)

=============================================================================
