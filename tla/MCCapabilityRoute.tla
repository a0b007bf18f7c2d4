-------------------------- MODULE MCCapabilityRoute --------------------------
(* Model-checking instances of CapabilityRoute. *)
EXTENDS CapabilityRoute

\* Two persons, the search finds one of them.  The directory is empty, or it lists one
\* person or both; a fetch that brings departments and nobody needs no directory of
\* its own, since the calls for the users may all fail.
SomeDirectories ==
  { [departments |-> FALSE, users |-> {}],
    [departments |-> TRUE, users |-> {"ann"}],
    [departments |-> TRUE, users |-> {"ann", "bo"}] }

=============================================================================
