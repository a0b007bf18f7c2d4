--------------------------- MODULE MCResourceSync ---------------------------
(* Instance of ResourceSync for TLC: a Bitable table read with a user's     *)
(* authorisation, whose call may fail for ever; a chat; and a Wiki space    *)
(* of which only the index is kept.  The table was registered first.        *)
EXTENDS ResourceSync

CONSTANTS table, chat, wiki

MCCreated == <<table, chat, wiki>>

MCProfile ==
  [r \in Resources |->
     [type |-> IF r = table THEN "bitable" ELSE IF r = chat THEN "chat" ELSE "wiki",
      identity |-> IF r = table THEN "user" ELSE "app",
      config |-> TRUE, identifier |-> "ok"]]

=============================================================================
