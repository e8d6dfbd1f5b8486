---------------------------- MODULE MCActionItem ----------------------------
(* Small instances of ActionItemWorkflow for TLC: who the users are to the *)
(* item and which endpoints receive requests.                              *)
EXTENDS ActionItemWorkflow, TLC

CONSTANTS ann, bob

SuperuserAlone      == ann :> {"SUPERUSER"}
TwoAdmins           == ann :> {"SUPERUSER"} @@ bob :> {"ADMIN", "OWNER"}
SuperuserAndAuthor  == ann :> {"SUPERUSER"} @@ bob :> {"CONTRIBUTOR", "OWNER"}

\* The endpoints of the status; those and the edit form; all of them.
Services    == ServiceOps
Undeletable == ServiceOps \cup {"edit"}
Endpoints   == AllOps
=============================================================================
