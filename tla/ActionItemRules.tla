-------------------------- MODULE ActionItemRules ---------------------------
(***************************************************************************)
(* The static rules of the action items app: the status graph with its     *)
(* reasons and roles (action_items/services.py), and who may call which    *)
(* endpoint on an item he has read (core/permissions.py, action_items/     *)
(* views.py and forms.py).                                                 *)
(*                                                                         *)
(* A user is the set R of what he is: a role, RELATED to the item (its     *)
(* creator, an assignee, or the chair of its meeting), its OWNER or        *)
(* primary assignee, or a contributor of its DEPARTMENT.                   *)
(***************************************************************************)
EXTENDS Integers

Active   == {"OPEN", "IN_PROGRESS", "BLOCKED", "UNDER_REVIEW", "REOPENED"}
Terminal == {"COMPLETED", "CANCELLED"}
Statuses == Active \cup Terminal

\* The statuses the create and edit forms offer.
FormStatuses == {"OPEN", "IN_PROGRESS"}

ValidTransitions ==
    [OPEN         |-> {"IN_PROGRESS", "BLOCKED", "COMPLETED", "CANCELLED", "UNDER_REVIEW"},
     IN_PROGRESS  |-> {"OPEN", "BLOCKED", "COMPLETED", "CANCELLED", "UNDER_REVIEW"},
     BLOCKED      |-> {"OPEN", "IN_PROGRESS", "COMPLETED", "CANCELLED", "UNDER_REVIEW"},
     UNDER_REVIEW |-> {"OPEN", "IN_PROGRESS", "BLOCKED", "COMPLETED", "CANCELLED"},
     COMPLETED    |-> {"REOPENED", "CANCELLED"},
     CANCELLED    |-> {"REOPENED", "COMPLETED"},
     REOPENED     |-> {"OPEN", "IN_PROGRESS", "BLOCKED", "UNDER_REVIEW", "COMPLETED", "CANCELLED"}]

\* Mutant of ReasonEdges: reviving a cancelled item needs no reason.
FewerReasonEdges ==
    {<<"COMPLETED", "REOPENED">>, <<"UNDER_REVIEW", "CANCELLED">>}

ReasonEdges ==
    {<<"COMPLETED", "REOPENED">>, <<"CANCELLED", "REOPENED">>, <<"UNDER_REVIEW", "CANCELLED">>}

-----------------------------------------------------------------------------
Roles == {"SUPERUSER", "ADMIN", "CHAIR", "SECRETARY", "CONTRIBUTOR",
          "RELATED", "OWNER", "DEPARTMENT"}

HoldsAny(R, S) == R \cap (S \cup {"SUPERUSER"}) # {}

IsAdmin(R)   == HoldsAny(R, {"ADMIN"})
IsAuthor(R)  == HoldsAny(R, {"ADMIN", "CHAIR", "SECRETARY", "CONTRIBUTOR"})
IsRelated(R) == R \cap {"RELATED", "OWNER"} # {}

CanEdit(R, row) ==
    \/ "SUPERUSER" \in R
    \/ /\ row.status \notin Terminal
       /\ IsAdmin(R) \/ IsRelated(R) \/ (IsAuthor(R) /\ "DEPARTMENT" \in R)

\* ActionItemAuthorRequiredMixin, before the edit and delete views.
IsItemAuthor(R, row) == CanEdit(R, row) \/ (IsAuthor(R) /\ IsRelated(R))

CanComplete(R) == HoldsAny(R, {"ADMIN", "CHAIR", "SECRETARY"}) \/ "OWNER" \in R

-----------------------------------------------------------------------------
(* The endpoints that write the row of an item.                            *)
ServiceOps == {"transition", "complete", "reopen"}
AllOps     == ServiceOps \cup {"edit", "delete"}

\* The statuses a service request can ask for.
Targets ==
    [transition |-> Statuses, complete |-> {"COMPLETED"}, reopen |-> {"REOPENED"}]

\* What transition_actionitem and the transition form both require.
EdgeAllowed(R, status, target, reason) ==
    /\ target \in ValidTransitions[status]
    /\ target = "REOPENED" => IsAdmin(R)
    /\ <<status, target>> \in ReasonEdges => reason

\* Whether the view and its form let the request through.
Admitted(op, R, row, target, reason) ==
    \/ op = "transition" /\ CanEdit(R, row) /\ EdgeAllowed(R, row.status, target, reason)
    \/ op = "complete" /\ CanComplete(R) /\ ~reason
    \/ op = "reopen" /\ IsAdmin(R) /\ reason
    \/ op \in {"edit", "delete"} /\ IsItemAuthor(R, row)

\* Mutant of TransitionAllowed: the form has checked the edge already.
TransitionAllowedByForm(R, row, target, reason) ==
    /\ target = "REOPENED" => IsAdmin(R)
    /\ target = "COMPLETED" => ~row.blocked

\* Mutant of TransitionAllowed: blockers are not looked at.
TransitionAllowedBlocked(R, row, target, reason) ==
    EdgeAllowed(R, row.status, target, reason)

\* transition_actionitem's checks of the row it reads.
TransitionAllowed(R, row, target, reason) ==
    /\ EdgeAllowed(R, row.status, target, reason)
    /\ target = "COMPLETED" => ~row.blocked
=============================================================================
