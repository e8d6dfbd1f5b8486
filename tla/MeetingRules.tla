---------------------------- MODULE MeetingRules ----------------------------
(***************************************************************************)
(* The static rules of the meetings app: the status graph and its reason   *)
(* and role requirements (meetings/services.py), the states of a           *)
(* department submission (meetings/models.py), and the predicates that     *)
(* decide which user may call which endpoint on a meeting he has read      *)
(* (core/permissions.py, the views and their forms).                       *)
(*                                                                         *)
(* A user is the set R of the roles he holds.  ADMIN stands for System     *)
(* Administrator and Management Administrator, which the meetings app      *)
(* never tells apart; SUPERUSER is Django's flag and OWNER marks the       *)
(* chair or creator of this very meeting.  Every user is active and        *)
(* authenticated.                                                          *)
(***************************************************************************)
EXTENDS Naturals

Statuses ==
    {"DRAFT", "OPEN_UPDATES", "AGENDA_FINALIZED", "IN_PROGRESS", "FOR_REVIEW",
     "RETURNED", "APPROVED", "PUBLISHED", "CLOSED", "ARCHIVED"}

NonEditable == {"APPROVED", "PUBLISHED", "CLOSED", "ARCHIVED"}

ValidTransitions ==
    [DRAFT            |-> {"DRAFT", "OPEN_UPDATES", "ARCHIVED"},
     OPEN_UPDATES     |-> {"DRAFT", "AGENDA_FINALIZED", "ARCHIVED"},
     AGENDA_FINALIZED |-> {"OPEN_UPDATES", "IN_PROGRESS", "ARCHIVED"},
     IN_PROGRESS      |-> {"AGENDA_FINALIZED", "FOR_REVIEW", "ARCHIVED"},
     FOR_REVIEW       |-> {"IN_PROGRESS", "RETURNED", "APPROVED", "ARCHIVED"},
     RETURNED         |-> {"FOR_REVIEW", "ARCHIVED"},
     APPROVED         |-> {"RETURNED", "PUBLISHED", "ARCHIVED", "CLOSED"},
     PUBLISHED        |-> {"APPROVED", "RETURNED", "CLOSED", "ARCHIVED"},
     CLOSED           |-> {"PUBLISHED", "ARCHIVED"},
     ARCHIVED         |-> {}]

\* The one self-edge of the table (DRAFT) never survives transition_meeting,
\* which refuses a target identical to the current status.
Moves(s) == ValidTransitions[s] \ {s}

ReasonEdges == {"FOR_REVIEW", "APPROVED", "PUBLISHED"} \X {"RETURNED"}

AdminTargets == {"RETURNED", "ARCHIVED"}

\* The statuses reopen_meeting offers, read off the caller's copy of the row.
Reopenings ==
    [APPROVED  |-> {"RETURNED", "PUBLISHED", "CLOSED"},
     PUBLISHED |-> {"RETURNED", "APPROVED", "CLOSED"},
     CLOSED    |-> {"PUBLISHED"},
     ARCHIVED  |-> {"APPROVED", "PUBLISHED", "CLOSED"}]

SubmissionStates ==
    {"NOT_STARTED", "IN_PROGRESS", "SUBMITTED", "RETURNED", "ACCEPTED"}

Triggers == {"APPROVE", "PUBLISH"}

-----------------------------------------------------------------------------
Roles == {"SUPERUSER", "ADMIN", "CHAIR", "SECRETARY", "CONTRIBUTOR", "OWNER"}

HoldsAny(R, S) == R \cap (S \cup {"SUPERUSER"}) # {}

IsAdmin(R)    == HoldsAny(R, {"ADMIN"})
IsAuthor(R)   == HoldsAny(R, {"ADMIN", "CHAIR", "SECRETARY"})
IsReviewer(R) == HoldsAny(R, {"ADMIN", "CHAIR"})

\* Mutant of CanEdit: an administrator edits the agenda of any meeting.
CanEditAsAdmin(R, row) ==
    \/ R \cap {"SUPERUSER", "ADMIN"} # {}
    \/ row.status \notin NonEditable /\ ~row.is_locked /\ (IsAuthor(R) \/ "OWNER" \in R)

CanEdit(R, row) ==
    \/ "SUPERUSER" \in R
    \/ /\ row.status \notin NonEditable
       /\ IF row.is_locked THEN IsAdmin(R) ELSE IsAuthor(R) \/ "OWNER" \in R

CanTransition(R, row, target) ==
    /\ CanEdit(R, row) \/ IsAuthor(R)
    /\ target = "RETURNED" => IsAdmin(R)

\* can_submit_minutes and can_resubmit_minutes are the same predicate.
CanSubmit(R, row) ==
    \/ "SUPERUSER" \in R
    \/ row.status \notin NonEditable /\ R \cap {"ADMIN", "CHAIR", "SECRETARY", "CONTRIBUTOR"} # {}

\* What TransitionForm accepts for the row it was built from.
TransitionFormValid(R, row, target, reason) ==
    /\ target \in ValidTransitions[row.status]
    /\ target \in {"ARCHIVED", "RETURNED"} => IsAdmin(R)
    /\ <<row.status, target>> \in ReasonEdges => reason

-----------------------------------------------------------------------------
(* The endpoints of one meeting that write to the database.  A service     *)
(* endpoint ends in transition_meeting; the other ones write directly.     *)
ServiceOps ==
    {"transition", "archive", "submit", "resubmit", "return", "approve",
     "publish", "close", "reopen"}
FormOps   == {"edit", "minutes"}
DirectOps == {"agenda", "upsert"}
AllOps    == ServiceOps \cup FormOps \cup DirectOps

\* The endpoints that call transition_meeting without skip_role_check.
RoleCheckedOps == {"transition", "archive"}

\* The statuses a service request can ask for.
Targets ==
    [transition |-> Statuses, archive |-> {"ARCHIVED"}, submit |-> {"FOR_REVIEW"},
     resubmit |-> {"FOR_REVIEW"}, return |-> {"RETURNED"}, approve |-> {"APPROVED"},
     publish |-> {"PUBLISHED"}, close |-> {"CLOSED"}, reopen |-> Statuses]

\* Whether the view, its form and the service let the request through, all of
\* them judging the copy of the row the view loaded.
Admitted(op, R, row, target, reason) ==
    \/ /\ op = "transition"
       /\ TransitionFormValid(R, row, target, reason)
       /\ CanTransition(R, row, target)
    \/ op = "archive" /\ IsAdmin(R) /\ reason
    \/ op \in {"submit", "resubmit", "upsert", "minutes"} /\ CanSubmit(R, row)
    \/ op \in {"return", "close"} /\ IsReviewer(R) /\ reason
    \/ op \in {"approve", "publish"} /\ IsReviewer(R)
    \/ /\ op = "reopen" /\ IsAdmin(R) /\ reason
       /\ row.status \in DOMAIN Reopenings /\ target \in Reopenings[row.status]
    \/ op \in {"edit", "agenda"} /\ CanEdit(R, row) /\ IsAuthor(R)

\* Mutant of TransitionAllowed: the form has checked the edge already.
TransitionAllowedByForm(op, R, current, target, reason) ==
    /\ target # current
    /\ op \in RoleCheckedOps /\ target \in AdminTargets => IsAdmin(R)
    /\ <<current, target>> \in ReasonEdges => reason

\* transition_meeting's own checks against the status it reads.
TransitionAllowed(op, R, current, target, reason) ==
    /\ target \in Moves(current)
    /\ op \in RoleCheckedOps /\ target \in AdminTargets => IsAdmin(R)
    /\ <<current, target>> \in ReasonEdges => reason
=============================================================================
