------------------------- MODULE MCMeetingWorkflow --------------------------
(* Small instances of MeetingWorkflow for TLC: who the users are, which    *)
(* endpoints receive requests, and how far the meeting has got.            *)
EXTENDS MeetingClaims, TLC

CONSTANTS ann, bob, n1, n2

OneText == {n1}
TwoTexts == {n1, n2}

AdminAndChair == ann :> {"ADMIN"} @@ bob :> {"CHAIR"}

UnderReview == <<"DRAFT", "OPEN_UPDATES", "AGENDA_FINALIZED", "IN_PROGRESS", "FOR_REVIEW">>

SuperuserAndSecretary == ann :> {"SUPERUSER"} @@ bob :> {"SECRETARY"}

\* Every endpoint that changes the status, beside those that write the agenda
\* and the submissions.
Services == ServiceOps \cup DirectOps

\* Only forms write the is_locked flag, so it is off where there are none.
ServicesInit == Init /\ ~meeting.is_locked
ServicesSpec == ServicesInit /\ [][Next]_vars

\* The forms that write the whole row beside the requests they race.
FormsAndReview == FormOps \cup {"transition", "approve", "return", "archive"}
=============================================================================
