--------------------------- MODULE MCMeetingFreeze ---------------------------
(* MCMeetingWorkflow's instance for MeetingFreeze: the review buttons, the   *)
(* agenda and the submissions.                                               *)
EXTENDS MeetingFreeze, TLC

CONSTANTS ann, bob, n1, n2

TwoTexts == {n1, n2}

AdminAndChair == ann :> {"ADMIN"} @@ bob :> {"CHAIR"}

UnderReview == <<"DRAFT", "OPEN_UPDATES", "AGENDA_FINALIZED", "IN_PROGRESS", "FOR_REVIEW">>

Buttons == (ServiceOps \ {"transition", "reopen"}) \cup DirectOps

\* The notes play no part here, since no request of the instance writes them,
\* and the is_locked flag, which only forms write, is off.
ButtonsInit == FreezeInit /\ meeting.notes = n1 /\ ~meeting.is_locked

ButtonsSpec == ButtonsInit /\ [][FreezeNext]_allvars
=============================================================================
