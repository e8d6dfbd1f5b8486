---------------------------- MODULE MeetingClaims ----------------------------
(***************************************************************************)
(* What the repository's documents say of a meeting, stated over           *)
(* MeetingWorkflow.  TLC refutes it: the code does otherwise.              *)
(***************************************************************************)
EXTENDS MeetingWorkflow

\* docs/permissions.md:246-248: the only way past a non-editable status is the
\* transition flow, which writes a MeetingStatusHistory row.  A form that holds
\* a copy from before the approval writes the old status back without one.
StatusMovesOnRecord ==
    [][meeting.status \in NonEditable /\ meeting'.status # meeting.status
         => history' # history]_vars
=============================================================================
