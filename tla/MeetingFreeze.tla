---------------------------- MODULE MeetingFreeze ----------------------------
(***************************************************************************)
(* What an approval freezes.  A request that edits the agenda or files a   *)
(* submission judges the meeting when it is loaded and writes without      *)
(* looking again, and neither write waits for the lock of an approval in   *)
(* progress.  MeetingWorkflow with history variables, which remember what  *)
(* was under way when the meeting was frozen.                              *)
(***************************************************************************)
EXTENDS MeetingWorkflow

VARIABLES
    racing,     \* users with such a request under way since the snapshot in flight was taken
    meanwhile,  \* the same for the newest committed snapshot
    refiled     \* whether a submission has changed since the status last did

allvars == <<vars, racing, meanwhile, refiled>>

Frozen == meeting.status \in NonEditable

\* Users whose request has been let through and has not written yet.
Writing == {u \in Users : pc[u] = "loaded" /\ call[u].op \in DirectOps}

Remember ==
    /\ racing' = IF pending # <<>> THEN racing \cup Writing'
                 ELSE IF pending' # <<>> THEN Writing' ELSE racing
    /\ meanwhile' = IF snapshots' # snapshots THEN racing \cup Writing'
                    ELSE IF Frozen' /\ ~Frozen THEN Writing' ELSE meanwhile
    /\ refiled' = (meeting'.status = meeting.status /\ (refiled \/ subs' # subs))

FreezeInit == Init /\ racing = {} /\ meanwhile = {} /\ refiled = FALSE

FreezeNext == Next /\ Remember

FreezeSpec == FreezeInit /\ [][FreezeNext]_allvars

\* Unless an edit was under way between the reading of the snapshot and its
\* commit, an approved or published meeting has the very agenda its newest
\* snapshot shows, and no submission of a frozen one has changed since: what
\* raced the approval can get past it, no request that starts later can.
\* (Superusers, who may always write, are not of the instance.)
FrozenWhenApproved ==
    Frozen /\ meanwhile = {} =>
        /\ ~refiled
        /\ meeting.status # "ARCHIVED" => agenda = snapshots[Len(snapshots)].agenda
=============================================================================
