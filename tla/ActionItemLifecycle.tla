------------------------ MODULE ActionItemLifecycle -------------------------
(***************************************************************************)
(* What one user at a time is promised of an action item: it moves along   *)
(* the edges of VALID_TRANSITIONS, each move on record and each reopening  *)
(* counted, it carries a completion stamp while it is completed, and an    *)
(* edit leaves it open or in progress and never touches a completed or     *)
(* cancelled one.                                                          *)
(***************************************************************************)
EXTENDS ActionItemRules

VARIABLES
    status,
    done,       \* completed_at is set
    reopened,   \* reopened_count
    moves       \* how many transitions are on record

Init == status \in FormStatuses /\ done = FALSE /\ reopened = 0 /\ moves = 0

Move(s) ==
    /\ s \in ValidTransitions[status]
    /\ status' = s
    /\ done' = (s = "COMPLETED")
    /\ reopened' = IF s = "REOPENED" THEN reopened + 1 ELSE reopened
    /\ moves' = moves + 1

Edit ==
    /\ status \notin Terminal
    /\ status' \in FormStatuses
    /\ UNCHANGED <<done, reopened, moves>>

Next == Edit \/ \E s \in Statuses : Move(s)

Spec == Init /\ [][Next]_<<status, done, reopened, moves>>
=============================================================================
