-------------------------- MODULE MeetingLifecycle --------------------------
(***************************************************************************)
(* What the meetings app promises about one meeting, without requests,     *)
(* locks or forms: the meeting walks the graph of VALID_TRANSITIONS one    *)
(* edge at a time, all of its walk is on record, and an immutable snapshot *)
(* appears only in the very step that approves or publishes it.            *)
(***************************************************************************)
EXTENDS MeetingRules, Sequences

VARIABLES
    status,     \* where the meeting is
    trail,      \* every status it has been in, oldest first
    versions    \* how many snapshots exist

Init ==
    /\ trail \in Seq(Statuses) /\ Len(trail) > 0
    /\ trail[1] = "DRAFT" /\ trail[Len(trail)] = status
    /\ \A i \in 1..Len(trail) - 1 : trail[i + 1] \in Moves(trail[i])
    /\ versions = 0

Move(s) ==
    /\ s \in Moves(status)
    /\ status' = s
    /\ trail' = Append(trail, s)
    /\ \/ versions' = versions
       \/ s \in {"APPROVED", "PUBLISHED"} /\ versions' = versions + 1

Next == \E s \in Statuses : Move(s)

Spec == Init /\ [][Next]_<<status, trail, versions>>
=============================================================================
