----------------------------- MODULE CarryLedger ----------------------------
(***************************************************************************)
(* What the requests of ActionCarryForward promise: the tables change as   *)
(* if each request were one step.  An item, a meeting or a whole batch of  *)
(* copies appears at once, with numbers that nobody has; a batch comes     *)
(* with its links, from sources its form selected and the target has no    *)
(* copy of, and its numbers follow the ranks of its sources.               *)
(***************************************************************************)
EXTENDS Integers

CONSTANTS Existing, Closed, Forms, NoMeeting, Deletable     \* of ActionCarryForward

VARIABLES items, links, meetings

NumbersOf(rows) == {i.ref : i \in rows}

\* Finished items are carried if the form asks for them.
Selected(form) == {s \in DOMAIN form.rank : form.finished \/ s \notin Closed}

\* Whether source s has no copy yet where the form carries to; a batch without
\* a meeting does not look.
Uncarried(form, s) ==
    form.target = NoMeeting
    \/ \A l \in links : <<l.source, l.target, l.scope>> # <<s, form.target, form.finished>>

Init ==
    /\ items = {[ref |-> n, from |-> 0] : n \in Existing}
    /\ links = {} /\ meetings = {1}

\* The numbers of the items that are new.
Fresh == NumbersOf(items') \ NumbersOf(items)

Create ==
    /\ \E n \in Fresh : items' = items \cup {[ref |-> n, from |-> 0]}
    /\ UNCHANGED <<links, meetings>>

NewMeeting ==
    /\ \E n \in meetings' \ meetings : meetings' = meetings \cup {n}
    /\ UNCHANGED <<items, links>>

\* Some of the selected sources are carried, each under a number of its own.
Carry(form) ==
    \E S \in SUBSET {s \in Selected(form) : Uncarried(form, s)} :
    \E number \in [S -> Fresh] :
        /\ \A s, t \in S : number[s] = number[t] => s = t
        /\ \A s, t \in S : form.rank[s] < form.rank[t] => number[s] < number[t]
        /\ items' = items \cup {[ref |-> number[s], from |-> s] : s \in S}
        /\ links' = links \cup {[source |-> s, target |-> form.target,
                                 scope |-> form.finished, new |-> number[s]] : s \in S}
        /\ UNCHANGED meetings

Delete(n) ==
    /\ items' = {i \in items : i.ref # n}
    /\ links' = {l \in links : l.new # n}
    /\ UNCHANGED meetings

Next ==
    \/ Create \/ NewMeeting
    \/ \E form \in Forms : Carry(form)
    \/ \E n \in Deletable : Delete(n)

Spec == Init /\ [][Next]_<<items, links, meetings>>
=============================================================================
