----------------------------- MODULE AgendaList ------------------------------
(***************************************************************************)
(* What the agenda of a meeting is to its readers: a list of items.  New   *)
(* items come in as one block, an item leaves, or the items there are get  *)
(* another order; nothing else ever happens to it.                         *)
(***************************************************************************)
EXTENDS Integers, Sequences, SequencesExt

VARIABLE list

Init == list = <<>>

\* The other items keep their places to each other.
Insert(old, new) ==
    \E at \in 0..Len(old), k \in {Len(new) - Len(old)} :
        k > 0 /\ SubSeq(new, 1, at) \o SubSeq(new, at + k + 1, Len(new)) = old

Withdraw(old, new) == \E at \in DOMAIN old : new = RemoveAt(old, at)

Permute(old, new) == Len(new) = Len(old) /\ ToSet(new) = ToSet(old)

Next ==
    \E old \in {list}, new \in {list'} :
        Permute(old, new) \/ Insert(old, new) \/ Withdraw(old, new)

Spec == Init /\ [][Next]_list
=============================================================================
