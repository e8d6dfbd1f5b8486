----------------------------- MODULE AgendaOrder -----------------------------
(***************************************************************************)
(* The agenda of one meeting that stays open for edits (meetings/views.py, *)
(* services.py): items with an order, unique in the meeting, that users    *)
(* create, edit, delete, carry forward from elsewhere and reorder.         *)
(*                                                                         *)
(* A user looks at a page, composes a request from what it shows and posts *)
(* it; meanwhile others do the same.  The request reads the agenda and     *)
(* then writes it.  PostgreSQL checks unique (meeting, order) row by row;  *)
(* whoever meets another transaction's row waits for its end, so what a    *)
(* request writes takes effect, or fails, as a whole.                      *)
(***************************************************************************)
EXTENDS Integers, SequencesExt

CONSTANTS
    Users,      \* users at the meeting's page
    Typed,      \* the orders a user may type into a form
    MaxOrder,   \* the largest order, 2^31 - 1 in the code
    Batches,    \* how many items may be carried forward at once
    MaxItems    \* bound: no page is opened that would create more items

ASSUME OrdersAssumption == MaxOrder \in Nat /\ Typed \subseteq 0..MaxOrder
ASSUME BoundsAssumption == MaxItems \in Nat /\ Batches \subseteq Nat

VARIABLES
    agenda,     \* the items of the meeting and the order of each
    made,       \* how many items were ever made; they are numbered
    pc,         \* per user: phase of his request
    post,       \* per user: what it posts
    found,      \* per user: the posted items his request found
    loaded,     \* per user: those it loaded to reorder them
    first       \* per user: the order his request starts appending at

vars == <<agenda, made, pc, post, found, loaded, first>>

Phases == {"idle", "composing", "located", "posted"}

Ops == {"create", "update", "delete", "carry", "reorder"}

Posts == [op : Ops, list : Seq(Nat), n : Nat]

NoPost == [op |-> "create", list |-> <<>>, n |-> 0]

NoItems == [i \in {} |-> 0]

\* An agenda where the rows new are inserted or written over.
Put(rows, new) ==
    [i \in DOMAIN rows \cup DOMAIN new |-> IF i \in DOMAIN new THEN new[i] ELSE rows[i]]

\* Mutant of Fits: a table without the unique constraint.
FitsWidth(rows, new) == \A i \in DOMAIN new : new[i] \in 0..MaxOrder

\* The unique constraint and the width of the column let the rows in: a row
\* may not even take the place of one that the same statement moves later.
Fits(rows, new) ==
    /\ \A i \in DOMAIN new, j \in DOMAIN rows : rows[j] = new[i] => i = j
    /\ \A i \in DOMAIN new : new[i] \in 0..MaxOrder

\* int(last or -1) + 1: a largest order of 0 counts as none.
NextOrder(rows) ==
    LET last == IF rows = NoItems THEN -1 ELSE Max(Range(rows))
    IN  IF last = 0 THEN 0 ELSE last + 1

-----------------------------------------------------------------------------
Init ==
    /\ agenda = NoItems
    /\ made = 0
    /\ pc = [u \in Users |-> "idle"]
    /\ post = [u \in Users |-> NoPost]
    /\ found = [u \in Users |-> {}]
    /\ loaded = [u \in Users |-> {}]
    /\ first = [u \in Users |-> 0]

End(u) ==
    /\ pc' = [pc EXCEPT ![u] = "idle"]
    /\ post' = [post EXCEPT ![u] = NoPost]
    /\ found' = [found EXCEPT ![u] = {}]
    /\ loaded' = [loaded EXCEPT ![u] = {}]
    /\ first' = [first EXCEPT ![u] = 0]

\* How many items the requests in progress may still make.
Planned ==
    LET OpenTo(u) == IF pc[u] = "idle" THEN 0
                     ELSE CASE post[u].op = "create" -> 1
                            [] post[u].op = "carry" -> post[u].n
                            [] OTHER -> 0
    IN  SumFunction([u \in Users |-> OpenTo(u)])

Compose(u, op, list, n) ==
    /\ post' = [post EXCEPT ![u] = [op |-> op, list |-> list, n |-> n]]
    /\ pc' = [pc EXCEPT ![u] = "composing"]

\* What a user may post after looking at the page.  A new item's form
\* suggests the next order, an edit form the order of the item; the page has
\* the buttons to reorder when it shows two items or more.
Open(u) ==
    /\ pc[u] = "idle"
    /\ \/ \E n \in Typed \cup {NextOrder(agenda)} : made + Planned < MaxItems /\ Compose(u, "create", <<>>, n)
       \/ \E k \in Batches : made + Planned + k <= MaxItems /\ Compose(u, "carry", <<>>, k)
       \/ \E i \in DOMAIN agenda :
             \/ \E n \in Typed \cup {agenda[i]} : Compose(u, "update", <<i>>, n)
             \/ Compose(u, "delete", <<i>>, 0)
       \/ \E s \in SetToSeqs(DOMAIN agenda) : Len(s) > 1 /\ Compose(u, "reorder", s, 0)
    /\ UNCHANGED <<agenda, made, found, loaded, first>>

\* The view fetches the item, the largest order, or, to reorder, the keys of
\* the posted items there are in the meeting.
Read(u) ==
    /\ pc[u] = "composing" /\ post[u].op \in {"update", "carry", "reorder"}
    /\ post[u].op = "update" => post[u].list[1] \in DOMAIN agenda
    /\ pc' = [pc EXCEPT ![u] = IF post[u].op = "reorder" THEN "located" ELSE "posted"]
    /\ found' = [found EXCEPT ![u] = ToSet(post[u].list) \cap DOMAIN agenda]
    /\ first' = [first EXCEPT ![u] = IF post[u].op = "carry" THEN NextOrder(agenda) ELSE 0]
    /\ UNCHANGED <<agenda, made, post, loaded>>

\* A second query loads the items found; one deleted between the two is not
\* moved, and still counts in the offset.
Load(u) ==
    /\ pc[u] = "located"
    /\ pc' = [pc EXCEPT ![u] = "posted"]
    /\ loaded' = [loaded EXCEPT ![u] = found[u] \cap DOMAIN agenda]
    /\ UNCHANGED <<agenda, made, post, found, first>>

\* The item is gone, the user does not post, or the request fails for a
\* reason outside the agenda.
Abandon(u) ==
    /\ pc[u] # "idle"
    /\ End(u)
    /\ UNCHANGED <<agenda, made>>

-----------------------------------------------------------------------------
\* Creating and deleting depend on nothing read before.
Ready(u) == pc[u] = IF post[u].op \in {"create", "delete"} THEN "composing" ELSE "posted"

\* The rows a create, an edit or a carry-forward writes.  An edited item that
\* was deleted meanwhile is inserted again by save().
NewRows(u) ==
    CASE post[u].op = "create" -> [i \in {made + 1} |-> post[u].n]
      [] post[u].op = "update" -> [i \in {post[u].list[1]} |-> post[u].n]
      [] post[u].op = "carry"  ->
            [i \in made + 1..made + post[u].n |-> first[u] + i - made - 1]

Save(u) ==
    /\ Ready(u) /\ post[u].op \in {"create", "update", "carry"}
    /\ Fits(agenda, NewRows(u))
    /\ agenda' = Put(agenda, NewRows(u))
    /\ made' = IF post[u].op = "create" THEN made + 1
               ELSE IF post[u].op = "carry" THEN made + post[u].n ELSE made
    /\ End(u)

Delete(u) ==
    /\ Ready(u) /\ post[u].op = "delete"
    /\ agenda' = Restrict(agenda, DOMAIN agenda \ {post[u].list[1]})
    /\ End(u)
    /\ UNCHANGED made

\* Mutant of Positions: numbers the rows as the query returns them.
PositionsFound(u) == [i \in found[u] |-> Cardinality({j \in found[u] : j < i})]

\* Places in the posted list of the items found, counting from zero.
Positions(u) ==
    [i \in found[u] |->
        (CHOOSE k \in DOMAIN post[u].list : post[u].list[k] = i) - 1]

\* Mutant of SafeOffset: just past the final places.
SafeOffsetNear(u) == Cardinality(found[u])

\* Where the first phase of a reordering parks the items.
SafeOffset(u) == MaxOrder - Cardinality(found[u])

\* The two bulk updates, of the items loaded that are still there.
Parked(u) ==
    [i \in loaded[u] \cap DOMAIN agenda |-> SafeOffset(u) + Positions(u)[i]]
Placed(u) ==
    [i \in loaded[u] \cap DOMAIN agenda |-> Positions(u)[i]]

ReorderFits(u) == Fits(agenda, Parked(u)) /\ Fits(Put(agenda, Parked(u)), Placed(u))

\* Mutant of Reorder: items deleted since the request read them come back.
ReorderRevives(u) ==
    /\ pc[u] = "posted" /\ post[u].op = "reorder"
    /\ ReorderFits(u)
    /\ agenda' = Put(agenda, Positions(u))
    /\ End(u)
    /\ UNCHANGED made

Reorder(u) ==
    /\ pc[u] = "posted" /\ post[u].op = "reorder"
    /\ ReorderFits(u)
    /\ agenda' = Put(agenda, Placed(u))
    /\ End(u)
    /\ UNCHANGED made

\* IntegrityError or DataError: the transaction rolls back.
Fail(u) ==
    /\ Ready(u)
    /\ \/ post[u].op \in {"create", "update", "carry"} /\ ~Fits(agenda, NewRows(u))
       \/ post[u].op = "reorder" /\ ~ReorderFits(u)
    /\ End(u)
    /\ UNCHANGED <<agenda, made>>

Next == \E u \in Users :
    Open(u) \/ Read(u) \/ Load(u) \/ Abandon(u) \/ Save(u) \/ Delete(u) \/ Reorder(u) \/ Fail(u)

Spec == Init /\ [][Next]_vars

-----------------------------------------------------------------------------
(* Properties.                                                             *)

\* Every variable has its type, and no two items share an order.
TypeOK ==
    /\ made \in Nat /\ DOMAIN agenda \subseteq 1..made
    /\ agenda \in [DOMAIN agenda -> 0..MaxOrder] /\ IsInjective(agenda)
    /\ pc \in [Users -> Phases]
    /\ post \in [Users -> Posts]
    /\ found \in [Users -> SUBSET (1..made)]
    /\ loaded \in [Users -> SUBSET (1..made)]
    /\ first \in [Users -> Nat]

\* The column is wide enough: as many orders at its end as there are items to
\* move are not in use, and the final places lie before them.
RoomToPark(u) ==
    LET end == MaxOrder - Cardinality(found[u])
    IN  Len(post[u].list) <= end /\ \A i \in DOMAIN agenda : agenda[i] < end

\* A reordering of all the items there are never fails on the way, whichever
\* permutation is posted and whatever gaps there are: no item is parked or
\* placed on another.  One posted item may be gone when the request looks for
\* it; a second one would push the last parking place beyond the column.
ReorderAlwaysFits ==
    \A u \in Users :
        /\ pc[u] = "posted" /\ post[u].op = "reorder" /\ RoomToPark(u)
        /\ DOMAIN agenda \subseteq loaded[u] /\ Len(post[u].list) <= Cardinality(found[u]) + 1
        => ReorderFits(u)

\* After a reordering the items its request loaded stand as posted, however
\* stale the list, and the others stand where they stood.
ReorderedAsPosted ==
    [][\A u \in Users :
          LET L == post[u].list
          IN  pc[u] = "posted" /\ post[u].op = "reorder" /\ pc'[u] = "idle" /\ agenda' # agenda =>
                /\ DOMAIN agenda' = DOMAIN agenda
                /\ \A j, k \in DOMAIN L :
                      j < k /\ {L[j], L[k]} \subseteq loaded[u] \cap DOMAIN agenda
                         => agenda'[L[j]] < agenda'[L[k]]
                /\ \A i \in DOMAIN agenda \ loaded[u] : agenda'[i] = agenda[i]]_vars

\* To its readers the agenda is a list.
Listed ==
    [k \in 1..Cardinality(DOMAIN agenda) |->
        CHOOSE i \in DOMAIN agenda : Cardinality({j \in DOMAIN agenda : agenda[j] < agenda[i]}) = k - 1]

List == INSTANCE AgendaList WITH list <- Listed

ImplementsList == List!Spec
=============================================================================
