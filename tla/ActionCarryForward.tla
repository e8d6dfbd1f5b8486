-------------------------- MODULE ActionCarryForward --------------------------
(***************************************************************************)
(* Requests that create rows with a reference: action items created or     *)
(* carried forward, and meetings.  A reference is the largest number in    *)
(* use plus one, in a unique column; nothing locks between reading the     *)
(* numbers and inserting the row.                                          *)
(*                                                                         *)
(* An INSERT into a unique column waits for an open transaction that has   *)
(* put the same value there (a row it has deleted again included: the      *)
(* index entry stays until the transaction ends), then fails if that one   *)
(* committed.  So the row generate_action_reference inserts and deletes as *)
(* a probe holds its number until the request ends.                        *)
(*                                                                         *)
(* An action item goes Read (the numbers), Check (full_clean), Probe, Save *)
(* up to three times; a carried one starts with Look (is there a link for  *)
(* this source?) and ends with Link.  A meeting goes Read, Check, Save.    *)
(***************************************************************************)
EXTENDS Integers, FiniteSets, SequencesExt

CONSTANTS
    Users,          \* users sending requests, one request at a time each
    Existing,       \* numbers of the action items there are at the start
    Sources,        \* those that may be selected for carrying forward
    Closed,         \* the sources that are COMPLETED or CANCELLED
    Forms,          \* carry-forward forms posted: the rank of the selected items by
                    \* priority and creation, the target, finished ones too?
    Meetings,       \* meetings items may be carried into
    NoMeeting,      \* the NULL of target_meeting
    Deletable,      \* bound: the numbers whose items may be deleted
    Attempts,       \* attempts to find a free number (three in the code)
    MaxRef,         \* bound: no item is begun once this number is in use
    MaxMeetings     \* bound: no meeting is begun once there are that many

ASSUME NumbersAssumption ==
    /\ Existing \in SUBSET (Nat \ {0}) /\ IsFiniteSet(Existing)
    /\ Sources \subseteq Existing /\ Closed \subseteq Sources /\ Deletable \subseteq Nat \ Sources
    /\ Attempts \in Nat \ {0} /\ MaxRef \in Nat /\ MaxMeetings \in Nat
ASSUME FormsAssumption ==
    /\ NoMeeting \notin Meetings
    /\ \A form \in Forms : /\ DOMAIN form = {"rank", "target", "finished"}
                           /\ DOMAIN form.rank \subseteq Sources
                           /\ \A s \in DOMAIN form.rank : form.rank[s] \in Nat
                           /\ form.target \in Meetings \cup {NoMeeting}
                           /\ form.finished \in BOOLEAN

VARIABLES
    items,      \* committed action items: number, item carried forward from
    links,      \* committed ActionItemCarryForwardLink rows
    meetings,   \* numbers of the committed meetings of one type and year
    req         \* per user: the request in progress

vars == <<items, links, meetings, req>>

None == 0       \* carried from nothing, no candidate yet

Targets == Meetings \cup {NoMeeting}

Items == [ref : Nat, from : Sources \cup {None}]

Links == [source : Sources, target : Targets, scope : BOOLEAN, new : Nat]

Phases == {"idle", "look", "read", "check", "probe", "probed", "save", "link", "done"}

Requests ==
    [pc : Phases, kind : {"create", "carry", "meeting"},
     todo : Seq(Sources),               \* sources not carried yet
     target : Targets, scope : BOOLEAN, \* of the carry-forward
     attempt : Nat, number : Nat,       \* the attempt and its candidate
     made : SUBSET Items,               \* rows inserted, uncommitted
     tied : SUBSET Links,               \* links inserted, uncommitted
     held : SUBSET Nat]                 \* numbers in the index until the end

NoRequest ==
    [pc |-> "idle", kind |-> "create", todo |-> <<>>, target |-> NoMeeting,
     scope |-> FALSE, attempt |-> 1, number |-> None, made |-> {}, tied |-> {}, held |-> {}]

-----------------------------------------------------------------------------
Init ==
    /\ items = {[ref |-> n, from |-> None] : n \in Existing}
    /\ links = {}
    /\ meetings = {1}
    /\ req = [u \in Users |-> NoRequest]

Step(u, r) == req' = [req EXCEPT ![u] = r]

NumbersOf(rows) == {i.ref : i \in rows}

\* Numbers of the table the request inserts into, as committed.
Committed(u) == IF req[u].kind = "meeting" THEN meetings ELSE NumbersOf(items)

\* What its SELECT sees: the committed rows and its own.
Visible(u) == Committed(u) \cup NumbersOf(req[u].made)

SameTable(u, v) == (req[u].kind = "meeting") = (req[v].kind = "meeting")

\* The link the request would insert for its next source.
Key(u) == <<Head(req[u].todo), req[u].target, req[u].scope>>

KeyOf(l) == <<l.source, l.target, l.scope>>

\* MeetingCreateView: pre_save of the meeting asks for its number.
StartMeeting(u) ==
    /\ req[u].pc = "idle"
    /\ Cardinality(meetings) < MaxMeetings
    /\ Step(u, [NoRequest EXCEPT !.pc = "read", !.kind = "meeting"])
    /\ UNCHANGED <<items, links, meetings>>

\* The creation forms: pre_save of the item asks for its number.
StartCreate(u) ==
    /\ req[u].pc = "idle"
    /\ \A i \in items : i.ref < MaxRef
    /\ Step(u, [NoRequest EXCEPT !.pc = "read", !.kind = "create"])
    /\ UNCHANGED <<items, links, meetings>>

\* The selection, without finished items unless the form asks for them.
Selected(form) == {s \in DOMAIN form.rank : form.finished \/ s \notin Closed}

\* Mutant of Batches: the selection is carried in any order.
BatchesUnsorted(form) == SetToSeqs(Selected(form))

\* The order in which it is carried: by priority, then creation.
Batches(form) ==
    {todo \in SetToSeqs(Selected(form)) :
        \A i, j \in DOMAIN todo : i < j => form.rank[todo[i]] <= form.rank[todo[j]]}

\* ActionItemCarryForwardView.  The flags are the scope of the links.
StartCarry(u) ==
    /\ req[u].pc = "idle"
    /\ \A i \in items : i.ref < MaxRef
    /\ \E form \in Forms : \E todo \in Batches(form) :
          Step(u, [NoRequest EXCEPT
                     !.pc = IF todo = <<>> THEN "done" ELSE "look",
                     !.kind = "carry", !.todo = todo,
                     !.target = form.target, !.scope = form.finished])
    /\ UNCHANGED <<items, links, meetings>>

\* On to the next source of the batch.
Onward(r) ==
    [r EXCEPT !.todo = Tail(@), !.attempt = 1, !.number = None,
              !.pc = IF Tail(r.todo) = <<>> THEN "done" ELSE "look"]

\* A source with a link is not carried again.
Look(u) ==
    /\ req[u].pc = "look"
    /\ IF \E l \in links \cup req[u].tied : KeyOf(l) = Key(u)
       THEN Step(u, Onward(req[u]))
       ELSE Step(u, [req[u] EXCEPT !.pc = "read"])
    /\ UNCHANGED <<items, links, meetings>>

\* A copy that does not validate (its owner or department is gone) is skipped.
Skip(u) ==
    /\ req[u].pc = "look"
    /\ Step(u, Onward(req[u]))
    /\ UNCHANGED <<items, links, meetings>>

\* Mutant of NextNumber: the smallest number not in use.
FirstGap(u) == Min({n \in 1..Cardinality(Visible(u)) + 1 : n \notin Visible(u)})

NextNumber(u) == Max(Visible(u) \cup {0}) + 1

Read(u) ==
    /\ req[u].pc = "read"
    /\ Step(u, [req[u] EXCEPT !.pc = "check", !.number = NextNumber(u)])
    /\ UNCHANGED <<items, links, meetings>>

\* The request is answered without a commit: what it wrote is gone.
Drop(u) == Step(u, NoRequest) /\ UNCHANGED <<items, links, meetings>>

\* Mutant of Again: attempts are not counted.
AgainForever(u) ==
    Step(u, [req[u] EXCEPT !.pc = "read"]) /\ UNCHANGED <<items, links, meetings>>

\* The next attempt, or the ValidationError after the last.
Again(u) ==
    IF req[u].attempt < Attempts
    THEN /\ Step(u, [req[u] EXCEPT !.pc = "read", !.attempt = @ + 1])
         /\ UNCHANGED <<items, links, meetings>>
    ELSE Drop(u)

\* A number committed since it was read: exists() starts the next attempt for
\* a meeting; full_clean's ValidationError is passed over for an item, which
\* keeps the candidate.
Check(u) ==
    /\ req[u].pc = "check"
    /\ IF req[u].kind = "meeting" /\ req[u].number \in Committed(u)
       THEN Again(u)
       ELSE /\ Step(u, [req[u] EXCEPT !.pc =
                          IF req[u].kind = "meeting" \/ req[u].number \in Committed(u)
                          THEN "save" ELSE "probe"])
            /\ UNCHANGED <<items, links, meetings>>

\* The open transactions an INSERT of this request's number waits for.
WaitsByNumber(u, v) ==
    /\ v # u /\ SameTable(u, v)
    /\ req[u].pc \in {"probe", "probed", "save"}
    /\ req[u].number \in req[v].held

\* The same for its link; NULL is not equal to NULL.
WaitsByLink(u, v) ==
    /\ v # u
    /\ req[u].pc = "link" /\ req[u].target # NoMeeting
    /\ \E l \in req[v].tied : KeyOf(l) = Key(u)

WaitsFor(u, v) == WaitsByNumber(u, v) \/ WaitsByLink(u, v)

Free(u) == \A v \in Users : ~WaitsFor(u, v)

\* Mutant of Probe: the savepoint is rolled back, which frees the number.
ProbeRolledBack(u) ==
    /\ req[u].pc = "probe" /\ Free(u)
    /\ IF req[u].number \in Committed(u) THEN Again(u)
       ELSE /\ Step(u, [req[u] EXCEPT !.pc = "probed"])
            /\ UNCHANGED <<items, links, meetings>>

\* The probe row: inserted and deleted again, or an IntegrityError.
Probe(u) ==
    /\ req[u].pc = "probe" /\ Free(u)
    /\ IF req[u].number \in Committed(u) THEN Again(u)
       ELSE /\ Step(u, [req[u] EXCEPT !.pc = "probed", !.held = @ \cup {req[u].number}])
            /\ UNCHANGED <<items, links, meetings>>

\* Mutant of Save: the column is not unique.
SaveAnyway(u) ==
    /\ req[u].pc \in {"probed", "save"} /\ Free(u)
    /\ Step(u, [req[u] EXCEPT
          !.pc = IF req[u].kind = "carry" THEN "link" ELSE "done",
          !.made = @ \cup {[ref |-> req[u].number,
                            from |-> IF req[u].kind = "carry"
                                     THEN Head(req[u].todo) ELSE None]}])
    /\ UNCHANGED <<items, links, meetings>>

\* The row itself; an IntegrityError here ends the request.
Save(u) ==
    /\ req[u].pc \in {"probed", "save"} /\ Free(u)
    /\ IF req[u].number \in Committed(u) THEN Drop(u)
       ELSE /\ Step(u, [req[u] EXCEPT
                 !.pc = IF req[u].kind = "carry" THEN "link" ELSE "done",
                 !.held = @ \cup {req[u].number},
                 !.made = @ \cup {[ref |-> req[u].number,
                                   from |-> IF req[u].kind = "carry"
                                            THEN Head(req[u].todo) ELSE None]}])
            /\ UNCHANGED <<items, links, meetings>>

\* Mutant of Taken: the lookup before the batch is trusted.
NeverTaken(u) == FALSE

\* unique (source_item, target_meeting, target_scope_key), against committed rows.
Taken(u) == req[u].target # NoMeeting /\ \E l \in links : KeyOf(l) = Key(u)

\* Mutant of Link: a conflict skips the item instead of ending the batch.
LinkOrSkip(u) ==
    /\ req[u].pc = "link" /\ Free(u)
    /\ Step(u, Onward(IF Taken(u) THEN req[u] ELSE [req[u] EXCEPT !.tied = @ \cup
            {[source |-> Head(req[u].todo), target |-> req[u].target,
              scope |-> req[u].scope, new |-> req[u].number]}]))
    /\ UNCHANGED <<items, links, meetings>>

\* The link; an IntegrityError rolls the whole batch back.
Link(u) ==
    /\ req[u].pc = "link" /\ Free(u)
    /\ IF Taken(u) THEN Drop(u)
       ELSE /\ Step(u, Onward([req[u] EXCEPT !.tied = @ \cup
                    {[source |-> Head(req[u].todo), target |-> req[u].target,
                      scope |-> req[u].scope, new |-> req[u].number]}]))
            /\ UNCHANGED <<items, links, meetings>>

Commit(u) ==
    /\ req[u].pc = "done"
    /\ IF req[u].kind = "meeting"
       THEN /\ meetings' = meetings \cup NumbersOf(req[u].made)
            /\ UNCHANGED <<items, links>>
       ELSE /\ items' = items \cup req[u].made
            /\ links' = links \cup req[u].tied
            /\ UNCHANGED meetings
    /\ Step(u, NoRequest)

\* Any other error, a lost connection, a dead worker.
Rollback(u) == req[u].pc # "idle" /\ Drop(u)

\* PostgreSQL ends one of the transactions that wait for each other.
\* Only IntegrityErrors are caught: the request fails.
Deadlocked(u) == \E v \in Users : WaitsFor(u, v) /\ WaitsFor(v, u)

Victim(u) == Deadlocked(u) /\ Drop(u)

\* ActionItemDeleteView.  Links to the item go with it.
Delete(n) ==
    /\ n \in NumbersOf(items)
    /\ items' = {i \in items : i.ref # n}
    /\ links' = {l \in links : l.new # n}
    /\ UNCHANGED <<meetings, req>>

Work(u) ==
    \/ Look(u) \/ Read(u) \/ Check(u) \/ Probe(u)
    \/ Save(u) \/ Link(u) \/ Commit(u) \/ Victim(u)

Next ==
    \/ \E u \in Users : StartMeeting(u) \/ StartCreate(u) \/ StartCarry(u)
    \/ \E u \in Users : Work(u) \/ Skip(u) \/ Rollback(u)
    \/ \E n \in Deletable : Delete(n)

Spec == Init /\ [][Next]_vars

\* A worker runs its request to the end, and PostgreSQL queues the waiters of
\* an index entry and breaks circles after deadlock_timeout.
FairSpec == Spec /\ \A u \in Users : SF_vars(Work(u))

-----------------------------------------------------------------------------
\* Types, and no two action items ever share a reference.
TypeOK ==
    /\ \A i, j \in items : i.ref = j.ref => i = j
    /\ items \in SUBSET Items /\ links \in SUBSET Links /\ meetings \in SUBSET Nat
    /\ req \in [Users -> Requests]

\* generate_action_reference gives the number it has probed away before the
\* row is written.  Nobody can take it in between: an item whose number was
\* probed is never refused on it.
ProbeReserves ==
    \A u \in Users :
        req[u].pc = "probed" => req[u].number \notin Committed(u) /\ Free(u)

\* Creations that only compete for numbers wait in one direction, whatever is
\* deleted meanwhile: two requests can block each other only if one of them
\* waits for a link (a batch must hold a number below another one's).
CirclesNeedLinks ==
    \A u, v \in Users :
        WaitsFor(u, v) /\ WaitsFor(v, u) => req[u].pc = "link" \/ req[v].pc = "link"

\* carry_forward_action_items leaves a copy and its link or neither, through
\* conflicts, rollbacks and deletions: a committed copy has exactly one link,
\* from the item it says it was carried forward from, and every link its copy.
CopiesLinked ==
    /\ \A i \in items : i.from # None =>
          \E l \in links : /\ l.new = i.ref /\ l.source = i.from
                           /\ \A k \in links : k.new = i.ref => k = l
    /\ \A l \in links : [ref |-> l.new, from |-> l.source] \in items

\* An item is carried into one meeting once per choice of flags, however many
\* requests carry it at the same time: no two action items are copies of the
\* same source for the same meeting and flags.
OneCopyPerMeeting ==
    \A k, l \in links : KeyOf(k) = KeyOf(l) /\ k.target # NoMeeting => k.new = l.new

\* The links tell which items are copies, of what, and that no meeting has two
\* of the same.
CopiesMatchLinks == CopiesLinked /\ OneCopyPerMeeting

\* The tables as CarryLedger has them.
Ledger == INSTANCE CarryLedger

\* Requests of many steps, which share no lock, retry, wait for each other and
\* fail, change the tables as if each were one step, see CarryLedger.
ImplementsLedger == Ledger!Spec

\* Every request ends, by answer or refusal, although it may wait for others,
\* lose its number up to three times and even wait in a circle.
RequestsEnd == \A u \in Users : req[u].pc # "idle" ~> req[u].pc = "idle"
=============================================================================
