------------------------------- MODULE Accounts -------------------------------
(***************************************************************************)
(* User accounts, their roles and department assignments, edited by        *)
(* concurrent requests, and what the audit log tells about them.           *)
(*                                                                         *)
(* A request loads the rows it edits and judges them (Load...), writes     *)
(* them in one transaction (Save...), and writes its audit events after    *)
(* the commit, one by one (WriteEvent).  Saving an account writes every    *)
(* column of the row, those the form does not have from the copy loaded;   *)
(* roles are rows of their own and are not written with it.  Its first     *)
(* statement locks the account's row, so that a save of an account is one  *)
(* step.  No lock serialises the saves of a user's assignments: they go    *)
(* statement by statement (DeleteRow, SaveRow), then read what they will   *)
(* tell (ReadRows), then commit (CommitAssignments).                       *)
(***************************************************************************)
EXTENDS Integers, Sequences, FiniteSets, SequencesExt

CONSTANTS
    Users,          \* accounts there are or may be created
    Founders,       \* those there are at first, all active
    Actors,         \* the users who send requests, one at a time each
    Departments,
    Roles,
    UserManagers,   \* roles that may edit users
    Assigners,      \* roles that may edit department assignments
    OrgManagers,    \* roles that may edit departments
    FirstRoles,     \* the roles of the founders
    Secrets,        \* passwords
    FirstSecret,    \* everyone's at first
    NoSecret,       \* where there is no account
    MaxRequests,    \* bound on the requests begun
    MaxFaults       \* bound on the events lost and the crashes

ASSUME UsersAssumption == Founders \cup Actors \subseteq Users /\ FirstRoles \in [Founders -> SUBSET Roles]
ASSUME DepartmentsAssumption == IsFiniteSet(Departments)
ASSUME RolesAssumption == UserManagers \subseteq Assigners /\ Assigners \cup OrgManagers \subseteq Roles
ASSUME SecretsAssumption == FirstSecret \in Secrets /\ NoSecret \notin Secrets
ASSUME BoundsAssumption == MaxRequests \in Nat /\ MaxFaults \in Nat

VARIABLES
    accounts,    \* committed accounts
    rows,        \* per user and department: the committed assignment
    open,        \* active departments
    req,         \* per user: the request in progress
    told,        \* what the audit log, read in order, says of each user: its
                 \* events of the signal handlers and its events of the views
    blurred,     \* history variable: topics of which an event was lost, or told
                 \* by two requests at a time, and none has told all since
    begun,       \* requests begun; rows are numbered by the request that adds them
    faults       \* events lost and crashes

vars == <<accounts, rows, open, req, told, blurred, begun, faults>>

Accounts == [active : BOOLEAN, roles : SUBSET Roles, secret : Secrets]

NoAccount == [active |-> FALSE, roles |-> {}, secret |-> NoSecret]

\* id 0: no row.  Rows are told apart: a row deleted and made again is another.
Assignments == [id : 0..MaxRequests, on : BOOLEAN]

NoRow == [id |-> 0, on |-> FALSE]

Present(row) == row.id # 0

\* What an event of a view says of an assignment.
Shown(row) == IF Present(row) THEN (IF row.on THEN "on" ELSE "off") ELSE "absent"

\* What may be told of a user: the events of the signal handlers name the row
\* of an assignment, those of the views only say what it is.  Active: the last
\* event to say of the account what it is says that it is active.
Signals == [active : BOOLEAN, roles : SUBSET Roles, rows : [Departments -> Assignments]]

Views == [active : BOOLEAN, roles : SUBSET Roles, rows : [Departments -> {"on", "off", "absent"}]]

SignalsOf(t) == [active |-> accounts[t].active, roles |-> accounts[t].roles, rows |-> rows[t]]

ViewOf(t) ==
    [active |-> accounts[t].active, roles |-> accounts[t].roles, rows |-> [d \in Departments |-> Shown(rows[t][d])]]

\* Of a post of assignments: the rows seen, the rows posted, and by department
\* which of them are left to write, which are written and not committed, which
\* the log says are deleted; topics this request tells too late.
NoRequest ==
    [pc |-> "idle", op |-> "none", target |-> "none", copy |-> NoAccount, open |-> {}, queue |-> <<>>,
     seen |-> <<>>, post |-> <<>>, left |-> {}, wrote |-> {}, early |-> {}, stale |-> {}]

\* What an event may be about.
Topics == (Users \X {"active", "roles", "account", "assign"} \X {"all"}) \cup (Users \X {"row"} \X Departments)

-----------------------------------------------------------------------------
Init ==
    /\ accounts = [t \in Users |->
                     IF t \in Founders
                     THEN [active |-> TRUE, roles |-> FirstRoles[t], secret |-> FirstSecret]
                     ELSE NoAccount]
    /\ rows = [t \in Users |-> [d \in Departments |-> NoRow]]
    /\ open = Departments
    /\ req = [u \in Actors |-> NoRequest]
    /\ told = [t \in Users |-> [signals |-> SignalsOf(t), views |-> ViewOf(t)]]
    /\ blurred = {} /\ begun = 0 /\ faults = 0

Step(u, r) == req' = [req EXCEPT ![u] = r]

\* RoleRequiredMixin: the session's user is active and has one of the roles.
HasRole(u, required) == accounts[u].active /\ accounts[u].roles \cap required # {}

\* Mutant of MayManageUsers: any account that is logged in.
MayManageUsersIfActive(u) == accounts[u].active

MayManageUsers(u) == HasRole(u, UserManagers)

Begin(u) == req[u].pc = "idle" /\ begun < MaxRequests /\ begun' = begun + 1

Exists(t) == accounts[t] # NoAccount

Judged(u, op, t) ==
    Step(u, [NoRequest EXCEPT !.pc = "judged", !.op = op, !.target = t, !.copy = accounts[t]])

LoadNew(u) ==
    /\ Begin(u) /\ MayManageUsers(u)
    /\ \E t \in Users : ~Exists(t) /\ Judged(u, "new", t)
    /\ UNCHANGED <<accounts, rows, open, told, blurred, faults>>

LoadUser(u) ==
    /\ Begin(u) /\ MayManageUsers(u)
    /\ \E t \in Users : Exists(t) /\ Judged(u, "user", t)
    /\ UNCHANGED <<accounts, rows, open, told, blurred, faults>>

\* The user's own account: the profile form and the password form.
LoadOwn(u) ==
    /\ Begin(u) /\ accounts[u].active
    /\ \E op \in {"profile", "password"} : Judged(u, op, u)
    /\ UNCHANGED <<accounts, rows, open, told, blurred, faults>>

LoadDepartment(u) ==
    /\ Begin(u) /\ HasRole(u, OrgManagers)
    /\ Step(u, [NoRequest EXCEPT !.pc = "judged", !.op = "department"])
    /\ UNCHANGED <<accounts, rows, open, told, blurred, faults>>

-----------------------------------------------------------------------------
\* Audit events; each says what its columns are after the save.
ActiveEvent(t, active) == [kind |-> "active", user |-> t, active |-> active]

RolesEvent(t, add, remove) == [kind |-> "roles", user |-> t, add |-> add, remove |-> remove]

AccountEvent(t, account) ==
    [kind |-> "account", user |-> t, active |-> account.active, roles |-> account.roles]

\* The view's event of a creation does not say whether the account is active.
CreatedEvent(t, account) == AccountEvent(t, [account EXCEPT !.active = FALSE])

RowEvent(t, d, row) == [kind |-> "row", user |-> t, department |-> d, row |-> row]

AssignEvent(t, after) ==
    [kind |-> "assign", user |-> t, rows |-> [d \in Departments |-> Shown(after[d])]]

\* Mutant of RoleEvents: only post_add is listened for.
RoleEventsIfAdded(t, before, after) == IF after \ before = {} THEN <<>> ELSE <<RolesEvent(t, after \ before, {})>>

\* groups.set(): what is not chosen is removed, then what is new is added.
RoleEvents(t, before, after) ==
    (IF before \ after = {} THEN <<>> ELSE <<RolesEvent(t, {}, before \ after)>>)
      \o (IF after \ before = {} THEN <<>> ELSE <<RolesEvent(t, after \ before, {})>>)

\* What the log says of the user of an event once the event is written.
Told(e) ==
    LET old == told[e.user]
    IN  CASE e.kind = "active"  -> [old EXCEPT !.signals.active = e.active]
          [] e.kind = "roles"   -> [old EXCEPT !.signals.roles = (@ \ e.remove) \cup e.add]
          [] e.kind = "row"     -> [old EXCEPT !.signals.rows[e.department] = e.row]
          [] e.kind = "account" -> [old EXCEPT !.views.active = e.active, !.views.roles = e.roles]
          [] e.kind = "assign"  -> [old EXCEPT !.views.rows = e.rows]

Topic(e) == <<e.user, e.kind, IF e.kind = "row" THEN e.department ELSE "all">>

TopicsOf(events) == {Topic(e) : e \in events}

\* Events of requests that have committed, still to be written.
Pending == UNION {ToSet(req[v].queue) : v \in {w \in Actors : req[w].pc = "committed"}}

Due == TopicsOf(Pending)

\* All events but those of roles, which say what is added and removed, tell all
\* there is to tell of their topic; a topic is blurred by telling it while
\* another request has still to, or too late.
Blurred(events, late) ==
    (blurred \ TopicsOf({e \in events : e.kind # "roles"})) \cup (TopicsOf(events) \cap Due) \cup late

\* The COMMIT: the events queued by on_commit are still to be written.
Committed(events) == [NoRequest EXCEPT !.pc = "committed", !.queue = events]

Commit(u, events) ==
    /\ Step(u, Committed(events))
    /\ blurred' = Blurred(ToSet(events), {})
    /\ UNCHANGED <<begun, faults>>

Saving(u, op) == req[u].pc = "judged" /\ req[u].op = op

\* The unique username refuses the second creation of an account.
SaveNew(u) ==
    /\ Saving(u, "new")
    /\ LET t == req[u].target
       IN  /\ ~Exists(t)
           /\ \E a \in [active : BOOLEAN, roles : SUBSET Roles, secret : {FirstSecret}] :
                 /\ accounts' = [accounts EXCEPT ![t] = a]
                 /\ Commit(u, <<ActiveEvent(t, a.active)>> \o RoleEvents(t, {}, a.roles)
                                 \o <<CreatedEvent(t, a)>>)
    /\ UNCHANGED <<rows, open, told>>

\* Mutant of UserFormSaves: a password field left blank is written too.
UserFormSavesBlank(copy, active, roles) ==
    [copy EXCEPT !.active = active, !.roles = roles, !.secret = NoSecret]

\* Mutant of UserFormSaves: the password of the form is written too.
UserFormSavesPassword(copy, active, roles) ==
    [copy EXCEPT !.active = active, !.roles = roles, !.secret = FirstSecret]

UserFormSaves(copy, active, roles) == [copy EXCEPT !.active = active, !.roles = roles]

SaveUser(u) ==
    /\ Saving(u, "user")
    /\ LET t == req[u].target
       IN  \E active \in BOOLEAN, roles \in SUBSET Roles :
              LET a == UserFormSaves(req[u].copy, active, roles)
              IN  /\ accounts' = [accounts EXCEPT ![t] = a]
                  /\ Commit(u, <<ActiveEvent(t, active)>> \o RoleEvents(t, accounts[t].roles, roles)
                                  \o <<AccountEvent(t, a)>>)
    /\ UNCHANGED <<rows, open, told>>

\* None of the modelled columns is in the profile form.
SaveProfile(u) ==
    /\ Saving(u, "profile")
    /\ accounts' = [accounts EXCEPT ![u] = [req[u].copy EXCEPT !.roles = accounts[u].roles]]
    /\ Commit(u, <<ActiveEvent(u, req[u].copy.active)>>)
    /\ UNCHANGED <<rows, open, told>>

ChangePassword(u) ==
    /\ Saving(u, "password")
    /\ \E secret \in Secrets :
          accounts' = [accounts EXCEPT ![u] = [req[u].copy EXCEPT !.roles = accounts[u].roles, !.secret = secret]]
    /\ Commit(u, <<ActiveEvent(u, req[u].copy.active)>>)
    /\ UNCHANGED <<rows, open, told>>

-----------------------------------------------------------------------------
\* Mutant of RowValid: only new rows are looked at.
RowValidIfNew(r, d, row) ==
    Present(row) /\ ~Present(r.seen[d]) => d \in r.open /\ (row.on => r.copy.active)

\* DepartmentMembershipForm: the department is one to choose from, and an
\* assignment of an inactive user is not active.  Rows shown are judged even
\* if they are not changed; rows ticked for deletion are not.
RowValid(r, d, row) == Present(row) => d \in r.open /\ (row.on => r.copy.active)

\* No row, or the row shown or a new one.
Postable(r, d) ==
    {NoRow} \cup [id : {IF Present(r.seen[d]) THEN r.seen[d].id ELSE begun + 1}, on : BOOLEAN]

\* What may be posted: rows edited and deleted (their departments are left as
\* they are), and one row added.
Posts(r) ==
    {post \in [Departments -> Assignments] :
        /\ \A d \in Departments : post[d] \in Postable(r, d) /\ RowValid(r, d, post[d])
        /\ Cardinality({d \in Departments : Present(post[d]) /\ ~Present(r.seen[d])}) <= 1}

Changed(r, post) == {d \in Departments : post[d] # r.seen[d]}

\* The formset reads the user, the rows and the departments to choose from, and
\* judges what was posted.
LoadAssignments(u) ==
    /\ Begin(u) /\ HasRole(u, Assigners)
    /\ \E t \in Users :
          /\ Exists(t)
          /\ LET r == [NoRequest EXCEPT !.pc = "judged", !.op = "assign", !.target = t,
                          !.copy = accounts[t], !.seen = rows[t], !.open = open]
             IN  \E post \in Posts(r) : Step(u, [r EXCEPT !.post = post, !.left = Changed(r, post)])
    /\ UNCHANGED <<accounts, rows, open, told, blurred, faults>>

\* The lock on a row, or on its place in the unique index, is another's.
Locked(u, t, d) == \E v \in Actors \ {u} : req[v].target = t /\ d \in req[v].wrote

\* Saving a row that another request has deleted inserts it again; one that is
\* in the way of another row of the user and department fails the request.
Conflict(t, d, row) == Present(rows[t][d]) /\ rows[t][d].id # row.id

\* Deletions are told at once, within the transaction, each of the row that was
\* read.  Deleting a row that is gone deletes and locks nothing.
DeleteRow(u) ==
    /\ req[u].pc = "judged"
    /\ LET r == req[u]  t == req[u].target
       IN  \E d \in r.left :
              LET gone == rows[t][d].id # r.seen[d].id
              IN  /\ ~Present(r.post[d])
                  /\ gone \/ ~Locked(u, t, d)
                  /\ Step(u, [r EXCEPT !.left = @ \ {d}, !.early = @ \cup {d},
                                       !.wrote = IF gone THEN @ ELSE @ \cup {d},
                                       !.stale = IF gone THEN @ ELSE @ \cup (Due \cap {<<t, "row", d>>})])
    /\ UNCHANGED <<accounts, rows, open, told, blurred, begun, faults>>

\* New rows are saved after those shown.
SaveRow(u) ==
    /\ req[u].pc = "judged"
    /\ LET r == req[u]  t == req[u].target
       IN  \E d \in r.left :
              /\ Present(r.post[d]) /\ (Present(r.seen[d]) \/ r.left = {d})
              /\ ~Locked(u, t, d) /\ ~Conflict(t, d, r.post[d])
              /\ Step(u, [r EXCEPT !.left = @ \ {d}, !.wrote = @ \cup {d},
                                   !.queue = Append(@, RowEvent(t, d, r.post[d]))])
    /\ UNCHANGED <<accounts, rows, open, told, blurred, begun, faults>>

\* The user's assignments as the transaction sees them.
After(r) == [d \in Departments |-> IF d \in r.wrote THEN r.post[d] ELSE rows[r.target][d]]

\* new_values is read from the rows; what others commit now is not in it.
ReadRows(u) ==
    /\ req[u].pc = "judged" /\ req[u].op = "assign" /\ req[u].left = {}
    /\ Step(u, [req[u] EXCEPT !.pc = "saved",
                   !.queue = Append(@, AssignEvent(req[u].target, After(req[u])))])
    /\ UNCHANGED <<accounts, rows, open, told, blurred, begun, faults>>

\* What r has read to tell of the assignments of t is no more so.
Overtaken(r, t) == IF r.pc = "saved" /\ r.target = t THEN [r EXCEPT !.stale = @ \cup {<<t, "assign", "all">>}] ELSE r

CommitAssignments(u) ==
    /\ req[u].pc = "saved"
    /\ LET r == req[u]  t == req[u].target
       IN  /\ rows' = [rows EXCEPT ![t] = After(r)]
           /\ told' = [told EXCEPT ![t].signals.rows =
                         [d \in Departments |-> IF d \in r.early /\ @[d].id = r.seen[d].id THEN NoRow ELSE @[d]]]
           /\ req' = [v \in Actors |->
                         IF v = u THEN Committed(r.queue)
                         ELSE IF r.wrote = {} THEN req[v] ELSE Overtaken(req[v], t)]
           /\ blurred' = Blurred(ToSet(r.queue), r.stale)
    /\ UNCHANGED <<accounts, open, begun, faults>>

SaveDepartment(u) ==
    /\ Saving(u, "department")
    /\ \E d \in Departments : open' \in {open \cup {d}, open \ {d}}
    /\ Commit(u, <<>>)
    /\ UNCHANGED <<accounts, rows, told>>

-----------------------------------------------------------------------------
\* The log says that row d is deleted: an event written later says it is not.
Superseded(r, e) ==
    {d \in r.early : e.kind = "row" /\ e.user = r.target /\ e.department = d /\ e.row.id = r.seen[d].id}

Waiting(u) == req[u].pc = "committed" /\ req[u].queue # <<>>

Fault == faults < MaxFaults /\ faults' = faults + 1

\* _write_audit_log, in the order in which the events were queued.
WriteEvent(u) ==
    /\ Waiting(u)
    /\ LET e == Head(req[u].queue)
       IN  /\ told' = [told EXCEPT ![e.user] = Told(e)]
           /\ req' = [v \in Actors |->
                         IF v = u THEN [req[u] EXCEPT !.queue = Tail(@)]
                         ELSE [req[v] EXCEPT !.early = @ \ Superseded(req[v], e)]]
    /\ UNCHANGED <<accounts, rows, open, blurred, begun, faults>>

\* Its INSERT fails: the error is logged and forgotten.
LoseEvent(u) ==
    /\ Waiting(u) /\ Fault
    /\ Step(u, [req[u] EXCEPT !.queue = Tail(@)])
    /\ blurred' = blurred \cup {Topic(Head(req[u].queue))}
    /\ UNCHANGED <<accounts, rows, open, told, begun>>

Answer(u) ==
    /\ req[u].pc = "committed" /\ req[u].queue = <<>>
    /\ Step(u, NoRequest)
    /\ UNCHANGED <<accounts, rows, open, told, blurred, begun, faults>>

\* An invalid form, or an error that rolls the transaction back.
Abandon(u) ==
    /\ req[u].pc \in {"judged", "saved"}
    /\ Step(u, NoRequest)
    /\ UNCHANGED <<accounts, rows, open, told, blurred, begun, faults>>

\* The worker dies between the commit and the last event.
Crash(u) ==
    /\ Waiting(u) /\ Fault
    /\ Step(u, NoRequest)
    /\ blurred' = blurred \cup TopicsOf(ToSet(req[u].queue))
    /\ UNCHANGED <<accounts, rows, open, told, begun>>

Next ==
    \E u \in Actors :
        \/ LoadNew(u) \/ LoadUser(u) \/ LoadOwn(u) \/ LoadAssignments(u) \/ LoadDepartment(u)
        \/ SaveNew(u) \/ SaveUser(u) \/ SaveProfile(u) \/ ChangePassword(u)
        \/ DeleteRow(u) \/ SaveRow(u) \/ ReadRows(u) \/ CommitAssignments(u) \/ SaveDepartment(u)
        \/ WriteEvent(u) \/ LoseEvent(u) \/ Answer(u) \/ Abandon(u) \/ Crash(u)

Spec == Init /\ [][Next]_vars
-----------------------------------------------------------------------------
\* Types; no two assignments are one row.
TypeOK ==
    /\ accounts \in [Users -> Accounts \cup {NoAccount}]
    /\ rows \in [Users -> [Departments -> Assignments]]
    /\ open \subseteq Departments /\ begun \in 0..MaxRequests /\ faults \in 0..MaxFaults /\ blurred \subseteq Topics
    /\ told \in [Users -> [signals : Signals, views : Views]]
    /\ \A t, v \in Users, d, e \in Departments :
          Present(rows[t][d]) /\ rows[t][d].id = rows[v][e].id => t = v /\ d = e

\* The log, read in order, tells what the rows are: the events of the signal
\* handlers alone (is_active, roles added and removed, assignments one by one),
\* and those of the views alone, which say nothing of an account that a save of
\* its owner, judged before, has made active again.  An exception is only what
\* has an event still to be written, and what was told by two requests at a
\* time, or lost, until it is told anew: lost events spoil no other topic, and
\* of rows and accounts the next save undisturbed heals the log.
LogTellsRows ==
    LET unclear == blurred \cup Due
    IN  \A t \in Users :
          /\ <<t, "active", "all">> \notin unclear => told[t].signals.active = accounts[t].active
          /\ <<t, "roles", "all">> \notin unclear => told[t].signals.roles = accounts[t].roles
          /\ \A d \in Departments :
                <<t, "row", d>> \notin unclear => told[t].signals.rows[d] = rows[t][d]
          /\ <<t, "account", "all">> \notin unclear =>
                told[t].views.roles = accounts[t].roles /\ (told[t].views.active => accounts[t].active)
          /\ <<t, "assign", "all">> \notin unclear => told[t].views.rows = ViewOf(t).rows

\* The request of u saves in this step.
Saves(u, op, t) ==
    req[u].pc # "committed" /\ req'[u].pc = "committed" /\ req[u].op = op /\ req[u].target = t

\* Every save of an account writes all its columns.  Still roles and is_active
\* change only by the user form, a password only by its owner; all else that a
\* save changes is put back to what the request had read: an account
\* deactivated comes back, and an old password too, only by requests that were
\* in progress before.
OverwritesExplained ==
    [][\A t \in Users :
          Exists(t) =>
            /\ accounts'[t].roles # accounts[t].roles => \E u \in Actors : Saves(u, "user", t)
            /\ accounts'[t].active # accounts[t].active =>
                  \/ \E u \in Actors : Saves(u, "user", t)
                  \/ t \in Actors /\ req[t].copy.active /\ (Saves(t, "profile", t) \/ Saves(t, "password", t))
            /\ accounts'[t].secret # accounts[t].secret =>
                  \/ t \in Actors /\ Saves(t, "password", t)
                  \/ \E u \in Actors : req[u].copy.secret = accounts'[t].secret
                                         /\ (Saves(u, "user", t) \/ Saves(u, "profile", t))]_vars

\* After the assignments of a user are saved, each of them is one the form
\* allows, by the account and the departments the request had read: none is
\* active for an inactive user, none is in a closed department.  An exception
\* is only a row that this request does not write and another has changed since,
\* or put back after its deletion.
AssignmentsJudged ==
    [][\A u \in Actors, t \in Users :
          Saves(u, "assign", t) =>
            \A d \in Departments :
                LET row == rows'[t][d]
                IN  Present(row) => \/ d \in req[u].open /\ (row.on => req[u].copy.active)
                                    \/ /\ d \notin req[u].wrote /\ row = rows[t][d]
                                       /\ row = req[u].seen[d] => ~Present(req[u].post[d])]_vars

\* No active user may manage users, and no request in progress can change
\* that: none of the user form, none that would put a former manager back.
LockedOut ==
    \A u \in Actors :
        /\ ~HasRole(u, UserManagers)
        /\ req[u].pc = "judged" =>
              /\ req[u].op \notin {"user", "new"}
              /\ req[u].op \in {"profile", "password"} => accounts[u].roles \cap UserManagers = {}

\* Nothing keeps the last manager from being deactivated or losing the role;
\* from then on the application is locked out for good, whatever it is used for.
LockoutIsFinal == [][LockedOut => LockedOut']_vars
=============================================================================
