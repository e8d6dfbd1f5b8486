--------------------------- MODULE Accounts_proofs ---------------------------
(***************************************************************************)
(* Proofs about Accounts for any users, departments, roles, passwords and  *)
(* number of requests.                                                     *)
(***************************************************************************)
EXTENDS Accounts, TableFacts

Events ==
    [kind : {"active"}, user : Users, active : BOOLEAN]
    \cup [kind : {"roles"}, user : Users, add : SUBSET Roles, remove : SUBSET Roles]
    \cup [kind : {"account"}, user : Users, active : BOOLEAN, roles : SUBSET Roles]
    \cup [kind : {"row"}, user : Users, department : Departments, row : Assignments]
    \cup [kind : {"assign"}, user : Users, rows : [Departments -> {"on", "off", "absent"}]]

Requests ==
    [pc : {"idle", "judged", "saved", "committed"},
     op : {"none", "new", "user", "profile", "password", "assign", "department"},
     target : Users \cup {"none"}, copy : Accounts \cup {NoAccount},
     open : SUBSET Departments, queue : Seq(Events),
     seen : [Departments -> Assignments] \cup {<<>>}, post : [Departments -> Assignments] \cup {<<>>},
     left : SUBSET Departments, wrote : SUBSET Departments, early : SUBSET Departments,
     stale : SUBSET Topics]

Typed ==
    /\ accounts \in [Users -> Accounts \cup {NoAccount}]
    /\ rows \in [Users -> [Departments -> Assignments]]
    /\ open \subseteq Departments /\ begun \in 0..MaxRequests /\ faults \in 0..MaxFaults
    /\ blurred \subseteq Topics
    /\ told \in [Users -> [signals : Signals, views : Views]]
    /\ req \in [Actors -> Requests]

\* A post of assignments from its judgement to its commit.
Assigning(u) == req[u].op = "assign" /\ req[u].pc \in {"judged", "saved"}

\* What a request has judged: its target and the account it was.
JudgedWell(u) ==
    /\ req[u].pc = "judged" =>
          /\ req[u].op \in {"new", "user"} => req[u].target \in Users
          /\ req[u].op = "user" => req[u].copy \in Accounts
          /\ req[u].op \in {"profile", "password"} =>
                req[u].target = u /\ req[u].copy \in Accounts /\ req[u].copy.active
    /\ req[u].pc = "saved" => req[u].op = "assign"
    /\ ~Assigning(u) => req[u].left = {} /\ req[u].wrote = {} /\ req[u].early = {}

\* What a post of assignments holds: rows judged, and what is written of them.
PostWell(u) ==
    Assigning(u) =>
      /\ req[u].target \in Users
      /\ req[u].seen \in [Departments -> Assignments] /\ req[u].post \in [Departments -> Assignments]
      /\ \A d \in Departments :
            /\ req[u].seen[d].id = 0 => req[u].seen[d] = NoRow
            /\ req[u].post[d].id = 0 => req[u].post[d] = NoRow
            /\ RowValid(req[u], d, req[u].post[d])
            /\ req[u].post[d] # req[u].seen[d] =>
                  d \in req[u].left \cup req[u].wrote \/ ~Present(req[u].post[d])
      /\ \A d \in req[u].left : req[u].post[d] # req[u].seen[d]
      /\ \A d \in req[u].early : ~Present(req[u].post[d]) /\ Present(req[u].seen[d])
      /\ req[u].pc = "saved" => req[u].left = {}

\* What it is to tell: every row saved and, unless another has committed
\* since, what the assignments will be.
QueueWell(u) ==
    Assigning(u) =>
      /\ \A e \in ToSet(req[u].queue) :
            /\ e.user = req[u].target /\ e.kind \in {"row", "assign"}
            /\ e.kind = "row" => /\ e.department \in req[u].wrote
                                 /\ e.row = req[u].post[e.department] /\ Present(e.row)
            /\ e.kind = "assign" =>
                  /\ req[u].pc = "saved"
                  /\ \/ <<req[u].target, "assign", "all">> \in req[u].stale
                     \/ e.rows = [d \in Departments |-> Shown(After(req[u])[d])]
      /\ \A d \in req[u].wrote :
            Present(req[u].post[d]) => \E e \in ToSet(req[u].queue) : e.kind = "row" /\ e.department = d
      /\ req[u].pc = "saved" => \E e \in ToSet(req[u].queue) : e.kind = "assign"

\* What it has told already: the deletion of rows that are still there and will
\* be gone, or of rows that are gone, or have an event to come if they are back.
DeletionsWell(u) ==
    Assigning(u) =>
      /\ \A d \in req[u].wrote :
            ~Present(req[u].post[d]) =>
              /\ rows[req[u].target][d].id = req[u].seen[d].id
              /\ \/ <<req[u].target, "row", d>> \in req[u].stale
                 \/ <<req[u].target, "row", d>> \notin Due /\ d \in req[u].early
      /\ \A d \in req[u].early :
            \/ d \in req[u].wrote
            \/ rows[req[u].target][d].id # req[u].seen[d].id
            \/ <<req[u].target, "row", d>> \in blurred \cup Due

\* No row is being written by two.
WritesApart ==
    \A u, v \in Actors :
        u # v /\ req[u].target = req[v].target => req[u].wrote \cap req[v].wrote = {}

\* Row n is or was the assignment of user t to department d, or is to be, for
\* all that the table and the requests in progress know.
Seen(u, n, t, d) ==
    /\ Assigning(u) /\ req[u].target = t
    /\ req[u].seen[d].id = n \/ req[u].post[d].id = n

Known(n, t, d) == rows[t][d].id = n \/ \E u \in Actors : Seen(u, n, t, d)

\* A row is one user's in one department for good, and none is to come.
RowsApart ==
    \A n \in 1..MaxRequests, t, v \in Users, d, e \in Departments :
        Known(n, t, d) => n <= begun /\ (Known(n, v, e) => t = v /\ d = e)

AbsentRows == \A t \in Users, d \in Departments : rows[t][d].id = 0 => rows[t][d] = NoRow

-----------------------------------------------------------------------------
(* The log.                                                                 *)

\* An event tells what is so.
Agrees(e) ==
    /\ e.kind = "active" => e.active = accounts[e.user].active
    /\ e.kind = "roles" => /\ e.add \subseteq accounts[e.user].roles
                           /\ e.remove \cap accounts[e.user].roles = {}
    /\ e.kind = "row" => e.row = rows[e.user][e.department]
    /\ e.kind = "account" => /\ e.active => accounts[e.user].active
                             /\ e.roles = accounts[e.user].roles
    /\ e.kind = "assign" => e.rows = ViewOf(e.user).rows

\* What the log does not tell right yet has an event that waits, or is blurred.
Awaited(t) ==
    /\ <<t, "active", "all">> \notin blurred \cup Due => told[t].signals.active = accounts[t].active
    /\ <<t, "roles", "all">> \notin blurred =>
          \A g \in Roles :
             (g \in told[t].signals.roles <=> g \in accounts[t].roles)
                \/ \E e \in Pending : e.kind = "roles" /\ e.user = t /\ g \in e.add \cup e.remove
    /\ \A d \in Departments :
          <<t, "row", d>> \notin blurred \cup Due => told[t].signals.rows[d] = rows[t][d]
    /\ <<t, "account", "all">> \notin blurred \cup Due =>
          told[t].views.roles = accounts[t].roles /\ (told[t].views.active => accounts[t].active)
    /\ <<t, "assign", "all">> \notin blurred \cup Due => told[t].views.rows = ViewOf(t).rows

LogInv ==
    /\ \A e \in Pending : Topic(e) \notin blurred => Agrees(e)
    /\ \A t \in Users : Awaited(t)

AccountsInv ==
    /\ Typed /\ RowsApart /\ AbsentRows /\ LogInv /\ WritesApart
    /\ \A u \in Actors : JudgedWell(u) /\ PostWell(u) /\ QueueWell(u) /\ DeletionsWell(u)

-----------------------------------------------------------------------------
(* Sequences of events.                                                     *)

LEMMA OneEvent == ASSUME NEW S, NEW e \in S PROVE <<e>> \in Seq(S) /\ ToSet(<<e>>) = {e}
<1>1. <<e>> \in Seq(S) /\ DOMAIN <<e>> = 1..1 /\ <<e>>[1] = e
  OBVIOUS
<1> QED
  BY <1>1 DEF ToSet

LEMMA NoEvent == \A S : <<>> \in Seq(S) /\ ToSet(<<>>) = {}
  BY DEF ToSet

LEMMA EventsAfterEvents ==
    ASSUME NEW S, NEW p \in Seq(S), NEW q \in Seq(S)
    PROVE  p \o q \in Seq(S) /\ ToSet(p \o q) = ToSet(p) \cup ToSet(q)
<1>1. /\ p \o q \in Seq(S) /\ DOMAIN (p \o q) = 1..Len(p) + Len(q)
      /\ DOMAIN p = 1..Len(p) /\ DOMAIN q = 1..Len(q) /\ Len(p) \in Nat /\ Len(q) \in Nat
      /\ \A k \in 1..Len(p) + Len(q) : (p \o q)[k] = IF k <= Len(p) THEN p[k] ELSE q[k - Len(p)]
  OBVIOUS
<1>2. \A k \in DOMAIN p : k \in DOMAIN (p \o q) /\ (p \o q)[k] = p[k]
  BY <1>1
<1>3. \A k \in DOMAIN q : Len(p) + k \in DOMAIN (p \o q) /\ (p \o q)[Len(p) + k] = q[k]
  BY <1>1
<1>4. \A k \in DOMAIN (p \o q) : \/ k \in DOMAIN p /\ (p \o q)[k] = p[k]
                                 \/ k - Len(p) \in DOMAIN q /\ (p \o q)[k] = q[k - Len(p)]
  BY <1>1
<1>5. ToSet(p \o q) \subseteq ToSet(p) \cup ToSet(q)
  BY <1>4 DEF ToSet
<1>6. ToSet(p) \subseteq ToSet(p \o q)
  BY <1>2 DEF ToSet
<1>7. ToSet(q) \subseteq ToSet(p \o q)
  BY <1>3 DEF ToSet
<1> QED
  BY <1>1, <1>5, <1>6, <1>7

\* Writing the first event of a queue leaves the others.
LEMMA FirstEvent ==
    ASSUME NEW S, NEW q \in Seq(S), q # <<>>
    PROVE  /\ Head(q) \in S /\ Tail(q) \in Seq(S) /\ Head(q) \in ToSet(q)
           /\ ToSet(q) = {Head(q)} \cup ToSet(Tail(q))
<1>1. /\ Len(q) \in Nat \ {0} /\ Head(q) = q[1] /\ Head(q) \in S /\ Tail(q) \in Seq(S)
      /\ DOMAIN q = 1..Len(q) /\ DOMAIN Tail(q) = 1..Len(q) - 1
      /\ \A k \in 1..Len(q) - 1 : Tail(q)[k] = q[k + 1]
  OBVIOUS
<1> DEFINE n == Len(q) - 1
           tail == Tail(q)
<1>2. n \in Nat /\ n + 1 = Len(q) /\ tail = Tail(q)
  BY <1>1
<1>3. /\ DOMAIN q = 1..n + 1 /\ DOMAIN tail = 1..n /\ \A k \in 1..n : tail[k] = q[k + 1]
  BY <1>1, <1>2
<1> HIDE DEF n, tail
<1>4. \A k \in 1..n + 1 : k = 1 \/ \E l \in 1..n : k = l + 1
  <2> TAKE k \in 1..n + 1
  <2>1. k # 1 => k - 1 \in 1..n /\ k = k - 1 + 1
    BY <1>2
  <2> QED
    BY <2>1
<1>5. 1 \in 1..n + 1 /\ \A k \in 1..n : k + 1 \in 1..n + 1
  BY <1>2
<1>6. ToSet(q) \subseteq {q[1]} \cup ToSet(tail)
  <2> SUFFICES ASSUME NEW k \in DOMAIN q
               PROVE  q[k] \in {q[1]} \cup ToSet(tail)
    BY DEF ToSet
  <2>1. CASE k = 1
    BY <2>1
  <2>2. CASE k # 1
    <3>1. PICK l \in 1..n : k = l + 1
      BY <1>3, <1>4, <2>2
    <3>2. l \in DOMAIN tail /\ tail[l] = q[k]
      BY <1>3, <3>1
    <3> QED
      BY <3>2 DEF ToSet
  <2> QED
    BY <2>1, <2>2
<1>7. ToSet(tail) \subseteq ToSet(q) /\ q[1] \in ToSet(q)
  BY <1>3, <1>5 DEF ToSet
<1> QED
  BY <1>1, <1>2, <1>6, <1>7

LEMMA EventsTyped ==
    ASSUME NEW t \in Users
    PROVE  /\ \A active \in BOOLEAN : ActiveEvent(t, active) \in Events
           /\ \A add, remove \in SUBSET Roles : RolesEvent(t, add, remove) \in Events
           /\ \A a \in Accounts : AccountEvent(t, a) \in Events
           /\ \A d \in Departments, row \in Assignments : RowEvent(t, d, row) \in Events
           /\ \A after \in [Departments -> Assignments] : AssignEvent(t, after) \in Events
<1>1. \A active \in BOOLEAN : ActiveEvent(t, active) \in Events
  BY DEF ActiveEvent, Events
<1>2. \A add, remove \in SUBSET Roles : RolesEvent(t, add, remove) \in Events
  BY DEF RolesEvent, Events
<1>3. \A a \in Accounts : AccountEvent(t, a) \in Events
  BY DEF AccountEvent, Events, Accounts
<1>4. \A d \in Departments, row \in Assignments : RowEvent(t, d, row) \in Events
  BY DEF RowEvent, Events
<1>5. \A after \in [Departments -> Assignments] : AssignEvent(t, after) \in Events
  BY DEF AssignEvent, Events, Shown
<1> QED
  BY <1>1, <1>2, <1>3, <1>4, <1>5

LEMMA EventFields ==
    ASSUME NEW e \in Events
    PROVE  /\ e.user \in Users /\ e.kind \in {"active", "roles", "account", "row", "assign"}
           /\ e.kind = "active" => e.active \in BOOLEAN
           /\ e.kind = "roles" => e.add \in SUBSET Roles /\ e.remove \in SUBSET Roles
           /\ e.kind = "account" => e.active \in BOOLEAN /\ e.roles \in SUBSET Roles
           /\ e.kind = "row" => e.department \in Departments /\ e.row \in Assignments
           /\ e.kind = "assign" => e.rows \in [Departments -> {"on", "off", "absent"}]
  BY DEF Events

\* The events of groups.set(), as a set.
LEMMA RoleEventsSet ==
    ASSUME NEW t \in Users, NEW before \in SUBSET Roles, NEW after \in SUBSET Roles
    PROVE  /\ RoleEvents(t, before, after) \in Seq(Events)
           /\ \A e \in ToSet(RoleEvents(t, before, after)) :
                 /\ e.kind = "roles" /\ e.user = t
                 /\ e.add \subseteq after /\ e.remove \cap after = {}
           /\ \A g \in Roles :
                 (g \in before <=> g \in after)
                    \/ \E e \in ToSet(RoleEvents(t, before, after)) : g \in e.add \cup e.remove
<1> DEFINE removal == RolesEvent(t, {}, before \ after)
           addition == RolesEvent(t, after \ before, {})
           p == IF before \ after = {} THEN <<>> ELSE <<removal>>
           q == IF after \ before = {} THEN <<>> ELSE <<addition>>
<1>1. removal \in Events /\ addition \in Events
  <2>1. {} \in SUBSET Roles /\ before \ after \in SUBSET Roles /\ after \ before \in SUBSET Roles
    OBVIOUS
  <2> QED
    BY <2>1, EventsTyped
<1>2. /\ removal.kind = "roles" /\ removal.user = t /\ removal.add = {} /\ removal.remove = before \ after
      /\ addition.kind = "roles" /\ addition.user = t /\ addition.add = after \ before /\ addition.remove = {}
  BY DEF RolesEvent
<1> HIDE DEF removal, addition
<1>3. p \in Seq(Events) /\ ToSet(p) = IF before \ after = {} THEN {} ELSE {removal}
  BY <1>1, OneEvent, NoEvent
<1>4. q \in Seq(Events) /\ ToSet(q) = IF after \ before = {} THEN {} ELSE {addition}
  BY <1>1, OneEvent, NoEvent
<1>5. RoleEvents(t, before, after) = p \o q
  BY DEF RoleEvents, removal, addition
<1> HIDE DEF p, q
<1>6. p \o q \in Seq(Events) /\ ToSet(p \o q) = ToSet(p) \cup ToSet(q)
  BY <1>3, <1>4, EventsAfterEvents
<1>7. \A e \in ToSet(p \o q) : e = removal \/ e = addition
  BY <1>3, <1>4, <1>6
<1>8. \A g \in Roles : g \in before /\ g \notin after => removal \in ToSet(p \o q) /\ g \in removal.remove
  BY <1>2, <1>3, <1>6
<1>9. \A g \in Roles : g \in after /\ g \notin before => addition \in ToSet(p \o q) /\ g \in addition.add
  BY <1>2, <1>4, <1>6
<1>10. \A e \in ToSet(p \o q) : /\ e.kind = "roles" /\ e.user = t
                                /\ e.add \subseteq after /\ e.remove \cap after = {}
  BY <1>2, <1>7
<1>11. \A g \in Roles : (g \in before <=> g \in after)
                           \/ \E e \in ToSet(p \o q) : g \in e.add \cup e.remove
  BY <1>8, <1>9
<1> QED
  BY <1>5, <1>6, <1>10, <1>11

\* What an event changes of what the log says of its user.
LEMMA ToldFields ==
    ASSUME NEW e \in Events, NEW old \in [signals : Signals, views : Views], old = told[e.user]
    PROVE  /\ Told(e) \in [signals : Signals, views : Views]
           /\ Told(e).signals.active = IF e.kind = "active" THEN e.active ELSE old.signals.active
           /\ Told(e).signals.roles = IF e.kind = "roles" THEN (old.signals.roles \ e.remove) \cup e.add
                                                          ELSE old.signals.roles
           /\ \A d \in Departments :
                 Told(e).signals.rows[d] = IF e.kind = "row" /\ e.department = d THEN e.row
                                                                                 ELSE old.signals.rows[d]
           /\ Told(e).views.active = IF e.kind = "account" THEN e.active ELSE old.views.active
           /\ Told(e).views.roles = IF e.kind = "account" THEN e.roles ELSE old.views.roles
           /\ Told(e).views.rows = IF e.kind = "assign" THEN e.rows ELSE old.views.rows
<1>1. old.signals \in Signals /\ old.views \in Views
  OBVIOUS
<1>2. CASE e.kind = "active"
  <2>1. Told(e) = [old EXCEPT !.signals.active = e.active] /\ e.active \in BOOLEAN
    BY <1>2, EventFields DEF Told
  <2>2. /\ Told(e).signals = [old.signals EXCEPT !.active = e.active] /\ Told(e).views = old.views
        /\ Told(e) = [signals |-> Told(e).signals, views |-> Told(e).views]
    BY <2>1
  <2>3. /\ Told(e).signals \in Signals /\ Told(e).signals.active = e.active
        /\ Told(e).signals.roles = old.signals.roles /\ Told(e).signals.rows = old.signals.rows
    BY <1>1, <2>1, <2>2 DEF Signals
  <2> QED
    BY <1>1, <1>2, <2>2, <2>3
<1>3. CASE e.kind = "roles"
  <2>1. /\ Told(e) = [old EXCEPT !.signals.roles = (@ \ e.remove) \cup e.add]
        /\ e.add \in SUBSET Roles /\ e.remove \in SUBSET Roles
    BY <1>3, EventFields DEF Told
  <2>2. /\ Told(e).signals = [old.signals EXCEPT !.roles = (@ \ e.remove) \cup e.add]
        /\ Told(e).views = old.views
        /\ Told(e) = [signals |-> Told(e).signals, views |-> Told(e).views]
    BY <2>1
  <2>3. /\ Told(e).signals \in Signals /\ Told(e).signals.active = old.signals.active
        /\ Told(e).signals.roles = (old.signals.roles \ e.remove) \cup e.add
        /\ Told(e).signals.rows = old.signals.rows
    BY <1>1, <2>1, <2>2 DEF Signals
  <2> QED
    BY <1>1, <1>3, <2>2, <2>3
<1>4. CASE e.kind = "row"
  <2>1. /\ Told(e) = [old EXCEPT !.signals.rows[e.department] = e.row]
        /\ e.department \in Departments /\ e.row \in Assignments
    BY <1>4, EventFields DEF Told
  <2>2. /\ Told(e).signals = [old.signals EXCEPT !.rows[e.department] = e.row]
        /\ Told(e).views = old.views
        /\ Told(e) = [signals |-> Told(e).signals, views |-> Told(e).views]
    BY <2>1
  <2>3. /\ Told(e).signals.active = old.signals.active /\ Told(e).signals.roles = old.signals.roles
        /\ Told(e).signals.rows = [old.signals.rows EXCEPT ![e.department] = e.row]
        /\ Told(e).signals = [active |-> Told(e).signals.active, roles |-> Told(e).signals.roles,
                              rows |-> Told(e).signals.rows]
        /\ old.signals.rows \in [Departments -> Assignments]
    BY <1>1, <2>2 DEF Signals
  <2>4. Told(e).signals.rows \in [Departments -> Assignments]
    BY <2>1, <2>3
  <2>5. Told(e).signals \in Signals
    BY <1>1, <2>3, <2>4 DEF Signals
  <2> QED
    BY <1>1, <1>4, <2>2, <2>3, <2>5
<1>5. CASE e.kind = "account"
  <2>1. /\ Told(e) = [old EXCEPT !.views.active = e.active, !.views.roles = e.roles]
        /\ e.active \in BOOLEAN /\ e.roles \in SUBSET Roles
    BY <1>5, EventFields DEF Told
  <2>2. /\ Told(e).views = [old.views EXCEPT !.active = e.active, !.roles = e.roles]
        /\ Told(e).signals = old.signals
        /\ Told(e) = [signals |-> Told(e).signals, views |-> Told(e).views]
    BY <2>1
  <2>3. /\ Told(e).views \in Views /\ Told(e).views.active = e.active
        /\ Told(e).views.roles = e.roles /\ Told(e).views.rows = old.views.rows
    BY <1>1, <2>1, <2>2 DEF Views
  <2> QED
    BY <1>1, <1>5, <2>2, <2>3
<1>6. CASE e.kind = "assign"
  <2>1. /\ Told(e) = [old EXCEPT !.views.rows = e.rows]
        /\ e.rows \in [Departments -> {"on", "off", "absent"}]
    BY <1>6, EventFields DEF Told
  <2>2. /\ Told(e).views = [old.views EXCEPT !.rows = e.rows] /\ Told(e).signals = old.signals
        /\ Told(e) = [signals |-> Told(e).signals, views |-> Told(e).views]
    BY <2>1
  <2>3. /\ Told(e).views \in Views /\ Told(e).views.active = old.views.active
        /\ Told(e).views.roles = old.views.roles /\ Told(e).views.rows = e.rows
    BY <1>1, <2>1, <2>2 DEF Views
  <2> QED
    BY <1>1, <1>6, <2>2, <2>3
<1> QED
  BY <1>2, <1>3, <1>4, <1>5, <1>6, EventFields

LEMMA AppendedEvent ==
    ASSUME NEW S, NEW q \in Seq(S), NEW e \in S
    PROVE  Append(q, e) \in Seq(S) /\ ToSet(Append(q, e)) = ToSet(q) \cup {e}
<1>1. PICK p : p = <<e>>
  OBVIOUS
<1>2. p \in Seq(S) /\ ToSet(p) = {e}
  BY <1>1, OneEvent
<1>3. Append(q, e) = q \o p
  BY <1>1
<1> QED
  BY <1>2, <1>3, EventsAfterEvents

\* Events of different topics.
LEMMA TopicFields ==
    ASSUME NEW e \in Events
    PROVE  /\ Topic(e) \in Topics
           /\ e.kind # "row" => Topic(e) = <<e.user, e.kind, "all">>
           /\ e.kind = "row" => Topic(e) = <<e.user, "row", e.department>>
           /\ \A t, k, d : Topic(e) = <<t, k, d>> => e.user = t /\ e.kind = k /\ (k = "row" => e.department = d)
  BY EventFields DEF Topic, Topics

LEMMA DueTopics ==
    /\ \A e : e \in Pending <=> \E v \in Actors : req[v].pc = "committed" /\ e \in ToSet(req[v].queue)
    /\ \A e \in Pending : Topic(e) \in Due
    /\ \A p \in Due : \E e \in Pending : Topic(e) = p
  BY DEF Pending, Due, TopicsOf

LEMMA PendingTyped == Typed => Pending \subseteq Events
<1> SUFFICES ASSUME Typed, NEW v \in Actors, NEW k \in DOMAIN req[v].queue
             PROVE  req[v].queue[k] \in Events
  BY DEF Pending, ToSet
<1>1. req[v].queue \in Seq(Events)
  BY DEF Typed, Requests
<1> QED
  BY <1>1

-----------------------------------------------------------------------------
(* What the steps have in common.                                           *)

LEMMA NoRequestTyped ==
    /\ NoRequest \in Requests /\ NoRequest.pc = "idle" /\ NoRequest.queue = <<>> /\ NoRequest.op = "none"
    /\ NoRequest.left = {} /\ NoRequest.wrote = {} /\ NoRequest.early = {}
<1>1. <<>> \in Seq(Events)
  OBVIOUS
<1> QED
  BY <1>1 DEF NoRequest, Requests

LEMMA OneSteps ==
    ASSUME AccountsInv, NEW u \in Actors, NEW r \in Requests, Step(u, r)
    PROVE  /\ req' \in [Actors -> Requests] /\ req'[u] = r
           /\ \A v \in Actors : v # u => req'[v] = req[v]
  BY DEF AccountsInv, Typed, Step

\* Rows that are known of are no more, none has a new number: still apart.
LEMMA ApartKept ==
    ASSUME AccountsInv, begun' \in 0..MaxRequests, begun' >= begun,
           \A n \in 1..MaxRequests, t \in Users, d \in Departments : Known(n, t, d)' => Known(n, t, d)
    PROVE  RowsApart'
<1>1. begun \in Nat /\ begun' \in Nat /\ MaxRequests \in Nat
  BY BoundsAssumption DEF AccountsInv, Typed
<1> SUFFICES ASSUME NEW n \in 1..MaxRequests, NEW t \in Users, NEW d \in Departments, Known(n, t, d)'
             PROVE  n <= begun' /\ \A v \in Users, e \in Departments : Known(n, v, e)' => t = v /\ d = e
  BY DEF RowsApart
<1>2. Known(n, t, d) /\ \A v \in Users, e \in Departments : Known(n, v, e)' => Known(n, v, e)
  OBVIOUS
<1>3. n <= begun /\ \A v \in Users, e \in Departments : Known(n, v, e) => t = v /\ d = e
  BY <1>2 DEF AccountsInv, RowsApart
<1>4. n <= begun'
  BY <1>1, <1>3
<1> QED
  BY <1>2, <1>3, <1>4

\* Nothing is told and nothing becomes due.
LEMMA LogKept ==
    ASSUME LogInv, UNCHANGED <<accounts, rows, told, blurred>>, Pending' = Pending
    PROVE  LogInv'
<1>1. Due' = Due
  BY DEF Due
<1>2. \A e \in Pending' : Topic(e) \notin blurred' => Agrees(e)'
  BY DEF LogInv, Agrees, ViewOf
<1>3. \A t \in Users : Awaited(t)'
  <2> TAKE t \in Users
  <2>1. Awaited(t) /\ ViewOf(t)' = ViewOf(t)
    BY DEF LogInv, ViewOf
  <2> QED
    BY <1>1, <2>1 DEF Awaited
<1> QED
  BY <1>2, <1>3 DEF LogInv

\* A request that is not touched, nor what it reads, holds what it did.
LEMMA UntouchedKept ==
    ASSUME NEW v \in Actors, req[v] \in Requests, JudgedWell(v), PostWell(v), QueueWell(v), DeletionsWell(v),
           req'[v] = req[v], rows' = rows,
           \A t \in Users, d \in Departments :
              /\ <<t, "row", d>> \in Due' => <<t, "row", d>> \in Due
              /\ <<t, "row", d>> \in blurred \cup Due => <<t, "row", d>> \in blurred' \cup Due'
    PROVE  JudgedWell(v)' /\ PostWell(v)' /\ QueueWell(v)' /\ DeletionsWell(v)'
<1>1. Assigning(v)' <=> Assigning(v)
  BY DEF Assigning
<1>2. JudgedWell(v)'
  BY <1>1 DEF JudgedWell
<1>3. PostWell(v)'
  BY <1>1 DEF PostWell, RowValid
<1>4. After(req[v])' = After(req[v])
  BY DEF After
<1>5. QueueWell(v)'
  BY <1>1, <1>4 DEF QueueWell
<1>6. /\ Assigning(v) => req[v].target \in Users
      /\ req[v].wrote \subseteq Departments /\ req[v].early \subseteq Departments
  BY DEF PostWell, Requests
<1>7. DeletionsWell(v)'
  <2> SUFFICES ASSUME Assigning(v)
               PROVE  /\ \A d \in req[v].wrote :
                            ~Present(req[v].post[d]) =>
                              /\ rows[req[v].target][d].id = req[v].seen[d].id
                              /\ \/ <<req[v].target, "row", d>> \in req[v].stale
                                 \/ <<req[v].target, "row", d>> \notin Due' /\ d \in req[v].early
                      /\ \A d \in req[v].early :
                            \/ d \in req[v].wrote
                            \/ rows[req[v].target][d].id # req[v].seen[d].id
                            \/ <<req[v].target, "row", d>> \in blurred' \cup Due'
    BY <1>1 DEF DeletionsWell
  <2> QED
    BY <1>6 DEF DeletionsWell
<1> QED
  BY <1>2, <1>3, <1>5, <1>7

\* A request goes on without committing.
LEMMA TurnKeeps ==
    ASSUME AccountsInv, NEW u \in Actors, NEW r \in Requests, Step(u, r),
           UNCHANGED <<accounts, rows, open, told, blurred, faults>>, begun' \in 0..MaxRequests,
           req[u].pc # "committed" \/ req[u].queue = <<>>, r.pc # "committed",
           JudgedWell(u)', PostWell(u)', QueueWell(u)', DeletionsWell(u)', RowsApart',
           \A v \in Actors : v # u /\ req[v].target = r.target => req[v].wrote \cap r.wrote = {}
    PROVE  AccountsInv'
<1>1. /\ req' \in [Actors -> Requests] /\ req'[u] = r
      /\ \A v \in Actors : v # u => req'[v] = req[v]
  BY OneSteps
<1>2. Typed'
  BY <1>1 DEF AccountsInv, Typed
<1>3. Pending' = Pending
  <2>1. \A e : e \in Pending' <=> \E v \in Actors : req'[v].pc = "committed" /\ e \in ToSet(req'[v].queue)
    BY DEF Pending
  <2>2. \A e : e \in Pending => \E v \in Actors : v # u /\ req[v].pc = "committed" /\ e \in ToSet(req[v].queue)
    BY DueTopics, NoEvent
  <2>3. \A e : e \in Pending <=> e \in Pending'
    BY <1>1, <2>1, <2>2, DueTopics
  <2> QED
    BY <2>3
<1>4. Due' = Due
  BY <1>3 DEF Due
<1>5. LogInv'
  BY <1>3, LogKept DEF AccountsInv
<1>6. \A v \in Actors : v # u => JudgedWell(v)' /\ PostWell(v)' /\ QueueWell(v)' /\ DeletionsWell(v)'
  <2> TAKE v \in Actors
  <2> HAVE v # u
  <2>1. req[v] \in Requests /\ req'[v] = req[v] /\ rows' = rows /\ Due' = Due /\ blurred' = blurred
    BY <1>1, <1>4 DEF AccountsInv, Typed
  <2> QED
    BY <2>1, UntouchedKept DEF AccountsInv
<1>7. WritesApart'
  BY <1>1 DEF AccountsInv, WritesApart
<1>8. AbsentRows'
  BY DEF AccountsInv, AbsentRows
<1> QED
  BY <1>2, <1>5, <1>6, <1>7, <1>8 DEF AccountsInv

\* A request that is no post of assignments yet, or no more.
LEMMA OtherTurnKeeps ==
    ASSUME AccountsInv, NEW u \in Actors, NEW r \in Requests, Step(u, r),
           UNCHANGED <<accounts, rows, open, told, blurred, faults>>,
           begun' \in 0..MaxRequests, begun' >= begun,
           req[u].pc # "committed" \/ req[u].queue = <<>>,
           r.pc \notin {"saved", "committed"}, r.op # "assign",
           r.left = {}, r.wrote = {}, r.early = {}, JudgedWell(u)'
    PROVE  AccountsInv'
<1>1. /\ req' \in [Actors -> Requests] /\ req'[u] = r
      /\ \A v \in Actors : v # u => req'[v] = req[v]
  BY OneSteps
<1>2. ~Assigning(u)'
  BY <1>1 DEF Assigning
<1>3. PostWell(u)' /\ QueueWell(u)' /\ DeletionsWell(u)'
  BY <1>2 DEF PostWell, QueueWell, DeletionsWell
<1>4. ASSUME NEW n \in 1..MaxRequests, NEW t \in Users, NEW d \in Departments, Known(n, t, d)'
      PROVE  Known(n, t, d)
  BY <1>1, <1>2, <1>4 DEF Known, Seen, Assigning
<1>5. RowsApart'
  BY <1>4, ApartKept
<1> QED
  BY <1>3, <1>5, TurnKeeps

LEMMA AccountFields ==
    ASSUME AccountsInv, NEW t \in Users
    PROVE  /\ accounts[t] \in Accounts \cup {NoAccount}
           /\ accounts[t].active \in BOOLEAN /\ accounts[t].roles \in SUBSET Roles
           /\ Exists(t) => accounts[t] \in Accounts
           /\ accounts[t].active => accounts[t] \in Accounts
<1>1. accounts[t] \in Accounts \cup {NoAccount}
  BY DEF AccountsInv, Typed
<1>2. CASE accounts[t] = NoAccount
  <2>1. accounts[t].active = FALSE /\ accounts[t].roles = {}
    BY <1>2 DEF NoAccount
  <2> QED
    BY <1>2, <2>1 DEF Exists
<1>3. CASE accounts[t] \in Accounts
  BY <1>3 DEF Accounts
<1> QED
  BY <1>1, <1>2, <1>3

LEMMA AccountsInvInit == Init => AccountsInv
<1> SUFFICES ASSUME Init PROVE AccountsInv
  OBVIOUS
<1>1. accounts \in [Users -> Accounts \cup {NoAccount}]
  <2>1. \A t \in Founders : [active |-> TRUE, roles |-> FirstRoles[t], secret |-> FirstSecret] \in Accounts
    BY UsersAssumption, SecretsAssumption DEF Accounts
  <2> QED
    BY <2>1 DEF Init
<1>2. /\ 0 \in 0..MaxRequests /\ 0 \in 0..MaxFaults
      /\ NoRow \in Assignments /\ NoRow.id = 0 /\ ~Present(NoRow)
  BY BoundsAssumption DEF NoRow, Assignments, Present
<1>3. rows \in [Users -> [Departments -> Assignments]] /\ \A t \in Users, d \in Departments : rows[t][d] = NoRow
  BY <1>2 DEF Init
<1>4. \A t \in Users : accounts[t].active \in BOOLEAN /\ accounts[t].roles \in SUBSET Roles
  <2> TAKE t \in Users
  <2>1. CASE accounts[t] = NoAccount
    BY <2>1 DEF NoAccount
  <2>2. CASE accounts[t] \in Accounts
    BY <2>2 DEF Accounts
  <2> QED
    BY <1>1, <2>1, <2>2
<1>5. \A t \in Users : SignalsOf(t) \in Signals /\ ViewOf(t) \in Views
  BY <1>3, <1>4 DEF SignalsOf, Signals, ViewOf, Views, Shown
<1>6. /\ told \in [Users -> [signals : Signals, views : Views]]
      /\ \A t \in Users : told[t].signals = SignalsOf(t) /\ told[t].views = ViewOf(t)
  BY <1>5 DEF Init
<1>7. req \in [Actors -> Requests] /\ \A u \in Actors : req[u] = NoRequest
  BY NoRequestTyped DEF Init
<1>8. Typed
  BY <1>1, <1>2, <1>3, <1>6, <1>7 DEF Init, Typed
<1>9. /\ \A u \in Actors : req[u].pc = "idle" /\ req[u].wrote = {} /\ ~Assigning(u)
      /\ \A u \in Actors : req[u].left = {} /\ req[u].early = {}
  BY <1>7, NoRequestTyped DEF Assigning
<1>10. Pending = {}
  BY <1>9 DEF Pending
<1>11. \A t \in Users : Awaited(t)
  <2> TAKE t \in Users
  <2>1. told[t].signals = SignalsOf(t) /\ told[t].views = ViewOf(t)
    BY <1>6
  <2>2. /\ SignalsOf(t).active = accounts[t].active /\ SignalsOf(t).roles = accounts[t].roles
        /\ SignalsOf(t).rows = rows[t]
    BY DEF SignalsOf
  <2>3. ViewOf(t).active = accounts[t].active /\ ViewOf(t).roles = accounts[t].roles
    BY DEF ViewOf
  <2> QED
    BY <2>1, <2>2, <2>3 DEF Awaited
<1>12. LogInv
  BY <1>10, <1>11 DEF LogInv
<1>13. RowsApart /\ AbsentRows /\ WritesApart
  BY <1>2, <1>3, <1>9 DEF RowsApart, AbsentRows, WritesApart, Known, Seen
<1>14. \A u \in Actors : JudgedWell(u) /\ PostWell(u) /\ QueueWell(u) /\ DeletionsWell(u)
  BY <1>9 DEF JudgedWell, PostWell, QueueWell, DeletionsWell
<1> QED
  BY <1>8, <1>12, <1>13, <1>14 DEF AccountsInv

LEMMA BeginTyped ==
    ASSUME AccountsInv, NEW u \in Actors, Begin(u)
    PROVE  /\ req[u].pc = "idle" /\ begun' = begun + 1 /\ begun \in Nat
           /\ begun' \in 0..MaxRequests /\ begun' >= begun
  BY BoundsAssumption DEF AccountsInv, Typed, Begin

LEMMA JudgedKeeps ==
    ASSUME AccountsInv, NEW u \in Actors, Begin(u), NEW t \in Users,
           NEW op \in {"new", "user", "profile", "password"}, Judged(u, op, t),
           op = "user" => Exists(t),
           op \in {"profile", "password"} => t = u /\ accounts[t].active,
           UNCHANGED <<accounts, rows, open, told, blurred, faults>>
    PROVE  AccountsInv'
<1> DEFINE r == [NoRequest EXCEPT !.pc = "judged", !.op = op, !.target = t, !.copy = accounts[t]]
<1>1. /\ r \in Requests /\ r.pc = "judged" /\ r.op = op /\ r.target = t /\ r.copy = accounts[t]
      /\ r.left = {} /\ r.wrote = {} /\ r.early = {}
  BY AccountFields, NoRequestTyped DEF NoRequest, Requests
<1>2. Step(u, r)
  BY DEF Judged
<1> HIDE DEF r
<1>3. req'[u] = r
  BY <1>1, <1>2, OneSteps
<1>4. JudgedWell(u)'
  BY <1>1, <1>3, AccountFields DEF JudgedWell
<1> QED
  BY <1>1, <1>2, <1>4, BeginTyped, OtherTurnKeeps

LEMMA LoadsKeep ==
    ASSUME AccountsInv, NEW u \in Actors,
           LoadNew(u) \/ LoadUser(u) \/ LoadOwn(u) \/ LoadDepartment(u)
    PROVE  AccountsInv'
<1>1. CASE LoadNew(u)
  BY <1>1, JudgedKeeps DEF LoadNew
<1>2. CASE LoadUser(u)
  BY <1>2, JudgedKeeps DEF LoadUser
<1>3. CASE LoadOwn(u)
  <2>1. u \in Users
    BY UsersAssumption
  <2> QED
    BY <1>3, <2>1, JudgedKeeps DEF LoadOwn
<1>4. CASE LoadDepartment(u)
  <2> DEFINE r == [NoRequest EXCEPT !.pc = "judged", !.op = "department"]
  <2>1. /\ r \in Requests /\ r.pc = "judged" /\ r.op = "department"
        /\ r.left = {} /\ r.wrote = {} /\ r.early = {}
    BY NoRequestTyped DEF NoRequest, Requests
  <2>2. Step(u, r)
    BY <1>4 DEF LoadDepartment
  <2> HIDE DEF r
  <2>3. req'[u] = r
    BY <2>1, <2>2, OneSteps
  <2>4. JudgedWell(u)'
    BY <2>1, <2>3 DEF JudgedWell
  <2>5. Begin(u) /\ UNCHANGED <<accounts, rows, open, told, blurred, faults>>
    BY <1>4 DEF LoadDepartment
  <2> QED
    BY <2>1, <2>2, <2>4, <2>5, BeginTyped, OtherTurnKeeps
<1> QED
  BY <1>1, <1>2, <1>3, <1>4

LEMMA EndsKeep ==
    ASSUME AccountsInv, NEW u \in Actors, Answer(u) \/ Abandon(u)
    PROVE  AccountsInv'
<1>1. /\ Step(u, NoRequest) /\ UNCHANGED <<accounts, rows, open, told, blurred, begun, faults>>
      /\ req[u].pc # "committed" \/ req[u].queue = <<>>
  BY DEF Answer, Abandon
<1>2. req'[u] = NoRequest
  BY <1>1, NoRequestTyped, OneSteps
<1>3. JudgedWell(u)'
  BY <1>2, NoRequestTyped DEF JudgedWell
<1>4. begun' \in 0..MaxRequests /\ begun' >= begun
  BY <1>1 DEF AccountsInv, Typed
<1> QED
  BY <1>1, <1>3, <1>4, NoRequestTyped, OtherTurnKeeps

-----------------------------------------------------------------------------
(* The commit.                                                              *)

LEMMA CommitSteps ==
    ASSUME AccountsInv, NEW u \in Actors, NEW events \in Seq(Events), Commit(u, events),
           req[u].pc = "judged"
    PROVE  /\ req' \in [Actors -> Requests] /\ req'[u].pc = "committed" /\ ~Assigning(u)'
           /\ \A v \in Actors : v # u => req'[v] = req[v]
           /\ blurred' = Blurred(ToSet(events), {}) /\ Pending' = Pending \cup ToSet(events)
           /\ begun' = begun /\ faults' = faults
           /\ JudgedWell(u)' /\ PostWell(u)' /\ QueueWell(u)' /\ DeletionsWell(u)' /\ WritesApart'
<1> DEFINE r == Committed(events)
<1>1. /\ r \in Requests /\ r.pc = "committed" /\ r.queue = events
      /\ r.left = {} /\ r.wrote = {} /\ r.early = {}
  BY NoRequestTyped DEF Committed, NoRequest, Requests
<1>2. Step(u, r)
  BY DEF Commit
<1> HIDE DEF r
<1>3. /\ req' \in [Actors -> Requests] /\ req'[u] = r
      /\ \A v \in Actors : v # u => req'[v] = req[v]
  BY <1>1, <1>2, OneSteps
<1>4. ~Assigning(u)'
  BY <1>1, <1>3 DEF Assigning
<1>5. JudgedWell(u)' /\ PostWell(u)' /\ QueueWell(u)' /\ DeletionsWell(u)'
  BY <1>1, <1>3, <1>4 DEF JudgedWell, PostWell, QueueWell, DeletionsWell
<1>6. WritesApart'
  BY <1>1, <1>3 DEF AccountsInv, WritesApart
<1>7. Pending' = Pending \cup ToSet(events)
  <2>1. \A e : e \in Pending' <=> \E v \in Actors : req'[v].pc = "committed" /\ e \in ToSet(req'[v].queue)
    BY DEF Pending
  <2>2. \A e : e \in Pending' <=> e \in Pending \/ e \in ToSet(events)
    BY <1>1, <1>3, <2>1, DueTopics
  <2> QED
    BY <2>2
<1> QED
  BY <1>1, <1>3, <1>4, <1>5, <1>6, <1>7 DEF Commit

\* What is blurred and due after a commit.
LEMMA AfterCommit ==
    ASSUME NEW E, NEW S, Pending' = Pending \cup E, blurred' = Blurred(E, S)
    PROVE  /\ Due' = Due \cup TopicsOf(E)
           /\ S \subseteq blurred'
           /\ \A p \in blurred' : p \in blurred \/ (p \in Due /\ p \in TopicsOf(E)) \/ p \in S
           /\ \A p : p \notin blurred' /\ p \in TopicsOf(E) => p \notin Due
           /\ \A p : p \notin blurred' /\ p \notin TopicsOf(E) => p \notin blurred
           /\ \A p : p \notin blurred' /\ (\A e \in E : Topic(e) = p => e.kind = "roles") => p \notin blurred
<1>1. Due' = Due \cup TopicsOf(E)
  BY DEF Due, TopicsOf
<1>2. \A p : p \in blurred' <=> \/ p \in blurred /\ \A e \in E : e.kind # "roles" => Topic(e) # p
                                \/ p \in TopicsOf(E) /\ p \in Due
                                \/ p \in S
  BY DEF Blurred, TopicsOf
<1>3. \A p : p \in TopicsOf(E) <=> \E e \in E : Topic(e) = p
  BY DEF TopicsOf
<1> QED
  BY <1>1, <1>2, <1>3

LEMMA AgreeAfterCommit ==
    ASSUME LogInv, NEW E, NEW S, Pending' = Pending \cup E, blurred' = Blurred(E, S),
           \A e \in E : Topic(e) \notin S => Agrees(e)',
           \A e \in Pending : Agrees(e) /\ Topic(e) \notin TopicsOf(E) \cup S => Agrees(e)'
    PROVE  \A e \in Pending' : Topic(e) \notin blurred' => Agrees(e)'
<1> SUFFICES ASSUME NEW e \in Pending', Topic(e) \notin blurred'
             PROVE  Agrees(e)'
  OBVIOUS
<1>1. Topic(e) \notin S
  BY AfterCommit
<1>2. CASE e \in E
  BY <1>1, <1>2
<1>3. CASE e \notin E
  <2>1. e \in Pending /\ Topic(e) \in Due
    BY <1>3, DueTopics
  <2>2. Topic(e) \notin TopicsOf(E) /\ Topic(e) \notin blurred
    BY <2>1, AfterCommit
  <2> QED
    BY <1>1, <2>1, <2>2 DEF LogInv
<1> QED
  BY <1>2, <1>3

\* The events tell all that a save of t changes, whose roles were those before
\* and whose account is now a: every event says what is so after it, and the
\* events of the views may be left out only where they would change nothing.
TellAccount(events, t, before, a) ==
    /\ \A e \in ToSet(events) :
          /\ e.user = t /\ e.kind \in {"active", "roles", "account"}
          /\ e.kind = "active" => e.active = a.active
          /\ e.kind = "roles" => e.add \subseteq a.roles /\ e.remove \cap a.roles = {}
          /\ e.kind = "account" => (e.active => a.active) /\ e.roles = a.roles
    /\ \E e \in ToSet(events) : e.kind = "active"
    /\ \A g \in Roles : (g \in before <=> g \in a.roles)
          \/ \E e \in ToSet(events) : e.kind = "roles" /\ g \in e.add \cup e.remove
    /\ \/ \E e \in ToSet(events) : e.kind = "account"
       \/ a.roles = before /\ a.active

\* An account is saved, and the events of it are queued.
LEMMA AccountSaved ==
    ASSUME AccountsInv, NEW u \in Actors, NEW t \in Users, NEW a \in Accounts,
           NEW events \in Seq(Events), Commit(u, events), req[u].pc = "judged",
           accounts' = [accounts EXCEPT ![t] = a], UNCHANGED <<rows, open, told>>,
           TellAccount(events, t, accounts[t].roles, a)
    PROVE  AccountsInv'
<1>E. PICK E : E = ToSet(events)
  OBVIOUS
<1>tell. /\ \A e \in E :
               /\ e \in Events /\ e.user = t /\ e.kind \in {"active", "roles", "account"}
               /\ e.kind = "active" => e.active = a.active
               /\ e.kind = "roles" => e.add \subseteq a.roles /\ e.remove \cap a.roles = {}
               /\ e.kind = "account" => (e.active => a.active) /\ e.roles = a.roles
         /\ \E e \in E : e.kind = "active"
         /\ \A g \in Roles : (g \in accounts[t].roles <=> g \in a.roles)
               \/ \E e \in E : e.kind = "roles" /\ g \in e.add \cup e.remove
         /\ \/ \E e \in E : e.kind = "account"
            \/ a.roles = accounts[t].roles /\ a.active
  <2>1. E \subseteq Events
    BY <1>E DEF ToSet
  <2> QED
    BY <1>E, <2>1 DEF TellAccount
<1>1. /\ req' \in [Actors -> Requests] /\ ~Assigning(u)'
      /\ \A v \in Actors : v # u => req'[v] = req[v]
      /\ blurred' = Blurred(E, {}) /\ Pending' = Pending \cup E
      /\ begun' = begun /\ faults' = faults
      /\ JudgedWell(u)' /\ PostWell(u)' /\ QueueWell(u)' /\ DeletionsWell(u)' /\ WritesApart'
  BY <1>E, CommitSteps
<1>2. /\ accounts' \in [Users -> Accounts \cup {NoAccount}] /\ accounts'[t] = a
      /\ \A v \in Users : v # t => accounts'[v] = accounts[v]
  BY DEF AccountsInv, Typed
<1>3. /\ \A e \in E : Topic(e) = <<t, e.kind, "all">> /\ Topic(e) \in Topics
      /\ \A p \in TopicsOf(E) : \E e \in E : p = <<t, e.kind, "all">>
      /\ \A e \in E : <<t, e.kind, "all">> \in TopicsOf(E)
  BY <1>tell, TopicFields DEF TopicsOf
<1>4. /\ Due' = Due \cup TopicsOf(E)
      /\ \A p \in blurred' : p \in blurred \/ (p \in Due /\ p \in TopicsOf(E))
      /\ \A p : p \notin blurred' /\ p \in TopicsOf(E) => p \notin Due
      /\ \A p : p \notin blurred' /\ p \notin TopicsOf(E) => p \notin blurred
      /\ \A p : p \notin blurred' /\ (\A e \in E : Topic(e) = p => e.kind = "roles") => p \notin blurred
  BY <1>1, AfterCommit
<1>5. blurred' \subseteq Topics
  <2>1. TopicsOf(E) \subseteq Topics
    BY <1>3 DEF TopicsOf
  <2> QED
    BY <1>4, <2>1 DEF AccountsInv, Typed
<1>6. Typed'
  BY <1>1, <1>2, <1>5 DEF AccountsInv, Typed
<1>7. \A v \in Users, d \in Departments :
         /\ <<v, "row", d>> \in Due' <=> <<v, "row", d>> \in Due
         /\ <<v, "row", d>> \in blurred' <=> <<v, "row", d>> \in blurred
  <2>1. \A v \in Users, d \in Departments : <<v, "row", d>> \notin TopicsOf(E)
    BY <1>tell, <1>3
  <2> QED
    BY <1>4, <2>1
<1>8. \A v \in Actors : JudgedWell(v)' /\ PostWell(v)' /\ QueueWell(v)' /\ DeletionsWell(v)'
  <2> TAKE v \in Actors
  <2>1. CASE v = u
    BY <1>1, <2>1
  <2>2. CASE v # u
    <3>1. req[v] \in Requests /\ req'[v] = req[v] /\ rows' = rows
      BY <1>1, <2>2 DEF AccountsInv, Typed
    <3> QED
      BY <1>7, <3>1, UntouchedKept DEF AccountsInv
  <2> QED
    BY <2>1, <2>2
<1>9. RowsApart'
  <2>1. \A n \in 1..MaxRequests, v \in Users, d \in Departments : Known(n, v, d)' => Known(n, v, d)
    BY <1>1 DEF Known, Seen, Assigning
  <2>2. begun' \in 0..MaxRequests /\ begun' >= begun
    BY <1>1 DEF AccountsInv, Typed
  <2> QED
    BY <2>1, <2>2, ApartKept
<1>10. AbsentRows'
  BY DEF AccountsInv, AbsentRows
<1>11. ASSUME NEW e \in Pending, Agrees(e), Topic(e) \notin TopicsOf(E)
       PROVE  Agrees(e)'
  <2>1. e \in Events /\ e.user \in Users
    BY <1>11, PendingTyped, EventFields DEF AccountsInv
  <2>2. CASE e.user # t
    <3>1. accounts'[e.user] = accounts[e.user] /\ ViewOf(e.user)'.rows = ViewOf(e.user).rows /\ rows' = rows
      BY <1>2, <2>1, <2>2 DEF ViewOf
    <3> QED
      BY <1>11, <3>1 DEF Agrees
  <2>3. CASE e.user = t
    <3>1. e.kind # "active"
      BY <1>tell, <1>3, <1>11, <2>1, <2>3, TopicFields
    <3>2. e.kind = "account" => a.active /\ a.roles = accounts[t].roles
      BY <1>tell, <1>3, <1>11, <2>1, <2>3, TopicFields
    <3>3. e.kind = "roles" => \A g \in Roles : g \in accounts[t].roles <=> g \in a.roles
      BY <1>tell, <1>3, <1>11, <2>1, <2>3, TopicFields
    <3>4. e.kind = "roles" => accounts[t].roles = a.roles
      <4>1. a.roles \in SUBSET Roles /\ accounts[t].roles \in SUBSET Roles
        BY AccountFields DEF Accounts
      <4> QED
        BY <3>3, <4>1
    <3>5. ViewOf(t)'.rows = ViewOf(t).rows
      BY DEF ViewOf
    <3> QED
      BY <1>2, <1>11, <2>3, <3>1, <3>2, <3>4, <3>5 DEF Agrees
  <2> QED
    BY <2>2, <2>3
<1>12. \A e \in E : Agrees(e)'
  BY <1>tell, <1>2 DEF Agrees
<1>13. \A e \in Pending' : Topic(e) \notin blurred' => Agrees(e)'
  BY <1>1, <1>11, <1>12, AgreeAfterCommit DEF AccountsInv
<1>14. ASSUME NEW v \in Users
       PROVE  Awaited(v)'
  <2>1. Awaited(v)
    BY DEF AccountsInv, LogInv
  <2>2. \A p : p \notin blurred' \cup Due' => p \notin blurred \cup Due /\ p \notin TopicsOf(E)
    BY <1>4
  <2>3. /\ \A d \in Departments : <<v, "row", d>> \notin blurred' \cup Due' => told'[v].signals.rows[d] = rows'[v][d]
        /\ <<v, "assign", "all">> \notin blurred' \cup Due' => told'[v].views.rows = ViewOf(v)'.rows
    <3>1. ViewOf(v)'.rows = ViewOf(v).rows
      BY DEF ViewOf
    <3> QED
      BY <2>1, <2>2, <3>1 DEF Awaited
  <2>4. <<v, "active", "all">> \notin blurred' \cup Due' => told'[v].signals.active = accounts'[v].active
    <3>1. <<t, "active", "all">> \in TopicsOf(E)
      BY <1>tell, <1>3
    <3> QED
      BY <1>2, <2>1, <2>2, <3>1 DEF Awaited
  <2>5. <<v, "account", "all">> \notin blurred' \cup Due' =>
          told'[v].views.roles = accounts'[v].roles /\ (told'[v].views.active => accounts'[v].active)
    <3>1. <<t, "account", "all">> \in TopicsOf(E) \/ (a.roles = accounts[t].roles /\ a.active)
      BY <1>tell, <1>3
    <3> QED
      BY <1>2, <2>1, <2>2, <3>1 DEF Awaited
  <2>6. ASSUME <<v, "roles", "all">> \notin blurred', NEW g \in Roles
        PROVE  (g \in told'[v].signals.roles <=> g \in accounts'[v].roles)
                  \/ \E e \in Pending' : e.kind = "roles" /\ e.user = v /\ g \in e.add \cup e.remove
    <3>1. <<v, "roles", "all">> \notin blurred
      BY <1>tell, <1>4, <2>6, TopicFields
    <3>2. (g \in told[v].signals.roles <=> g \in accounts[v].roles)
             \/ \E e \in Pending : e.kind = "roles" /\ e.user = v /\ g \in e.add \cup e.remove
      BY <2>1, <3>1 DEF Awaited
    <3>3. CASE v # t
      BY <1>1, <1>2, <3>2, <3>3
    <3>4. CASE v = t
      BY <1>1, <1>2, <1>tell, <3>2, <3>4
    <3> QED
      BY <3>3, <3>4
  <2> QED
    BY <2>3, <2>4, <2>5, <2>6 DEF Awaited
<1>15. LogInv'
  BY <1>13, <1>14 DEF LogInv
<1> QED
  BY <1>1, <1>6, <1>8, <1>9, <1>10, <1>15 DEF AccountsInv

\* The events of the user form; that of the view says that the account is told.
EventsOf(t, before, a, says) ==
    <<ActiveEvent(t, a.active)>> \o RoleEvents(t, before, a.roles) \o <<AccountEvent(t, says)>>

LEMMA UserEvents ==
    ASSUME NEW t \in Users, NEW before \in SUBSET Roles, NEW a \in Accounts, NEW says \in Accounts,
           says.roles = a.roles, says.active => a.active
    PROVE  /\ EventsOf(t, before, a, says) \in Seq(Events)
           /\ TellAccount(EventsOf(t, before, a, says), t, before, a)
<1>ev. PICK events : events = EventsOf(t, before, a, says)
  OBVIOUS
<1> DEFINE first == ActiveEvent(t, a.active)
           last == AccountEvent(t, says)
           middle == RoleEvents(t, before, a.roles)
<1>1. a.active \in BOOLEAN /\ a.roles \in SUBSET Roles
  BY DEF Accounts
<1>2. first \in Events /\ first.kind = "active" /\ first.user = t /\ first.active = a.active
  BY <1>1, EventsTyped DEF ActiveEvent
<1>3. /\ last \in Events /\ last.kind = "account" /\ last.user = t
      /\ last.active = says.active /\ last.roles = a.roles
  BY EventsTyped DEF AccountEvent
<1>4. /\ middle \in Seq(Events)
      /\ \A e \in ToSet(middle) : /\ e.kind = "roles" /\ e.user = t
                                  /\ e.add \subseteq a.roles /\ e.remove \cap a.roles = {}
      /\ \A g \in Roles : (g \in before <=> g \in a.roles)
                             \/ \E e \in ToSet(middle) : g \in e.add \cup e.remove
  BY <1>1, RoleEventsSet
<1>5. events = <<first>> \o middle \o <<last>>
  BY <1>ev DEF EventsOf
<1> HIDE DEF first, last, middle
<1>6. PICK p : p = <<first>>
  OBVIOUS
<1>7. PICK q : q = <<last>>
  OBVIOUS
<1>8. p \in Seq(Events) /\ ToSet(p) = {first} /\ q \in Seq(Events) /\ ToSet(q) = {last}
  BY <1>2, <1>3, <1>6, <1>7, OneEvent
<1>9. PICK o : o = p \o middle
  OBVIOUS
<1>10. events = o \o q
  BY <1>5, <1>6, <1>7, <1>9, Zenon
<1>11. o \in Seq(Events) /\ ToSet(o) = {first} \cup ToSet(middle)
  BY <1>4, <1>8, <1>9, EventsAfterEvents
<1>12. events \in Seq(Events) /\ ToSet(events) = ToSet(o) \cup {last}
  BY <1>8, <1>10, <1>11, EventsAfterEvents
<1>13. TellAccount(events, t, before, a)
  BY <1>2, <1>3, <1>4, <1>11, <1>12 DEF TellAccount
<1> QED
  BY <1>ev, <1>12, <1>13

\* The event of the profile and password forms.
LEMMA OwnEvents ==
    ASSUME NEW t \in Users, NEW a \in Accounts, a.active
    PROVE  /\ <<ActiveEvent(t, a.active)>> \in Seq(Events)
           /\ TellAccount(<<ActiveEvent(t, a.active)>>, t, a.roles, a)
<1> DEFINE first == ActiveEvent(t, a.active)
<1>1. a.active \in BOOLEAN
  BY DEF Accounts
<1>2. /\ first \in Events /\ first.kind = "active"
      /\ first.user = t /\ first.active = a.active
  BY <1>1, EventsTyped DEF ActiveEvent
<1> HIDE DEF first
<1>3. PICK p : p = <<first>>
  OBVIOUS
<1>4. p \in Seq(Events) /\ ToSet(p) = {first}
  BY <1>2, <1>3, OneEvent
<1>5. TellAccount(p, t, a.roles, a)
  BY <1>2, <1>4 DEF TellAccount
<1> QED
  BY <1>3, <1>4, <1>5 DEF first

LEMMA SaveNewKeeps == ASSUME AccountsInv, NEW u \in Actors, SaveNew(u) PROVE AccountsInv'
<1>t. PICK t : t = req[u].target
  OBVIOUS
<1>1. req[u].pc = "judged" /\ req[u].op = "new" /\ t \in Users /\ accounts[t] = NoAccount
  BY <1>t DEF SaveNew, Saving, Exists, AccountsInv, JudgedWell
<1>2. PICK a \in [active : BOOLEAN, roles : SUBSET Roles, secret : {FirstSecret}] :
         accounts' = [accounts EXCEPT ![t] = a] /\ Commit(u, EventsOf(t, {}, a, [a EXCEPT !.active = FALSE]))
  BY <1>t DEF SaveNew, EventsOf, CreatedEvent
<1>3. a \in Accounts /\ accounts[t].roles = {} /\ {} \in SUBSET Roles
  BY <1>1, SecretsAssumption DEF Accounts, NoAccount
<1>s. PICK says : says = [a EXCEPT !.active = FALSE]
  OBVIOUS
<1>4. says \in Accounts /\ says.roles = a.roles /\ ~says.active /\ UNCHANGED <<rows, open, told>>
  BY <1>3, <1>s DEF SaveNew, Accounts
<1>5. EventsOf(t, {}, a, says) \in Seq(Events) /\ TellAccount(EventsOf(t, {}, a, says), t, {}, a)
  BY <1>1, <1>3, <1>4, UserEvents
<1> QED
  BY <1>1, <1>2, <1>s, <1>3, <1>4, <1>5, AccountSaved

LEMMA SaveUserKeeps == ASSUME AccountsInv, NEW u \in Actors, SaveUser(u) PROVE AccountsInv'
<1>t. PICK t : t = req[u].target
  OBVIOUS
<1>1. /\ req[u].pc = "judged" /\ req[u].op = "user" /\ t \in Users
      /\ req[u].copy \in Accounts
  BY <1>t DEF SaveUser, Saving, AccountsInv, JudgedWell
<1>2. PICK active \in BOOLEAN, roles \in SUBSET Roles :
         /\ accounts' = [accounts EXCEPT ![t] = UserFormSaves(req[u].copy, active, roles)]
         /\ Commit(u, <<ActiveEvent(t, active)>> \o RoleEvents(t, accounts[t].roles, roles)
                        \o <<AccountEvent(t, UserFormSaves(req[u].copy, active, roles))>>)
  BY <1>t DEF SaveUser
<1>a. PICK a : a = UserFormSaves(req[u].copy, active, roles)
  OBVIOUS
<1>3. a \in Accounts /\ a.active = active /\ a.roles = roles
  BY <1>1, <1>a DEF UserFormSaves, Accounts
<1>4. accounts[t].roles \in SUBSET Roles
  BY <1>1, AccountFields
<1>5. accounts' = [accounts EXCEPT ![t] = a] /\ Commit(u, EventsOf(t, accounts[t].roles, a, a))
  BY <1>2, <1>a, <1>3 DEF EventsOf
<1>6. UNCHANGED <<rows, open, told>>
  BY DEF SaveUser
<1>7. /\ EventsOf(t, accounts[t].roles, a, a) \in Seq(Events)
      /\ TellAccount(EventsOf(t, accounts[t].roles, a, a), t, accounts[t].roles, a)
  BY <1>1, <1>3, <1>4, UserEvents
<1> QED
  BY <1>1, <1>3, <1>5, <1>6, <1>7, AccountSaved

LEMMA SaveOwnKeeps ==
    ASSUME AccountsInv, NEW u \in Actors, SaveProfile(u) \/ ChangePassword(u) PROVE AccountsInv'
<1>1. /\ req[u].pc = "judged" /\ req[u].copy \in Accounts /\ req[u].copy.active
      /\ u \in Users
  BY UsersAssumption DEF SaveProfile, ChangePassword, Saving, AccountsInv, JudgedWell
<1>2. accounts[u].roles \in SUBSET Roles
  BY <1>1, AccountFields
<1>3. PICK secret \in Secrets :
         accounts' = [accounts EXCEPT ![u] =
                        [req[u].copy EXCEPT !.roles = accounts[u].roles, !.secret = secret]]
  <2>1. CASE SaveProfile(u)
    <3>1. [req[u].copy EXCEPT !.roles = accounts[u].roles]
             = [req[u].copy EXCEPT !.roles = accounts[u].roles, !.secret = req[u].copy.secret]
      BY <1>1 DEF Accounts
    <3>2. req[u].copy.secret \in Secrets
      BY <1>1 DEF Accounts
    <3> QED
      BY <2>1, <3>1, <3>2 DEF SaveProfile
  <2>2. CASE ChangePassword(u)
    BY <2>2 DEF ChangePassword
  <2> QED
    BY <2>1, <2>2
<1> DEFINE a == [req[u].copy EXCEPT !.roles = accounts[u].roles, !.secret = secret]
<1>4. a \in Accounts /\ a.active = req[u].copy.active /\ a.roles = accounts[u].roles
  BY <1>1, <1>2 DEF Accounts
<1>5. accounts' = [accounts EXCEPT ![u] = a]
  BY <1>3
<1> HIDE DEF a
<1>6. Commit(u, <<ActiveEvent(u, a.active)>>) /\ UNCHANGED <<rows, open, told>>
  BY <1>4 DEF SaveProfile, ChangePassword
<1>7. /\ <<ActiveEvent(u, a.active)>> \in Seq(Events)
      /\ TellAccount(<<ActiveEvent(u, a.active)>>, u, a.roles, a)
  BY <1>1, <1>4, OwnEvents
<1> QED
  BY <1>1, <1>4, <1>5, <1>6, <1>7, AccountSaved

LEMMA SaveDepartmentKeeps ==
    ASSUME AccountsInv, NEW u \in Actors, SaveDepartment(u) PROVE AccountsInv'
<1>1. <<>> \in Seq(Events) /\ ToSet(<<>>) = {}
  BY NoEvent
<1>2. /\ req[u].pc = "judged" /\ Commit(u, <<>>)
      /\ open' \in SUBSET Departments /\ UNCHANGED <<accounts, rows, told>>
  BY DEF SaveDepartment, Saving, AccountsInv, Typed
<1>3. /\ req' \in [Actors -> Requests] /\ ~Assigning(u)'
      /\ \A v \in Actors : v # u => req'[v] = req[v]
      /\ blurred' = Blurred({}, {}) /\ Pending' = Pending \cup {}
      /\ begun' = begun /\ faults' = faults
      /\ JudgedWell(u)' /\ PostWell(u)' /\ QueueWell(u)' /\ DeletionsWell(u)' /\ WritesApart'
  BY <1>1, <1>2, CommitSteps
<1>4. blurred' = blurred /\ Pending' = Pending /\ Due' = Due
  BY <1>3 DEF Blurred, TopicsOf, Due
<1>5. Typed'
  BY <1>2, <1>3, <1>4 DEF AccountsInv, Typed
<1>6. RowsApart'
  <2>1. \A n \in 1..MaxRequests, v \in Users, d \in Departments : Known(n, v, d)' => Known(n, v, d)
    BY <1>2, <1>3 DEF Known, Seen, Assigning
  <2>2. begun' \in 0..MaxRequests /\ begun' >= begun
    BY <1>3 DEF AccountsInv, Typed
  <2> QED
    BY <2>1, <2>2, ApartKept
<1>7. AbsentRows'
  BY <1>2 DEF AccountsInv, AbsentRows
<1>8. LogInv'
  BY <1>2, <1>4, LogKept DEF AccountsInv
<1>9. \A v \in Actors : JudgedWell(v)' /\ PostWell(v)' /\ QueueWell(v)' /\ DeletionsWell(v)'
  <2> TAKE v \in Actors
  <2>1. CASE v = u
    BY <1>3, <2>1
  <2>2. CASE v # u
    <3>1. req[v] \in Requests /\ req'[v] = req[v] /\ rows' = rows
      BY <1>2, <1>3, <2>2 DEF AccountsInv, Typed
    <3> QED
      BY <1>4, <3>1, UntouchedKept DEF AccountsInv
  <2> QED
    BY <2>1, <2>2
<1> QED
  BY <1>3, <1>5, <1>6, <1>7, <1>8, <1>9 DEF AccountsInv

-----------------------------------------------------------------------------
(* The assignments of a user.                                               *)

LEMMA AtMostOne ==
    ASSUME NEW S, IsFiniteSet(S), Cardinality(S) <= 1, NEW d \in S, NEW e \in S PROVE d = e
<1> SUFFICES ASSUME d # e PROVE FALSE
  OBVIOUS
<1>1. IsFiniteSet({d}) /\ Cardinality({d}) = 1
  BY FS_Singleton
<1>2. Cardinality({d} \cup {e}) = 1 + 1
  BY <1>1, FS_AddElement
<1>3. Cardinality({d} \cup {e}) <= Cardinality(S) /\ Cardinality(S) \in Nat
  <2>1. {d} \cup {e} \in SUBSET S
    OBVIOUS
  <2> QED
    BY <2>1, FS_Subset, FS_CardinalityType
<1> QED
  BY <1>2, <1>3

\* The departments of rows added.
Added(r, post) == {d \in Departments : Present(post[d]) /\ ~Present(r.seen[d])}

\* What may be posted: rows shown, deleted, or one with the number to come.
LEMMA PostedRows ==
    ASSUME AccountsInv, NEW r, r.seen \in [Departments -> Assignments], NEW post \in Posts(r)
    PROVE  /\ post \in [Departments -> Assignments]
           /\ \A d \in Departments : /\ post[d].id = 0 => post[d] = NoRow
                                     /\ RowValid(r, d, post[d])
                                     /\ \/ post[d].id \in {0, r.seen[d].id}
                                        \/ post[d].id = begun + 1 /\ d \in Added(r, post)
           /\ \A d, e \in Added(r, post) : d = e
<1>1. /\ post \in [Departments -> Assignments]
      /\ \A d \in Departments : post[d] \in Postable(r, d) /\ RowValid(r, d, post[d])
  BY DEF Posts
<1>2. NoRow.id = 0 /\ begun + 1 # 0
  BY BoundsAssumption DEF NoRow, AccountsInv, Typed
<1>3. \A d \in Departments :
         \/ post[d] = NoRow
         \/ Present(r.seen[d]) /\ post[d].id = r.seen[d].id
         \/ ~Present(r.seen[d]) /\ post[d].id = begun + 1
  BY <1>1 DEF Postable
<1>4. \A d \in Departments : /\ post[d].id = 0 => post[d] = NoRow
                             /\ \/ post[d].id \in {0, r.seen[d].id}
                                \/ post[d].id = begun + 1 /\ d \in Added(r, post)
  BY <1>2, <1>3 DEF Present, Added
<1>5. \A d, e \in Added(r, post) : d = e
  <2>1. Added(r, post) \in SUBSET Departments /\ Cardinality(Added(r, post)) <= 1
    BY DEF Added, Posts
  <2> QED
    BY <2>1, DepartmentsAssumption, FS_Subset, AtMostOne
<1> QED
  BY <1>1, <1>4, <1>5

LEMMA LoadAssignmentsKeeps ==
    ASSUME AccountsInv, NEW u \in Actors, LoadAssignments(u) PROVE AccountsInv'
<1> DEFINE Read(t) == [NoRequest EXCEPT !.pc = "judged", !.op = "assign", !.target = t,
                         !.copy = accounts[t], !.seen = rows[t], !.open = open]
<1>1. PICK t \in Users :
         \E post \in Posts(Read(t)) :
            Step(u, [Read(t) EXCEPT !.post = post, !.left = Changed(Read(t), post)])
  BY DEF LoadAssignments
<1>a. PICK read : read = Read(t)
  OBVIOUS
<1>2. PICK post \in Posts(read) : Step(u, [read EXCEPT !.post = post, !.left = Changed(read, post)])
  BY <1>1, <1>a
<1>b. PICK r : r = [read EXCEPT !.post = post, !.left = Changed(read, post)]
  OBVIOUS
<1>3. /\ accounts[t] \in Accounts \cup {NoAccount} /\ rows[t] \in [Departments -> Assignments]
      /\ open \in SUBSET Departments
  BY DEF AccountsInv, Typed
<1>4. /\ read.pc = "judged" /\ read.op = "assign" /\ read.target = t /\ read.seen = rows[t]
      /\ read.open = open /\ read.copy = accounts[t] /\ read.queue = <<>>
      /\ read.wrote = {} /\ read.early = {} /\ read.stale = {}
      /\ read = [pc |-> "judged", op |-> "assign", target |-> t, copy |-> accounts[t], open |-> open,
                 queue |-> <<>>, seen |-> rows[t], post |-> <<>>, left |-> {}, wrote |-> {},
                 early |-> {}, stale |-> {}]
  BY <1>a DEF NoRequest
<1>c. read.seen \in [Departments -> Assignments]
  BY <1>3, <1>4
<1>p. /\ post \in [Departments -> Assignments]
      /\ \A d \in Departments : /\ post[d].id = 0 => post[d] = NoRow
                                /\ RowValid(read, d, post[d])
                                /\ \/ post[d].id \in {0, read.seen[d].id}
                                   \/ post[d].id = begun + 1 /\ d \in Added(read, post)
      /\ \A d, e \in Added(read, post) : d = e
  BY <1>c, PostedRows
<1>5. /\ post \in [Departments -> Assignments]
      /\ \A d \in Departments : /\ post[d].id = 0 => post[d] = NoRow
                                /\ RowValid(read, d, post[d])
                                /\ \/ post[d].id \in {0, rows[t][d].id}
                                   \/ post[d].id = begun + 1 /\ d \in Added(read, post)
      /\ \A d, e \in Added(read, post) : d = e
  BY <1>4, <1>p
<1>6. Changed(read, post) = {d \in Departments : post[d] # rows[t][d]}
  BY <1>4 DEF Changed
<1>7. r = [pc |-> "judged", op |-> "assign", target |-> t, copy |-> accounts[t], open |-> open,
           queue |-> <<>>, seen |-> rows[t], post |-> post, left |-> Changed(read, post),
           wrote |-> {}, early |-> {}, stale |-> {}]
  BY <1>4, <1>b
<1>8. r \in Requests
  <2>1. <<>> \in Seq(Events) /\ Changed(read, post) \in SUBSET Departments
    BY <1>6
  <2> QED
    BY <1>3, <1>5, <1>7, <2>1 DEF Requests
<1>9. Step(u, r) /\ req'[u] = r /\ \A v \in Actors : v # u => req'[v] = req[v]
  BY <1>2, <1>b, <1>8, OneSteps
<1>10. /\ req[u].pc = "idle" /\ begun' = begun + 1 /\ begun \in Nat
       /\ begun' \in 0..MaxRequests
       /\ UNCHANGED <<accounts, rows, open, told, blurred, faults>>
  BY BeginTyped DEF LoadAssignments
<1>11. Assigning(u)' /\ JudgedWell(u)'
  BY <1>7, <1>9 DEF Assigning, JudgedWell
<1>12. PostWell(u)'
  <2>1. \A d \in Departments : rows[t][d].id = 0 => rows[t][d] = NoRow
    BY DEF AccountsInv, AbsentRows
  <2>2. \A d \in Departments : RowValid(r, d, post[d])
    BY <1>4, <1>5, <1>7 DEF RowValid
  <2>3. \A d \in Departments : RowValid(req[u], d, post[d])'
    BY <1>9, <2>2 DEF RowValid
  <2> QED
    BY <1>3, <1>5, <1>6, <1>7, <1>9, <2>1, <2>2 DEF PostWell, RowValid
<1>13. QueueWell(u)' /\ DeletionsWell(u)'
  BY <1>7, <1>9, NoEvent DEF QueueWell, DeletionsWell
<1>14. ASSUME NEW n \in 1..MaxRequests, NEW v \in Users, NEW d \in Departments, Known(n, v, d)'
       PROVE  Known(n, v, d) \/ (n = begun + 1 /\ v = t /\ d \in Added(read, post))
  <2>1. CASE rows'[v][d].id = n
    BY <1>10, <2>1 DEF Known
  <2>2. CASE Seen(u, n, v, d)'
    <3>1. v = t /\ (rows[t][d].id = n \/ post[d].id = n) /\ n # 0
      BY <1>7, <1>9, <2>2 DEF Seen
    <3> QED
      BY <1>5, <3>1 DEF Known
  <2>3. CASE \E w \in Actors : w # u /\ Seen(w, n, v, d)'
    BY <1>9, <2>3 DEF Seen, Known, Assigning
  <2> QED
    BY <1>14, <2>1, <2>2, <2>3 DEF Known
<1>15. RowsApart'
  <2> SUFFICES ASSUME NEW n \in 1..MaxRequests, NEW v \in Users, NEW w \in Users,
                      NEW d \in Departments, NEW e \in Departments, Known(n, v, d)'
               PROVE  n <= begun' /\ (Known(n, w, e)' => v = w /\ d = e)
    BY DEF RowsApart
  <2>1. CASE Known(n, v, d)
    <3>1. n <= begun
      BY <2>1 DEF AccountsInv, RowsApart
    <3>2. n <= begun' /\ n # begun + 1
      BY <1>10, <3>1
    <3>3. Known(n, w, e)' => Known(n, w, e)
      BY <1>14, <3>2
    <3> QED
      BY <2>1, <3>2, <3>3 DEF AccountsInv, RowsApart
  <2>2. CASE n = begun + 1 /\ v = t /\ d \in Added(read, post)
    <3>1. ~Known(n, w, e)
      <4>1. Known(n, w, e) => n <= begun
        BY DEF AccountsInv, RowsApart
      <4> QED
        BY <1>10, <2>2, <4>1
    <3>2. Known(n, w, e)' => w = t /\ e \in Added(read, post)
      BY <1>14, <3>1
    <3>3. n <= begun'
      BY <1>10, <2>2
    <3> QED
      BY <1>5, <2>2, <3>2, <3>3
  <2> QED
    BY <1>14, <2>1, <2>2
<1>16. \A v \in Actors : v # u /\ req[v].target = r.target => req[v].wrote \cap r.wrote = {}
  BY <1>7
<1> QED
  BY <1>7, <1>8, <1>9, <1>10, <1>11, <1>12, <1>13, <1>15, <1>16, TurnKeeps

\* A statement of a post, or its last read: nothing it shows to others but its
\* locks.
LEMMA StatementKeeps ==
    ASSUME AccountsInv, NEW u \in Actors, NEW r \in Requests, Step(u, r),
           UNCHANGED <<accounts, rows, open, told, blurred, begun, faults>>,
           Assigning(u), r.pc \in {"judged", "saved"}, r.op = "assign", r.target = req[u].target,
           r.seen = req[u].seen, r.post = req[u].post,
           PostWell(u)', QueueWell(u)', DeletionsWell(u)',
           \A v \in Actors : v # u /\ req[v].target = r.target => req[v].wrote \cap r.wrote = {}
    PROVE  AccountsInv'
<1>1. /\ req'[u] = r
      /\ \A v \in Actors : v # u => req'[v] = req[v]
  BY OneSteps
<1>2. Assigning(u)' /\ JudgedWell(u)'
  BY <1>1 DEF Assigning, JudgedWell
<1>3. \A n \in 1..MaxRequests, t \in Users, d \in Departments : Known(n, t, d)' => Known(n, t, d)
  <2> TAKE n \in 1..MaxRequests, t \in Users, d \in Departments
  <2>1. \A v \in Actors : Seen(v, n, t, d)' => Seen(v, n, t, d)
    BY <1>1, <1>2 DEF Seen, Assigning
  <2> QED
    BY <2>1 DEF Known
<1>4. begun' \in 0..MaxRequests /\ begun' >= begun
  BY DEF AccountsInv, Typed
<1>5. RowsApart'
  BY <1>3, <1>4, ApartKept
<1>6. req[u].pc # "committed" /\ r.pc # "committed"
  BY DEF Assigning
<1> QED
  BY <1>2, <1>4, <1>5, <1>6, TurnKeeps

\* The department whose row a statement is about.
LEMMA AssigningFields ==
    ASSUME AccountsInv, NEW u \in Actors, Assigning(u)
    PROVE  /\ req[u] \in Requests /\ req[u].op = "assign" /\ req[u].pc \in {"judged", "saved"}
           /\ req[u].target \in Users /\ req[u].queue \in Seq(Events)
           /\ req[u].seen \in [Departments -> Assignments] /\ req[u].post \in [Departments -> Assignments]
           /\ req[u].left \in SUBSET Departments /\ req[u].wrote \in SUBSET Departments
           /\ req[u].early \in SUBSET Departments /\ req[u].stale \in SUBSET Topics
           /\ JudgedWell(u) /\ PostWell(u) /\ QueueWell(u) /\ DeletionsWell(u)
<1>1. req[u] \in Requests /\ PostWell(u)
  BY DEF AccountsInv, Typed
<1>2. /\ req[u].queue \in Seq(Events) /\ req[u].stale \in SUBSET Topics
      /\ req[u].left \in SUBSET Departments /\ req[u].wrote \in SUBSET Departments
      /\ req[u].early \in SUBSET Departments
  BY <1>1 DEF Requests
<1> QED
  BY <1>1, <1>2 DEF Assigning, PostWell, AccountsInv

LEMMA DeleteRowKeeps == ASSUME AccountsInv, NEW u \in Actors, DeleteRow(u) PROVE AccountsInv'
<1>1. /\ req[u].pc = "judged" /\ req[u].left # {}
      /\ UNCHANGED <<accounts, rows, open, told, blurred, begun, faults>>
  BY DEF DeleteRow
<1>2. Assigning(u)
  BY <1>1 DEF AccountsInv, JudgedWell
<1>t. PICK t : t = req[u].target
  OBVIOUS
<1>q. PICK q : q = req[u]
  OBVIOUS
<1>3. PICK d \in q.left :
         LET gone == rows[t][d].id # q.seen[d].id
         IN  /\ ~Present(q.post[d])
             /\ gone \/ ~Locked(u, t, d)
             /\ Step(u, [q EXCEPT !.left = @ \ {d}, !.early = @ \cup {d},
                                  !.wrote = IF gone THEN @ ELSE @ \cup {d},
                                  !.stale = IF gone THEN @ ELSE @ \cup (Due \cap {<<t, "row", d>>})])
  BY <1>t, <1>q DEF DeleteRow
<1>4. PICK gone \in BOOLEAN : gone <=> rows[t][d].id # q.seen[d].id
  OBVIOUS
<1>5. /\ q \in Requests /\ q.op = "assign" /\ q.pc = "judged" /\ q.target = t
      /\ t \in Users /\ q.queue \in Seq(Events)
      /\ q.seen \in [Departments -> Assignments] /\ q.post \in [Departments -> Assignments]
      /\ q.left \in SUBSET Departments /\ q.wrote \in SUBSET Departments
      /\ q.early \in SUBSET Departments /\ q.stale \in SUBSET Topics /\ d \in Departments
      /\ JudgedWell(u) /\ PostWell(u) /\ QueueWell(u) /\ DeletionsWell(u)
  BY <1>1, <1>2, <1>t, <1>q, <1>3, AssigningFields
<1>w. PICK wrote \in SUBSET Departments : wrote = IF gone THEN q.wrote ELSE q.wrote \cup {d}
  BY <1>5
<1>s. PICK stale \in SUBSET Topics : stale = IF gone THEN q.stale ELSE q.stale \cup (Due \cap {<<t, "row", d>>})
  <2>1. <<t, "row", d>> \in Topics
    BY <1>5 DEF Topics
  <2> QED
    BY <1>5, <2>1
<1>r. PICK r : r = [q EXCEPT !.left = @ \ {d}, !.early = @ \cup {d}, !.wrote = wrote, !.stale = stale]
  OBVIOUS
<1>6. /\ r \in Requests /\ r.pc = "judged" /\ r.op = "assign" /\ r.target = t
      /\ r.seen = q.seen /\ r.post = q.post /\ r.open = q.open /\ r.copy = q.copy /\ r.queue = q.queue
      /\ r.left = q.left \ {d} /\ r.early = q.early \cup {d} /\ r.wrote = wrote /\ r.stale = stale
  BY <1>5, <1>r DEF Requests
<1>7. Step(u, r)
  <2>1. gone = (rows[t][d].id # q.seen[d].id)
    BY <1>4
  <2> QED
    BY <1>3, <1>w, <1>s, <1>r, <2>1
<1>8. /\ req'[u] = r /\ rows' = rows /\ blurred' = blurred
      /\ \A v \in Actors : v # u => req'[v] = req[v]
  BY <1>1, <1>6, <1>7, OneSteps
<1>9. Due' = Due
  <2>1. \A e : e \in Pending' <=> e \in Pending
    BY <1>1, <1>6, <1>8 DEF Pending
  <2> QED
    BY <2>1 DEF Due, TopicsOf
<1>10. /\ q.post[d] # q.seen[d] /\ ~Present(q.post[d]) /\ Present(q.seen[d])
       /\ q.post[d].id = 0 /\ q.seen[d].id # 0
  <2>1. /\ q.post[d] # q.seen[d] /\ (q.post[d].id = 0 => q.post[d] = NoRow)
        /\ q.seen[d].id = 0 => q.seen[d] = NoRow
    BY <1>2, <1>q, <1>5 DEF PostWell
  <2>2. q.post[d].id = 0
    BY <1>3 DEF Present
  <2> QED
    BY <2>1, <2>2 DEF Present
<1>11. PostWell(u)'
  <2>1. /\ \A c \in Departments :
            /\ q.seen[c].id = 0 => q.seen[c] = NoRow
            /\ q.post[c].id = 0 => q.post[c] = NoRow
            /\ RowValid(q, c, q.post[c])
            /\ q.post[c] # q.seen[c] => c \in q.left \cup q.wrote \/ ~Present(q.post[c])
        /\ \A c \in q.left : q.post[c] # q.seen[c]
        /\ \A c \in q.early : ~Present(q.post[c]) /\ Present(q.seen[c])
    BY <1>2, <1>q, <1>5 DEF PostWell
  <2>2. \A c \in Departments : RowValid(r, c, r.post[c])'
    BY <1>6, <2>1 DEF RowValid
  <2>3. \A c \in Departments : r.post[c] # r.seen[c] => c \in r.left \cup r.wrote \/ ~Present(r.post[c])
    BY <1>6, <1>w, <1>10, <2>1
  <2>4. /\ \A c \in r.left : r.post[c] # r.seen[c]
        /\ \A c \in r.early : ~Present(r.post[c]) /\ Present(r.seen[c])
    BY <1>6, <1>10, <2>1
  <2>5. \A c \in Departments : /\ r.seen[c].id = 0 => r.seen[c] = NoRow
                               /\ r.post[c].id = 0 => r.post[c] = NoRow
    BY <1>6, <2>1
  <2> QED
    BY <1>5, <1>6, <1>8, <2>2, <2>3, <2>4, <2>5 DEF PostWell, RowValid
<1>12. QueueWell(u)'
  <2>1. /\ \A e \in ToSet(q.queue) :
              /\ e.user = q.target /\ e.kind \in {"row", "assign"}
              /\ e.kind = "row" => e.department \in q.wrote /\ e.row = q.post[e.department] /\ Present(e.row)
              /\ e.kind # "assign"
        /\ \A c \in q.wrote :
              Present(q.post[c]) => \E e \in ToSet(q.queue) : e.kind = "row" /\ e.department = c
    BY <1>2, <1>q, <1>5 DEF QueueWell
  <2>2. \A e \in ToSet(r.queue) :
              /\ e.user = r.target /\ e.kind \in {"row", "assign"}
              /\ e.kind = "row" => e.department \in r.wrote /\ e.row = r.post[e.department] /\ Present(e.row)
              /\ e.kind # "assign"
    BY <1>5, <1>6, <1>w, <2>1
  <2>3. \A c \in r.wrote :
              Present(r.post[c]) => \E e \in ToSet(r.queue) : e.kind = "row" /\ e.department = c
    BY <1>6, <1>w, <1>10, <2>1
  <2> QED
    BY <1>6, <1>8, <2>2, <2>3 DEF QueueWell
<1>13. DeletionsWell(u)'
  <2>1. /\ \A c \in q.wrote :
            ~Present(q.post[c]) =>
              /\ rows[q.target][c].id = q.seen[c].id
              /\ \/ <<q.target, "row", c>> \in q.stale
                 \/ <<q.target, "row", c>> \notin Due /\ c \in q.early
        /\ \A c \in q.early :
            \/ c \in q.wrote
            \/ rows[q.target][c].id # q.seen[c].id
            \/ <<q.target, "row", c>> \in blurred \cup Due
    BY <1>2, <1>q, <1>5 DEF DeletionsWell
  <2>2. ASSUME NEW c \in r.wrote, ~Present(r.post[c])
        PROVE  /\ rows[r.target][c].id = r.seen[c].id
               /\ \/ <<r.target, "row", c>> \in r.stale
                  \/ <<r.target, "row", c>> \notin Due /\ c \in r.early
    <3>1. CASE c \in q.wrote
      BY <1>5, <1>6, <1>s, <2>1, <2>2, <3>1
    <3>2. CASE c = d /\ ~gone
      <4>1. rows[t][d].id = q.seen[d].id
        BY <1>4, <3>2
      <4>2. <<t, "row", d>> \in stale \/ <<t, "row", d>> \notin Due
        BY <1>s, <3>2
      <4> QED
        BY <1>6, <3>2, <4>1, <4>2
    <3> QED
      BY <1>6, <1>w, <2>2, <3>1, <3>2
  <2>3. ASSUME NEW c \in r.early
        PROVE  \/ c \in r.wrote
               \/ rows[r.target][c].id # r.seen[c].id
               \/ <<r.target, "row", c>> \in blurred \cup Due
    <3>1. CASE c \in q.early
      BY <1>5, <1>6, <1>w, <2>1, <3>1
    <3>2. CASE c = d
      BY <1>4, <1>6, <1>w, <3>2
    <3> QED
      BY <1>6, <2>3, <3>1, <3>2
  <2> QED
    BY <1>8, <1>9, <2>2, <2>3 DEF DeletionsWell
<1>14. \A v \in Actors : v # u /\ req[v].target = r.target => req[v].wrote \cap r.wrote = {}
  <2> TAKE v \in Actors
  <2> HAVE v # u /\ req[v].target = r.target
  <2>1. req[v].wrote \cap q.wrote = {}
    BY <1>q, <1>5, <1>6 DEF AccountsInv, WritesApart
  <2>2. ~gone => d \notin req[v].wrote
    BY <1>3, <1>4, <1>6 DEF Locked
  <2> QED
    BY <1>6, <1>w, <2>1, <2>2
<1> QED
  BY <1>1, <1>2, <1>t, <1>q, <1>6, <1>7, <1>11, <1>12, <1>13, <1>14, StatementKeeps

LEMMA SaveRowKeeps == ASSUME AccountsInv, NEW u \in Actors, SaveRow(u) PROVE AccountsInv'
<1>1. /\ req[u].pc = "judged" /\ req[u].left # {}
      /\ UNCHANGED <<accounts, rows, open, told, blurred, begun, faults>>
  BY DEF SaveRow
<1>2. Assigning(u)
  BY <1>1 DEF AccountsInv, JudgedWell
<1>t. PICK t : t = req[u].target
  OBVIOUS
<1>q. PICK q : q = req[u]
  OBVIOUS
<1>3. PICK d \in q.left :
         /\ Present(q.post[d]) /\ ~Locked(u, t, d)
         /\ Step(u, [q EXCEPT !.left = @ \ {d}, !.wrote = @ \cup {d},
                              !.queue = Append(@, RowEvent(t, d, q.post[d]))])
  BY <1>t, <1>q DEF SaveRow
<1>5. /\ q \in Requests /\ q.op = "assign" /\ q.pc = "judged" /\ q.target = t
      /\ t \in Users /\ q.queue \in Seq(Events)
      /\ q.seen \in [Departments -> Assignments] /\ q.post \in [Departments -> Assignments]
      /\ q.left \in SUBSET Departments /\ q.wrote \in SUBSET Departments
      /\ q.early \in SUBSET Departments /\ q.stale \in SUBSET Topics /\ d \in Departments
      /\ JudgedWell(u) /\ PostWell(u) /\ QueueWell(u) /\ DeletionsWell(u)
  BY <1>1, <1>2, <1>t, <1>q, <1>3, AssigningFields
<1>n. PICK new : new = RowEvent(t, d, q.post[d])
  OBVIOUS
<1>e. new \in Events /\ new.kind = "row" /\ new.user = t /\ new.department = d /\ new.row = q.post[d]
  <2>1. q.post[d] \in Assignments
    BY <1>5
  <2>2. RowEvent(t, d, q.post[d]) \in Events
    BY <1>5, <2>1, EventsTyped
  <2> QED
    BY <1>n, <2>2 DEF RowEvent
<1>o. PICK queue : queue = Append(q.queue, new)
  OBVIOUS
<1>p. queue \in Seq(Events) /\ ToSet(queue) = ToSet(q.queue) \cup {new}
  BY <1>5, <1>e, <1>o, AppendedEvent
<1>r. PICK r : r = [q EXCEPT !.left = @ \ {d}, !.wrote = @ \cup {d}, !.queue = queue]
  OBVIOUS
<1>6. /\ r \in Requests /\ r.pc = "judged" /\ r.op = "assign" /\ r.target = t
      /\ r.seen = q.seen /\ r.post = q.post /\ r.open = q.open /\ r.copy = q.copy /\ r.queue = queue
      /\ r.left = q.left \ {d} /\ r.early = q.early /\ r.wrote = q.wrote \cup {d} /\ r.stale = q.stale
  BY <1>5, <1>p, <1>r DEF Requests
<1>7. Step(u, r)
  BY <1>3, <1>n, <1>o, <1>r
<1>8. /\ req'[u] = r /\ rows' = rows /\ blurred' = blurred
      /\ \A v \in Actors : v # u => req'[v] = req[v]
  BY <1>1, <1>6, <1>7, OneSteps
<1>9. Due' = Due
  <2>1. \A e : e \in Pending' <=> e \in Pending
    BY <1>1, <1>6, <1>8 DEF Pending
  <2> QED
    BY <2>1 DEF Due, TopicsOf
<1>11. PostWell(u)'
  <2>1. /\ \A c \in Departments :
            /\ q.seen[c].id = 0 => q.seen[c] = NoRow
            /\ q.post[c].id = 0 => q.post[c] = NoRow
            /\ RowValid(q, c, q.post[c])
            /\ q.post[c] # q.seen[c] => c \in q.left \cup q.wrote \/ ~Present(q.post[c])
        /\ \A c \in q.left : q.post[c] # q.seen[c]
        /\ \A c \in q.early : ~Present(q.post[c]) /\ Present(q.seen[c])
    BY <1>2, <1>q, <1>5 DEF PostWell
  <2>2. \A c \in Departments : RowValid(r, c, r.post[c])'
    BY <1>6, <2>1 DEF RowValid
  <2>3. \A c \in Departments : r.post[c] # r.seen[c] => c \in r.left \cup r.wrote \/ ~Present(r.post[c])
    BY <1>6, <2>1
  <2>4. /\ \A c \in r.left : r.post[c] # r.seen[c]
        /\ \A c \in r.early : ~Present(r.post[c]) /\ Present(r.seen[c])
    BY <1>6, <2>1
  <2>5. \A c \in Departments : /\ r.seen[c].id = 0 => r.seen[c] = NoRow
                               /\ r.post[c].id = 0 => r.post[c] = NoRow
    BY <1>6, <2>1
  <2> QED
    BY <1>5, <1>6, <1>8, <2>2, <2>3, <2>4, <2>5 DEF PostWell, RowValid
<1>12. QueueWell(u)'
  <2>1. /\ \A e \in ToSet(q.queue) :
              /\ e.user = q.target /\ e.kind \in {"row", "assign"}
              /\ e.kind = "row" => e.department \in q.wrote /\ e.row = q.post[e.department] /\ Present(e.row)
              /\ e.kind # "assign"
        /\ \A c \in q.wrote :
              Present(q.post[c]) => \E e \in ToSet(q.queue) : e.kind = "row" /\ e.department = c
    BY <1>2, <1>q, <1>5 DEF QueueWell
  <2>2. \A e \in ToSet(r.queue) :
              /\ e.user = r.target /\ e.kind \in {"row", "assign"}
              /\ e.kind = "row" => e.department \in r.wrote /\ e.row = r.post[e.department] /\ Present(e.row)
              /\ e.kind # "assign"
    BY <1>3, <1>5, <1>6, <1>e, <1>p, <2>1
  <2>3. \A c \in r.wrote :
              Present(r.post[c]) => \E e \in ToSet(r.queue) : e.kind = "row" /\ e.department = c
    BY <1>6, <1>e, <1>p, <2>1
  <2> QED
    BY <1>6, <1>8, <2>2, <2>3 DEF QueueWell
<1>13. DeletionsWell(u)'
  <2>1. /\ \A c \in q.wrote :
            ~Present(q.post[c]) =>
              /\ rows[q.target][c].id = q.seen[c].id
              /\ \/ <<q.target, "row", c>> \in q.stale
                 \/ <<q.target, "row", c>> \notin Due /\ c \in q.early
        /\ \A c \in q.early :
            \/ c \in q.wrote
            \/ rows[q.target][c].id # q.seen[c].id
            \/ <<q.target, "row", c>> \in blurred \cup Due
    BY <1>2, <1>q, <1>5 DEF DeletionsWell
  <2>2. ASSUME NEW c \in r.wrote, ~Present(r.post[c])
        PROVE  /\ rows[r.target][c].id = r.seen[c].id
               /\ \/ <<r.target, "row", c>> \in r.stale
                  \/ <<r.target, "row", c>> \notin Due /\ c \in r.early
    BY <1>3, <1>5, <1>6, <2>1, <2>2
  <2>3. \A c \in r.early :
           \/ c \in r.wrote
           \/ rows[r.target][c].id # r.seen[c].id
           \/ <<r.target, "row", c>> \in blurred \cup Due
    BY <1>5, <1>6, <2>1
  <2> QED
    BY <1>8, <1>9, <2>2, <2>3 DEF DeletionsWell
<1>14. \A v \in Actors : v # u /\ req[v].target = r.target => req[v].wrote \cap r.wrote = {}
  <2> TAKE v \in Actors
  <2> HAVE v # u /\ req[v].target = r.target
  <2>1. req[v].wrote \cap q.wrote = {}
    BY <1>q, <1>5, <1>6 DEF AccountsInv, WritesApart
  <2>2. d \notin req[v].wrote
    BY <1>3, <1>6 DEF Locked
  <2> QED
    BY <1>6, <2>1, <2>2
<1> QED
  BY <1>1, <1>2, <1>t, <1>q, <1>6, <1>7, <1>11, <1>12, <1>13, <1>14, StatementKeeps

\* What a post of assignments makes of them, row by row.
LEMMA AfterFields ==
    ASSUME AccountsInv, NEW u \in Actors, Assigning(u)
    PROVE  /\ After(req[u]) \in [Departments -> Assignments]
           /\ \A d \in Departments : After(req[u])[d] = IF d \in req[u].wrote THEN req[u].post[d]
                                                        ELSE rows[req[u].target][d]
<1>1. rows[req[u].target] \in [Departments -> Assignments]
  BY AssigningFields DEF AccountsInv, Typed
<1> QED
  BY <1>1, AssigningFields DEF After

LEMMA ReadRowsKeeps == ASSUME AccountsInv, NEW u \in Actors, ReadRows(u) PROVE AccountsInv'
<1>1. /\ req[u].pc = "judged" /\ req[u].op = "assign" /\ req[u].left = {} /\ Assigning(u)
      /\ UNCHANGED <<accounts, rows, open, told, blurred, begun, faults>>
  BY DEF ReadRows, Assigning
<1>t. PICK t : t = req[u].target
  OBVIOUS
<1>q. PICK q : q = req[u]
  OBVIOUS
<1>5. /\ q \in Requests /\ q.op = "assign" /\ q.pc = "judged" /\ q.target = t
      /\ t \in Users /\ q.queue \in Seq(Events) /\ q.left = {}
      /\ q.seen \in [Departments -> Assignments] /\ q.post \in [Departments -> Assignments]
      /\ q.wrote \in SUBSET Departments
      /\ q.early \in SUBSET Departments /\ q.stale \in SUBSET Topics
      /\ JudgedWell(u) /\ PostWell(u) /\ QueueWell(u) /\ DeletionsWell(u)
  BY <1>1, <1>t, <1>q, AssigningFields
<1>a. PICK after \in [Departments -> Assignments] : after = After(q)
  BY <1>1, <1>q, AfterFields
<1>n. PICK new : new = AssignEvent(t, after)
  OBVIOUS
<1>e. /\ new \in Events /\ new.kind = "assign" /\ new.user = t
      /\ new.rows = [d \in Departments |-> Shown(after[d])]
  <2>1. AssignEvent(t, after) \in Events
    BY <1>5, EventsTyped
  <2> QED
    BY <1>n, <2>1 DEF AssignEvent
<1>o. PICK queue : queue = Append(q.queue, new)
  OBVIOUS
<1>p. queue \in Seq(Events) /\ ToSet(queue) = ToSet(q.queue) \cup {new}
  BY <1>5, <1>e, <1>o, AppendedEvent
<1>r. PICK r : r = [q EXCEPT !.pc = "saved", !.queue = queue]
  OBVIOUS
<1>6. /\ r \in Requests /\ r.pc = "saved" /\ r.op = "assign" /\ r.target = t
      /\ r.seen = q.seen /\ r.post = q.post /\ r.open = q.open /\ r.copy = q.copy /\ r.queue = queue
      /\ r.left = {} /\ r.early = q.early /\ r.wrote = q.wrote /\ r.stale = q.stale
  BY <1>5, <1>p, <1>r DEF Requests
<1>7. Step(u, r)
  <2>1. Step(u, [req[u] EXCEPT !.pc = "saved", !.queue = Append(@, AssignEvent(req[u].target, After(req[u])))])
    BY DEF ReadRows
  <2> QED
    BY <2>1, <1>t, <1>q, <1>a, <1>n, <1>o, <1>r
<1>8. /\ req'[u] = r /\ rows' = rows /\ blurred' = blurred
      /\ \A v \in Actors : v # u => req'[v] = req[v]
  BY <1>1, <1>6, <1>7, OneSteps
<1>9. Due' = Due
  <2>1. \A e : e \in Pending' <=> e \in Pending
    BY <1>1, <1>6, <1>8 DEF Pending
  <2> QED
    BY <2>1 DEF Due, TopicsOf
<1>11. PostWell(u)'
  <2>1. \A c \in Departments : RowValid(r, c, r.post[c])'
    BY <1>1, <1>q, <1>5, <1>6 DEF PostWell, RowValid
  <2> QED
    BY <1>1, <1>q, <1>5, <1>6, <1>8, <2>1 DEF PostWell, RowValid
<1>12. QueueWell(u)'
  <2>1. /\ \A e \in ToSet(q.queue) :
              /\ e.user = q.target /\ e.kind \in {"row", "assign"}
              /\ e.kind = "row" => e.department \in q.wrote /\ e.row = q.post[e.department] /\ Present(e.row)
              /\ e.kind # "assign"
        /\ \A c \in q.wrote :
              Present(q.post[c]) => \E e \in ToSet(q.queue) : e.kind = "row" /\ e.department = c
    BY <1>1, <1>q, <1>5 DEF QueueWell
  <2>2. After(r)' = after
    BY <1>a, <1>6, <1>8, <1>5 DEF After
  <2>3. \A e \in ToSet(r.queue) :
              /\ e.user = r.target /\ e.kind \in {"row", "assign"}
              /\ e.kind = "row" => e.department \in r.wrote /\ e.row = r.post[e.department] /\ Present(e.row)
              /\ e.kind = "assign" => r.pc = "saved" /\ e.rows = [d \in Departments |-> Shown(after[d])]
    BY <1>5, <1>6, <1>e, <1>p, <2>1
  <2>4. /\ \A c \in r.wrote :
              Present(r.post[c]) => \E e \in ToSet(r.queue) : e.kind = "row" /\ e.department = c
        /\ \E e \in ToSet(r.queue) : e.kind = "assign"
    BY <1>6, <1>e, <1>p, <2>1
  <2>5. After(req[u])' = after
    BY <1>8, <2>2 DEF After
  <2> QED
    BY <1>8, <2>3, <2>4, <2>5 DEF QueueWell
<1>13. DeletionsWell(u)'
  BY <1>1, <1>q, <1>5, <1>6, <1>8, <1>9 DEF DeletionsWell
<1>14. \A v \in Actors : v # u /\ req[v].target = r.target => req[v].wrote \cap r.wrote = {}
  BY <1>q, <1>5, <1>6 DEF AccountsInv, WritesApart
<1> QED
  BY <1>1, <1>t, <1>q, <1>6, <1>7, <1>11, <1>12, <1>13, <1>14, StatementKeeps

\* A request that has read what another has now changed is the same but for
\* what it tells too late.
LEMMA OvertakenFields ==
    ASSUME NEW r \in Requests, NEW t \in Users
    PROVE  /\ Overtaken(r, t) \in Requests
           /\ Overtaken(r, t).pc = r.pc /\ Overtaken(r, t).op = r.op /\ Overtaken(r, t).target = r.target
           /\ Overtaken(r, t).copy = r.copy /\ Overtaken(r, t).open = r.open /\ Overtaken(r, t).queue = r.queue
           /\ Overtaken(r, t).seen = r.seen /\ Overtaken(r, t).post = r.post /\ Overtaken(r, t).left = r.left
           /\ Overtaken(r, t).wrote = r.wrote /\ Overtaken(r, t).early = r.early
           /\ r.stale \subseteq Overtaken(r, t).stale
           /\ r.pc = "saved" /\ r.target = t => <<t, "assign", "all">> \in Overtaken(r, t).stale
<1>1. CASE r.pc = "saved" /\ r.target = t
  <2> DEFINE o == [r EXCEPT !.stale = @ \cup {<<t, "assign", "all">>}]
  <2>1. <<t, "assign", "all">> \in Topics
    BY DEF Topics
  <2>2. /\ o \in Requests /\ o.pc = r.pc /\ o.op = r.op /\ o.target = r.target /\ o.copy = r.copy
        /\ o.open = r.open /\ o.queue = r.queue /\ o.seen = r.seen /\ o.post = r.post /\ o.left = r.left
        /\ o.wrote = r.wrote /\ o.early = r.early /\ o.stale = r.stale \cup {<<t, "assign", "all">>}
    BY <2>1 DEF Requests
  <2>3. Overtaken(r, t) = o
    BY <1>1 DEF Overtaken
  <2> QED
    BY <2>2, <2>3
<1>2. CASE ~(r.pc = "saved" /\ r.target = t)
  BY <1>2 DEF Overtaken
<1> QED
  BY <1>1, <1>2

\* The log says of some rows of t what it did not.
LEMMA HeardFields ==
    ASSUME Typed, NEW t \in Users, NEW heard \in [Departments -> Assignments],
           told' = [told EXCEPT ![t].signals.rows = heard]
    PROVE  /\ \A v \in Users : v # t => told'[v] = told[v]
           /\ told'[t].signals.active = told[t].signals.active
           /\ told'[t].signals.roles = told[t].signals.roles
           /\ told'[t].signals.rows = heard /\ told'[t].views = told[t].views
           /\ told' \in [Users -> [signals : Signals, views : Views]]
<1> DEFINE now == [signals |-> [told[t].signals EXCEPT !.rows = heard], views |-> told[t].views]
<1>1. /\ told[t] = [signals |-> told[t].signals, views |-> told[t].views]
      /\ told[t].signals \in Signals /\ told[t].views \in Views
  BY DEF Typed
<1>2. told' = [told EXCEPT ![t] = now]
  <2>1. told' = [told EXCEPT ![t] = [told[t] EXCEPT !.signals = [told[t].signals EXCEPT !.rows = heard]]]
    OBVIOUS
  <2>2. [told[t] EXCEPT !.signals = [told[t].signals EXCEPT !.rows = heard]] = now
    BY <1>1
  <2> QED
    BY <2>1, <2>2, Zenon
<1>3. /\ now.signals = [told[t].signals EXCEPT !.rows = heard] /\ now.views = told[t].views
      /\ now = [signals |-> now.signals, views |-> now.views]
  OBVIOUS
<1> HIDE DEF now
<1>4. /\ now.signals.active = told[t].signals.active /\ now.signals.roles = told[t].signals.roles
      /\ now.signals.rows = heard
  BY <1>1, <1>3 DEF Signals
<1>5. now.signals \in Signals
  BY <1>1, <1>3 DEF Signals
<1>6. now \in [signals : Signals, views : Views]
  BY <1>1, <1>3, <1>5
<1>7. told \in [Users -> [signals : Signals, views : Views]]
  BY DEF Typed
<1>8. /\ told' \in [Users -> [signals : Signals, views : Views]] /\ told'[t] = now
      /\ \A v \in Users : v # t => told'[v] = told[v]
  BY <1>2, <1>6, <1>7
<1> QED
  BY <1>3, <1>4, <1>8

LEMMA CommitAssignmentsKeeps ==
    ASSUME AccountsInv, NEW u \in Actors, CommitAssignments(u) PROVE AccountsInv'
<1>1. req[u].pc = "saved" /\ Assigning(u) /\ UNCHANGED <<accounts, open, begun, faults>>
  BY DEF CommitAssignments, AccountsInv, JudgedWell, Assigning
<1>t. PICK t : t = req[u].target
  OBVIOUS
<1>q. PICK q : q = req[u]
  OBVIOUS
<1>E. PICK E : E = ToSet(q.queue)
  OBVIOUS
<1>S. PICK S : S = q.stale
  OBVIOUS
<1>2. /\ q \in Requests /\ q.op = "assign" /\ q.pc = "saved" /\ q.target = t
      /\ t \in Users /\ q.queue \in Seq(Events)
      /\ q.seen \in [Departments -> Assignments] /\ q.post \in [Departments -> Assignments]
      /\ q.wrote \in SUBSET Departments
      /\ q.early \in SUBSET Departments /\ S \in SUBSET Topics
      /\ PostWell(u) /\ QueueWell(u) /\ DeletionsWell(u)
  BY <1>1, <1>t, <1>q, <1>S, AssigningFields
<1>3. PICK after \in [Departments -> Assignments] :
         /\ after = After(q)
         /\ \A d \in Departments : after[d] = IF d \in q.wrote THEN q.post[d] ELSE rows[t][d]
  BY <1>1, <1>t, <1>q, AfterFields
<1>h. PICK heard : heard = [d \in Departments |-> IF d \in q.early /\ told[t].signals.rows[d].id = q.seen[d].id
                                                  THEN NoRow ELSE told[t].signals.rows[d]]
  OBVIOUS
<1>4. heard \in [Departments -> Assignments]
  <2>1. NoRow \in Assignments
    BY BoundsAssumption DEF NoRow, Assignments
  <2>2. told[t].signals.rows \in [Departments -> Assignments]
    BY <1>2 DEF AccountsInv, Typed, Signals
  <2> QED
    BY <1>h, <2>1, <2>2
<1>5. /\ rows' = [rows EXCEPT ![t] = after]
      /\ told' = [told EXCEPT ![t].signals.rows = heard]
      /\ req' = [v \in Actors |-> IF v = u THEN Committed(q.queue)
                                  ELSE IF q.wrote = {} THEN req[v] ELSE Overtaken(req[v], t)]
      /\ blurred' = Blurred(E, S)
  BY <1>t, <1>q, <1>E, <1>S, <1>3, <1>h DEF CommitAssignments
\* The events queued, the rows written and the deletions told.
<1>events. /\ \A e \in E :
                /\ e \in Events /\ e.user = t /\ e.kind \in {"row", "assign"}
                /\ e.kind = "row" => e.department \in q.wrote /\ e.row = q.post[e.department]
                /\ e.kind = "assign" => \/ <<t, "assign", "all">> \in S
                                        \/ e.rows = [d \in Departments |-> Shown(after[d])]
           /\ \A d \in q.wrote : Present(q.post[d]) => \E e \in E : e.kind = "row" /\ e.department = d
           /\ \E e \in E : e.kind = "assign"
  <2>1. E \subseteq Events
    BY <1>2, <1>E DEF ToSet
  <2> QED
    BY <1>1, <1>t, <1>q, <1>E, <1>S, <1>2, <1>3, <2>1 DEF QueueWell
<1>topics. /\ TopicsOf(E) \subseteq Topics
           /\ \A p \in TopicsOf(E) : p = <<t, "assign", "all">> \/ \E d \in q.wrote : p = <<t, "row", d>>
           /\ <<t, "assign", "all">> \in TopicsOf(E)
           /\ \A d \in q.wrote : Present(q.post[d]) => <<t, "row", d>> \in TopicsOf(E)
  <2>1. ASSUME NEW e \in E
        PROVE  /\ Topic(e) \in Topics /\ Topic(e) \in TopicsOf(E)
               /\ e.kind = "row" => Topic(e) = <<t, "row", e.department>> /\ e.department \in q.wrote
               /\ e.kind = "assign" => Topic(e) = <<t, "assign", "all">>
               /\ e.kind \in {"row", "assign"}
    <3>1. /\ e \in Events /\ e.user = t /\ e.kind \in {"row", "assign"}
          /\ e.kind = "row" => e.department \in q.wrote
      BY <1>events
    <3>2. /\ Topic(e) \in Topics
          /\ e.kind # "row" => Topic(e) = <<e.user, e.kind, "all">>
          /\ e.kind = "row" => Topic(e) = <<e.user, "row", e.department>>
      BY <3>1, TopicFields
    <3>3. Topic(e) \in TopicsOf(E)
      BY DEF TopicsOf
    <3> QED
      BY <3>1, <3>2, <3>3
  <2>2. \A p \in TopicsOf(E) : \E e \in E : p = Topic(e)
    BY DEF TopicsOf
  <2> QED
    BY <1>events, <2>1, <2>2
<1>posted. /\ \A d \in Departments : q.post[d].id = 0 => q.post[d] = NoRow
           /\ \A d \in Departments : ~Present(q.post[d]) => q.post[d] = NoRow
  BY <1>1, <1>q, <1>2 DEF PostWell, Present
<1>deleted. /\ \A d \in q.wrote :
                 ~Present(q.post[d]) =>
                   /\ rows[t][d].id = q.seen[d].id
                   /\ <<t, "row", d>> \in S \/ (<<t, "row", d>> \notin Due /\ d \in q.early)
            /\ \A d \in q.early : \/ d \in q.wrote \/ rows[t][d].id # q.seen[d].id
                                  \/ <<t, "row", d>> \in blurred \cup Due
  BY <1>1, <1>t, <1>q, <1>S, <1>2 DEF DeletionsWell
\* The state after.
<1>6. /\ req' \in [Actors -> Requests]
      /\ req'[u].pc = "committed" /\ req'[u].queue = q.queue /\ req'[u].left = {}
      /\ req'[u].wrote = {} /\ req'[u].early = {}
      /\ \A v \in Actors : v # u =>
            /\ req'[v].pc = req[v].pc /\ req'[v].op = req[v].op /\ req'[v].target = req[v].target
            /\ req'[v].copy = req[v].copy /\ req'[v].open = req[v].open /\ req'[v].queue = req[v].queue
            /\ req'[v].seen = req[v].seen /\ req'[v].post = req[v].post /\ req'[v].left = req[v].left
            /\ req'[v].wrote = req[v].wrote /\ req'[v].early = req[v].early
            /\ req[v].stale \subseteq req'[v].stale
            /\ q.wrote # {} /\ req[v].pc = "saved" /\ req[v].target = t
                  => <<t, "assign", "all">> \in req'[v].stale
  <2> DEFINE c == Committed(q.queue)
  <2>1. /\ c \in Requests /\ c.pc = "committed" /\ c.queue = q.queue
        /\ c.left = {} /\ c.wrote = {} /\ c.early = {}
    BY <1>2, NoRequestTyped DEF Committed, NoRequest, Requests
  <2> HIDE DEF c
  <2>2. req'[u] = c /\ \A v \in Actors : v # u =>
           req'[v] = IF q.wrote = {} THEN req[v] ELSE Overtaken(req[v], t)
    BY <1>5 DEF c
  <2>3. \A v \in Actors : req[v] \in Requests
    BY DEF AccountsInv, Typed
  <2>4. \A v \in Actors : v # u /\ q.wrote = {} => req'[v] = req[v]
    BY <2>2
  <2>5. \A v \in Actors : v # u /\ q.wrote # {} => req'[v] = Overtaken(req[v], t)
    BY <2>2
  <2>6. \A v \in Actors : req'[v] \in Requests
    <3> TAKE v \in Actors
    <3>1. Overtaken(req[v], t) \in Requests
      BY <1>2, <2>3, OvertakenFields
    <3> QED
      BY <2>1, <2>2, <2>3, <2>4, <2>5, <3>1
  <2>7. req' = [v \in Actors |-> req'[v]]
    BY <1>5
  <2>8. req' \in [Actors -> Requests]
    BY <2>6, <2>7
  <2>9. ASSUME NEW v \in Actors, v # u
        PROVE  /\ req'[v].pc = req[v].pc /\ req'[v].op = req[v].op /\ req'[v].target = req[v].target
               /\ req'[v].copy = req[v].copy /\ req'[v].open = req[v].open /\ req'[v].queue = req[v].queue
               /\ req'[v].seen = req[v].seen /\ req'[v].post = req[v].post /\ req'[v].left = req[v].left
               /\ req'[v].wrote = req[v].wrote /\ req'[v].early = req[v].early
               /\ req[v].stale \subseteq req'[v].stale
               /\ q.wrote # {} /\ req[v].pc = "saved" /\ req[v].target = t
                     => <<t, "assign", "all">> \in req'[v].stale
    <3>1. CASE q.wrote = {}
      BY <2>4, <2>9, <3>1
    <3>2. CASE q.wrote # {}
      BY <1>2, <2>3, <2>5, <2>9, <3>2, OvertakenFields
    <3> QED
      BY <3>1, <3>2
  <2> QED
    BY <2>1, <2>2, <2>8, <2>9
<1>7. /\ rows' \in [Users -> [Departments -> Assignments]] /\ rows'[t] = after
      /\ \A v \in Users : v # t => rows'[v] = rows[v]
  BY <1>2, <1>5 DEF AccountsInv, Typed
<1>8. /\ \A v \in Users : v # t => told'[v] = told[v]
      /\ told'[t].signals.active = told[t].signals.active
      /\ told'[t].signals.roles = told[t].signals.roles
      /\ told'[t].signals.rows = heard /\ told'[t].views = told[t].views
      /\ told' \in [Users -> [signals : Signals, views : Views]]
  BY <1>2, <1>4, <1>5, HeardFields DEF AccountsInv
<1>9. Pending' = Pending \cup E
  <2>1. \A e : e \in Pending' <=> \E v \in Actors : req'[v].pc = "committed" /\ e \in ToSet(req'[v].queue)
    BY DEF Pending
  <2>2. \A e : e \in Pending' <=> e \in Pending \/ e \in E
    BY <1>1, <1>q, <1>E, <1>6, <2>1, DueTopics
  <2> QED
    BY <2>2
<1>10. /\ Due' = Due \cup TopicsOf(E) /\ S \subseteq blurred'
       /\ \A p \in blurred' : p \in blurred \/ (p \in Due /\ p \in TopicsOf(E)) \/ p \in S
       /\ \A p : p \notin blurred' /\ p \notin TopicsOf(E) => p \notin blurred
       /\ \A p : p \notin blurred' \cup Due' => p \notin blurred \cup Due \cup TopicsOf(E) \cup S
  BY <1>5, <1>9, AfterCommit
<1>11. Typed'
  <2>1. blurred' \subseteq Topics
    BY <1>2, <1>topics, <1>10 DEF AccountsInv, Typed
  <2> QED
    BY <1>1, <1>6, <1>7, <1>8, <2>1 DEF AccountsInv, Typed
<1>12. AbsentRows'
  <2>1. \A d \in Departments : after[d].id = 0 => after[d] = NoRow
    BY <1>2, <1>3, <1>posted DEF AccountsInv, AbsentRows
  <2> QED
    BY <1>7, <2>1 DEF AccountsInv, AbsentRows
<1>13. WritesApart'
  <2> SUFFICES ASSUME NEW v \in Actors, NEW w \in Actors, v # w, req'[v].target = req'[w].target
               PROVE  req'[v].wrote \cap req'[w].wrote = {}
    BY DEF WritesApart
  <2>1. CASE v = u \/ w = u
    BY <1>6, <2>1
  <2>2. CASE v # u /\ w # u
    BY <1>6, <2>2 DEF AccountsInv, WritesApart
  <2> QED
    BY <2>1, <2>2
<1>14. \A v \in Actors : v # u => (Assigning(v)' <=> Assigning(v))
  BY <1>6 DEF Assigning
<1>15. ~Assigning(u)'
  BY <1>6 DEF Assigning
<1>16. RowsApart'
  <2>1. ASSUME NEW n \in 1..MaxRequests, NEW v \in Users, NEW d \in Departments, Known(n, v, d)'
        PROVE  Known(n, v, d)
    <3>1. CASE rows'[v][d].id = n
      <4>1. CASE v = t /\ d \in q.wrote
        <5>1. req[u].post[d].id = n
          BY <1>3, <1>7, <1>q, <3>1, <4>1
        <5> QED
          BY <1>1, <1>t, <4>1, <5>1 DEF Known, Seen
      <4>2. CASE ~(v = t /\ d \in q.wrote)
        BY <1>3, <1>7, <3>1, <4>2 DEF Known
      <4> QED
        BY <4>1, <4>2
    <3>2. CASE \E w \in Actors : Seen(w, n, v, d)'
      <4>1. PICK w \in Actors : Seen(w, n, v, d)'
        BY <3>2
      <4>2. w # u
        BY <1>15, <4>1 DEF Seen
      <4>3. Seen(w, n, v, d)
        BY <1>6, <1>14, <4>1, <4>2 DEF Seen
      <4> QED
        BY <4>3 DEF Known
    <3> QED
      BY <2>1, <3>1, <3>2 DEF Known
  <2>2. begun' \in 0..MaxRequests /\ begun' >= begun
    BY <1>1 DEF AccountsInv, Typed
  <2> QED
    BY <2>1, <2>2, ApartKept
<1>17. JudgedWell(u)' /\ PostWell(u)' /\ QueueWell(u)' /\ DeletionsWell(u)'
  BY <1>6, <1>15 DEF JudgedWell, PostWell, QueueWell, DeletionsWell
<1>18. ASSUME NEW v \in Actors, v # u
       PROVE  JudgedWell(v)' /\ PostWell(v)' /\ QueueWell(v)' /\ DeletionsWell(v)'
  <2>1. JudgedWell(v)'
    BY <1>6, <1>14, <1>18 DEF AccountsInv, JudgedWell
  <2>2. PostWell(v)'
    BY <1>6, <1>14, <1>18 DEF AccountsInv, PostWell, RowValid
  <2> SUFFICES ASSUME Assigning(v) PROVE QueueWell(v)' /\ DeletionsWell(v)'
    BY <1>14, <1>18, <2>1, <2>2 DEF QueueWell, DeletionsWell
  <2>r. PICK r : r = req[v]
    OBVIOUS
  <2>n. PICK n : n = req'[v]
    OBVIOUS
  <2>3. /\ r.target \in Users /\ r.wrote \in SUBSET Departments /\ r.early \in SUBSET Departments
        /\ r.seen \in [Departments -> Assignments] /\ r.post \in [Departments -> Assignments]
        /\ PostWell(v) /\ QueueWell(v) /\ DeletionsWell(v)
    BY <2>r, AssigningFields
  <2>4. /\ n.pc = r.pc /\ n.target = r.target /\ n.queue = r.queue /\ n.seen = r.seen /\ n.post = r.post
        /\ n.wrote = r.wrote /\ n.early = r.early /\ r.stale \subseteq n.stale
        /\ q.wrote # {} /\ r.pc = "saved" /\ r.target = t => <<t, "assign", "all">> \in n.stale
    BY <1>6, <1>18, <2>r, <2>n
  <2>5. r.target = t => r.wrote \cap q.wrote = {}
    BY <1>18, <1>t, <1>q, <2>r DEF AccountsInv, WritesApart
  \* Its own rows, and all rows unless u has written some of the same user.
  <2>6. /\ \A d \in r.wrote : rows'[r.target][d] = rows[r.target][d]
        /\ \A d \in Departments : rows'[r.target][d] # rows[r.target][d] => r.target = t /\ d \in q.wrote
    BY <1>3, <1>7, <2>3, <2>5
  <2>7. QueueWell(v)'
    <3>w. PICK was : was = After(r)
      OBVIOUS
    <3>1. /\ \A e \in ToSet(r.queue) :
                /\ e.user = r.target /\ e.kind \in {"row", "assign"}
                /\ e.kind = "row" => /\ e.department \in r.wrote
                                     /\ e.row = r.post[e.department] /\ Present(e.row)
                /\ e.kind = "assign" =>
                      /\ r.pc = "saved"
                      /\ \/ <<r.target, "assign", "all">> \in r.stale
                         \/ e.rows = [d \in Departments |-> Shown(was[d])]
          /\ \A d \in r.wrote :
                Present(r.post[d]) => \E e \in ToSet(r.queue) : e.kind = "row" /\ e.department = d
          /\ r.pc = "saved" => \E e \in ToSet(r.queue) : e.kind = "assign"
      BY <2>r, <2>3, <3>w DEF QueueWell
    <3>s. PICK shown : shown = [d \in Departments |-> Shown(was[d])]
      OBVIOUS
    <3>a. PICK now : now = After(n)'
      OBVIOUS
    <3>2. r.pc = "saved" => <<r.target, "assign", "all">> \in n.stale \/ now = was
      <4>1. CASE r.target = t /\ q.wrote # {}
        BY <2>4, <4>1
      <4>2. CASE r.target # t \/ q.wrote = {}
        <5>1. \A d \in Departments : rows'[r.target][d] = rows[r.target][d]
          BY <2>6, <4>2
        <5> QED
          BY <2>4, <3>a, <3>w, <5>1 DEF After
      <4> QED
        BY <4>1, <4>2
    <3>3. /\ \A e \in ToSet(n.queue) :
                /\ e.user = n.target /\ e.kind \in {"row", "assign"}
                /\ e.kind = "row" => /\ e.department \in n.wrote
                                     /\ e.row = n.post[e.department] /\ Present(e.row)
                /\ e.kind = "assign" =>
                      /\ n.pc = "saved"
                      /\ \/ <<n.target, "assign", "all">> \in n.stale
                         \/ e.rows = [d \in Departments |-> Shown(now[d])]
          /\ \A d \in n.wrote :
                Present(n.post[d]) => \E e \in ToSet(n.queue) : e.kind = "row" /\ e.department = d
          /\ n.pc = "saved" => \E e \in ToSet(n.queue) : e.kind = "assign"
      <4>1. ASSUME NEW e \in ToSet(n.queue)
            PROVE  /\ e.user = n.target /\ e.kind \in {"row", "assign"}
                   /\ e.kind = "row" => /\ e.department \in n.wrote
                                        /\ e.row = n.post[e.department] /\ Present(e.row)
                   /\ e.kind = "assign" =>
                         /\ n.pc = "saved"
                         /\ \/ <<n.target, "assign", "all">> \in n.stale
                            \/ e.rows = [d \in Departments |-> Shown(now[d])]
        <5>1. e \in ToSet(r.queue)
          BY <2>4
        <5>2. /\ e.user = r.target /\ e.kind \in {"row", "assign"}
              /\ e.kind = "row" => /\ e.department \in r.wrote
                                   /\ e.row = r.post[e.department] /\ Present(e.row)
              /\ e.kind = "assign" => /\ r.pc = "saved"
                                      /\ <<r.target, "assign", "all">> \in r.stale \/ e.rows = shown
          BY <3>1, <3>s, <5>1
        <5>3. r.pc = "saved" =>
                 <<r.target, "assign", "all">> \in n.stale \/ shown = [d \in Departments |-> Shown(now[d])]
          BY <3>2, <3>s, Zenon
        <5> QED
          BY <2>4, <5>2, <5>3
      <4> QED
        BY <2>4, <3>1, <4>1
    <3>4. After(req[v])' = now
      BY <2>n, <3>a DEF After
    <3> QED
      BY <2>n, <3>3, <3>4 DEF QueueWell
  <2>8. DeletionsWell(v)'
    <3>1. /\ \A d \in r.wrote :
                ~Present(r.post[d]) =>
                  /\ rows[r.target][d].id = r.seen[d].id
                  /\ \/ <<r.target, "row", d>> \in r.stale
                     \/ <<r.target, "row", d>> \notin Due /\ d \in r.early
          /\ \A d \in r.early : \/ d \in r.wrote
                                \/ rows[r.target][d].id # r.seen[d].id
                                \/ <<r.target, "row", d>> \in blurred \cup Due
          /\ \A d \in r.early : Present(r.seen[d])
      BY <2>r, <2>3 DEF DeletionsWell, PostWell
    <3>2. \A d \in r.wrote : <<r.target, "row", d>> \notin TopicsOf(E)
      BY <1>topics, <2>5
    <3>3. \A d \in n.wrote :
             ~Present(n.post[d]) =>
               /\ rows'[n.target][d].id = n.seen[d].id
               /\ \/ <<n.target, "row", d>> \in n.stale
                  \/ <<n.target, "row", d>> \notin Due' /\ d \in n.early
      BY <1>10, <2>4, <2>6, <3>1, <3>2
    <3>4. ASSUME NEW d \in n.early
          PROVE  \/ d \in n.wrote
                 \/ rows'[n.target][d].id # n.seen[d].id
                 \/ <<n.target, "row", d>> \in blurred' \cup Due'
      <4>1. d \in r.early /\ d \in Departments
        BY <2>3, <2>4
      <4>2. <<r.target, "row", d>> \in blurred \cup Due => <<r.target, "row", d>> \in blurred' \cup Due'
        BY <1>10
      <4>3. CASE rows'[r.target][d] = rows[r.target][d]
        BY <2>4, <3>1, <4>1, <4>2, <4>3
      <4>4. CASE rows'[r.target][d] # rows[r.target][d]
        <5>1. r.target = t /\ d \in q.wrote /\ rows'[t][d] = q.post[d]
          BY <1>3, <1>7, <2>6, <4>1, <4>4
        <5>2. CASE Present(q.post[d])
          BY <1>topics, <1>10, <2>4, <5>1, <5>2
        <5>3. CASE ~Present(q.post[d])
          BY <2>4, <3>1, <4>1, <5>1, <5>3 DEF Present
        <5> QED
          BY <5>2, <5>3
      <4> QED
        BY <4>3, <4>4
    <3> QED
      BY <2>n, <3>3, <3>4 DEF DeletionsWell
  <2> QED
    BY <2>7, <2>8
<1>19. ViewOf(t)'.rows = [d \in Departments |-> Shown(after[d])]
  BY <1>7 DEF ViewOf
<1>20. \A e \in E : Topic(e) \notin S => Agrees(e)'
  <2> TAKE e \in E
  <2> HAVE Topic(e) \notin S
  <2>1. CASE e.kind = "row"
    <3>1. e.user = t /\ e.department \in q.wrote /\ e.row = q.post[e.department]
      BY <1>events, <2>1
    <3>2. rows'[e.user][e.department] = e.row
      BY <1>2, <1>3, <1>7, <3>1
    <3> QED
      BY <2>1, <3>2 DEF Agrees
  <2>2. CASE e.kind = "assign"
    <3>1. Topic(e) = <<t, "assign", "all">>
      <4>1. e \in Events /\ e.user = t
        BY <1>events
      <4> QED
        BY <2>2, <4>1, TopicFields
    <3> QED
      BY <1>19, <1>events, <2>2, <3>1 DEF Agrees
  <2> QED
    BY <1>events, <2>1, <2>2
<1>21. ASSUME NEW e \in Pending, Agrees(e), Topic(e) \notin TopicsOf(E) \cup S
       PROVE  Agrees(e)'
  <2>1. e \in Events /\ e.user \in Users /\ e.kind \in {"active", "roles", "account", "row", "assign"}
    BY PendingTyped, EventFields DEF AccountsInv
  <2>2. CASE e.kind = "row"
    <3>1. Topic(e) = <<e.user, "row", e.department>> /\ e.department \in Departments /\ Topic(e) \in Due
      BY <2>1, <2>2, TopicFields, EventFields, DueTopics
    <3>2. ~(e.user = t /\ e.department \in q.wrote)
      BY <1>21, <1>topics, <1>deleted, <3>1
    <3>3. rows'[e.user][e.department] = rows[e.user][e.department]
      BY <1>3, <1>7, <2>1, <3>1, <3>2
    <3> QED
      BY <1>21, <2>2, <3>3 DEF Agrees
  <2>3. CASE e.kind = "assign"
    <3>1. e.user # t
      BY <1>21, <1>topics, <2>1, <2>3, TopicFields
    <3>2. ViewOf(e.user)'.rows = ViewOf(e.user).rows
      BY <1>7, <2>1, <3>1 DEF ViewOf
    <3> QED
      BY <1>21, <2>3, <3>2 DEF Agrees
  <2>4. CASE e.kind \in {"active", "roles", "account"}
    BY <1>1, <1>21, <2>4 DEF Agrees
  <2> QED
    BY <2>1, <2>2, <2>3, <2>4
<1>22. \A e \in Pending' : Topic(e) \notin blurred' => Agrees(e)'
  BY <1>5, <1>9, <1>20, <1>21, AgreeAfterCommit DEF AccountsInv
<1>23. ASSUME NEW v \in Users
       PROVE  Awaited(v)'
  <2>1. Awaited(v)
    BY DEF AccountsInv, LogInv
  <2>2. /\ told'[v].signals.active = told[v].signals.active /\ told'[v].signals.roles = told[v].signals.roles
        /\ told'[v].views = told[v].views /\ accounts'[v] = accounts[v]
    BY <1>1, <1>8
  <2>3. /\ <<v, "active", "all">> \notin blurred' \cup Due' => told'[v].signals.active = accounts'[v].active
        /\ <<v, "account", "all">> \notin blurred' \cup Due' =>
             told'[v].views.roles = accounts'[v].roles /\ (told'[v].views.active => accounts'[v].active)
    BY <1>10, <2>1, <2>2 DEF Awaited
  <2>4. ASSUME <<v, "roles", "all">> \notin blurred', NEW g \in Roles
        PROVE  (g \in told'[v].signals.roles <=> g \in accounts'[v].roles)
                  \/ \E e \in Pending' : e.kind = "roles" /\ e.user = v /\ g \in e.add \cup e.remove
    <3>1. <<v, "roles", "all">> \notin blurred
      BY <1>topics, <1>10, <2>4
    <3> QED
      BY <1>9, <2>1, <2>2, <3>1 DEF Awaited
  <2>5. <<v, "assign", "all">> \notin blurred' \cup Due' => told'[v].views.rows = ViewOf(v)'.rows
    <3>1. CASE v = t
      BY <1>topics, <1>10, <3>1
    <3>2. CASE v # t
      <4>1. ViewOf(v)'.rows = ViewOf(v).rows
        BY <1>7, <3>2 DEF ViewOf
      <4> QED
        BY <1>10, <2>1, <2>2, <4>1 DEF Awaited
    <3> QED
      BY <3>1, <3>2
  <2>6. ASSUME NEW d \in Departments, <<v, "row", d>> \notin blurred' \cup Due'
        PROVE  told'[v].signals.rows[d] = rows'[v][d]
    <3>1. /\ <<v, "row", d>> \notin blurred \cup Due /\ <<v, "row", d>> \notin TopicsOf(E) \cup S
          /\ told[v].signals.rows[d] = rows[v][d]
      BY <1>10, <2>1, <2>6 DEF Awaited
    <3>2. CASE v # t
      BY <1>7, <1>8, <3>1, <3>2
    <3>3. CASE v = t
      <4>1. told'[t].signals.rows[d] = IF d \in q.early /\ rows[t][d].id = q.seen[d].id
                                       THEN NoRow ELSE rows[t][d]
        BY <1>8, <1>h, <3>1, <3>3
      <4>2. CASE d \in q.wrote
        <5>1. ~Present(q.post[d])
          BY <1>topics, <3>1, <3>3, <4>2
        <5>2. rows'[t][d] = NoRow
          BY <1>3, <1>7, <1>posted, <4>2, <5>1
        <5>3. rows[t][d].id = q.seen[d].id /\ d \in q.early
          BY <1>deleted, <3>1, <3>3, <4>2, <5>1
        <5> QED
          BY <3>3, <4>1, <5>2, <5>3
      <4>3. CASE d \notin q.wrote
        <5>1. rows'[t][d] = rows[t][d]
          BY <1>3, <1>7, <4>3
        <5>2. ~(d \in q.early /\ rows[t][d].id = q.seen[d].id)
          BY <1>deleted, <3>1, <3>3, <4>3
        <5> QED
          BY <3>3, <4>1, <5>1, <5>2
      <4> QED
        BY <4>2, <4>3
    <3> QED
      BY <3>2, <3>3
  <2> QED
    BY <2>3, <2>4, <2>5, <2>6 DEF Awaited
<1>24. LogInv'
  BY <1>22, <1>23 DEF LogInv
<1> QED
  BY <1>11, <1>12, <1>13, <1>16, <1>17, <1>18, <1>24 DEF AccountsInv

-----------------------------------------------------------------------------
(* The events are written, lost or forgotten.                               *)

\* A request in the middle of its queue of events.
LEMMA WaitingFields ==
    ASSUME AccountsInv, NEW u \in Actors, Waiting(u)
    PROVE  /\ req[u] \in Requests /\ req[u].pc = "committed" /\ ~Assigning(u)
           /\ req[u].queue \in Seq(Events)
           /\ Head(req[u].queue) \in Events /\ Head(req[u].queue).user \in Users
           /\ Head(req[u].queue) \in Pending /\ Topic(Head(req[u].queue)) \in Due
           /\ Tail(req[u].queue) \in Seq(Events)
           /\ ToSet(req[u].queue) = {Head(req[u].queue)} \cup ToSet(Tail(req[u].queue))
<1>1. /\ req[u] \in Requests /\ req[u].pc = "committed" /\ ~Assigning(u) /\ req[u].queue # <<>>
      /\ req[u].queue \in Seq(Events)
  BY DEF AccountsInv, Typed, Waiting, Assigning, Requests
<1>2. /\ Head(req[u].queue) \in Events /\ Tail(req[u].queue) \in Seq(Events)
      /\ Head(req[u].queue) \in ToSet(req[u].queue)
      /\ ToSet(req[u].queue) = {Head(req[u].queue)} \cup ToSet(Tail(req[u].queue))
  BY <1>1, FirstEvent
<1>3. Head(req[u].queue) \in Pending
  BY <1>1, <1>2, DueTopics
<1> QED
  BY <1>1, <1>2, <1>3, EventFields, DueTopics

\* An event that is written settles what it tells, if it tells it right.
LEMMA Settles ==
    ASSUME AccountsInv, NEW e \in Pending, NEW t \in Users, Pending \subseteq Pending' \cup {e},
           told' = [told EXCEPT ![e.user] = Told(e)], UNCHANGED <<accounts, rows, blurred>>
    PROVE  Awaited(t)'
<1>1. e \in Events /\ e.user \in Users
  BY PendingTyped, EventFields DEF AccountsInv
<1>o. PICK old \in [signals : Signals, views : Views] : old = told[t]
  BY DEF AccountsInv, Typed
<1>n. PICK now : now = told'[t]
  OBVIOUS
<1>2. e.user # t => now = old
  BY <1>1, <1>o, <1>n DEF AccountsInv, Typed
<1>3. e.user = t =>
        /\ now.signals.active = IF e.kind = "active" THEN e.active ELSE old.signals.active
        /\ now.signals.roles = IF e.kind = "roles" THEN (old.signals.roles \ e.remove) \cup e.add
                                                   ELSE old.signals.roles
        /\ \A d \in Departments :
              now.signals.rows[d] = IF e.kind = "row" /\ e.department = d THEN e.row
                                                                          ELSE old.signals.rows[d]
        /\ now.views.active = IF e.kind = "account" THEN e.active ELSE old.views.active
        /\ now.views.roles = IF e.kind = "account" THEN e.roles ELSE old.views.roles
        /\ now.views.rows = IF e.kind = "assign" THEN e.rows ELSE old.views.rows
  <2> SUFFICES ASSUME e.user = t PROVE now = Told(e)
    BY <1>1, <1>o, ToldFields
  <2> QED
    BY <1>n DEF AccountsInv, Typed
<1>4. Topic(e) \notin blurred =>
        /\ e.kind = "active" => e.active = accounts[e.user].active
        /\ e.kind = "roles" => e.add \subseteq accounts[e.user].roles /\ e.remove \cap accounts[e.user].roles = {}
        /\ e.kind = "row" => e.row = rows[e.user][e.department]
        /\ e.kind = "account" => (e.active => accounts[e.user].active) /\ e.roles = accounts[e.user].roles
        /\ e.kind = "assign" => e.rows = ViewOf(e.user).rows
  BY DEF AccountsInv, LogInv, Agrees
<1>5. /\ e.kind # "row" => Topic(e) = <<e.user, e.kind, "all">>
      /\ e.kind = "row" => Topic(e) = <<e.user, "row", e.department>>
  BY <1>1, TopicFields
<1>6. \A p : p \notin blurred \cup Due' => p \notin blurred \cup Due \/ (p = Topic(e) /\ p \notin blurred)
  BY DEF Due, TopicsOf
<1>7. Awaited(t) /\ accounts' = accounts /\ rows' = rows /\ ViewOf(t)' = ViewOf(t)
  BY DEF AccountsInv, LogInv, ViewOf
<1>8. ASSUME <<t, "active", "all">> \notin blurred \cup Due'
      PROVE  now.signals.active = accounts[t].active
  <2>1. CASE e.user = t /\ e.kind = "active"
    BY <1>3, <1>4, <1>5, <1>8, <2>1
  <2>2. CASE ~(e.user = t /\ e.kind = "active")
    <3>1. Topic(e) # <<t, "active", "all">>
      BY <1>1, <2>2, TopicFields
    <3> QED
      BY <1>o, <1>2, <1>3, <1>6, <1>7, <1>8, <2>2, <3>1 DEF Awaited
  <2> QED
    BY <2>1, <2>2
<1>9. ASSUME <<t, "roles", "all">> \notin blurred, NEW g \in Roles
      PROVE  (g \in now.signals.roles <=> g \in accounts[t].roles)
                \/ \E x \in Pending' : x.kind = "roles" /\ x.user = t /\ g \in x.add \cup x.remove
  <2>1. CASE e.user = t /\ e.kind = "roles" /\ g \in e.add \cup e.remove
    BY <1>3, <1>4, <1>5, <1>9, <2>1
  <2>2. CASE ~(e.user = t /\ e.kind = "roles" /\ g \in e.add \cup e.remove)
    <3>1. g \in now.signals.roles <=> g \in old.signals.roles
      BY <1>2, <1>3, <2>2
    <3>2. \/ g \in old.signals.roles <=> g \in accounts[t].roles
          \/ \E x \in Pending : x.kind = "roles" /\ x.user = t /\ g \in x.add \cup x.remove
      BY <1>o, <1>7, <1>9 DEF Awaited
    <3> QED
      BY <2>2, <3>1, <3>2
  <2> QED
    BY <2>1, <2>2
<1>10. ASSUME NEW d \in Departments, <<t, "row", d>> \notin blurred \cup Due'
       PROVE  now.signals.rows[d] = rows[t][d]
  <2>1. CASE e.user = t /\ e.kind = "row" /\ e.department = d
    BY <1>3, <1>4, <1>5, <1>10, <2>1
  <2>2. CASE ~(e.user = t /\ e.kind = "row" /\ e.department = d)
    <3>1. Topic(e) # <<t, "row", d>>
      BY <1>1, <2>2, TopicFields
    <3>2. old.signals.rows[d] = rows[t][d]
      BY <1>o, <1>6, <1>7, <1>10, <3>1 DEF Awaited
    <3> QED
      BY <1>2, <1>3, <2>2, <3>2
  <2> QED
    BY <2>1, <2>2
<1>11. ASSUME <<t, "account", "all">> \notin blurred \cup Due'
       PROVE  now.views.roles = accounts[t].roles /\ (now.views.active => accounts[t].active)
  <2>1. CASE e.user = t /\ e.kind = "account"
    BY <1>3, <1>4, <1>5, <1>11, <2>1
  <2>2. CASE ~(e.user = t /\ e.kind = "account")
    <3>1. Topic(e) # <<t, "account", "all">>
      BY <1>1, <2>2, TopicFields
    <3>2. old.views.roles = accounts[t].roles /\ (old.views.active => accounts[t].active)
      BY <1>o, <1>6, <1>7, <1>11, <3>1 DEF Awaited
    <3> QED
      BY <1>2, <1>3, <2>2, <3>2
  <2> QED
    BY <2>1, <2>2
<1>12. ASSUME <<t, "assign", "all">> \notin blurred \cup Due'
       PROVE  now.views.rows = ViewOf(t).rows
  <2>1. CASE e.user = t /\ e.kind = "assign"
    BY <1>3, <1>4, <1>5, <1>12, <2>1
  <2>2. CASE ~(e.user = t /\ e.kind = "assign")
    <3>1. Topic(e) # <<t, "assign", "all">>
      BY <1>1, <2>2, TopicFields
    <3>2. old.views.rows = ViewOf(t).rows
      BY <1>o, <1>6, <1>7, <1>12, <3>1 DEF Awaited
    <3> QED
      BY <1>2, <1>3, <2>2, <3>2
  <2> QED
    BY <2>1, <2>2
<1> QED
  BY <1>n, <1>7, <1>8, <1>9, <1>10, <1>11, <1>12 DEF Awaited

LEMMA WriteEventKeeps ==
    ASSUME AccountsInv, NEW u \in Actors, WriteEvent(u) PROVE AccountsInv'
<1>e. PICK e : e = Head(req[u].queue)
  OBVIOUS
<1>r. PICK queue : queue = Tail(req[u].queue)
  OBVIOUS
<1>1. /\ req[u] \in Requests /\ req[u].pc = "committed"
      /\ e \in Events /\ e.user \in Users /\ e \in Pending /\ Topic(e) \in Due
      /\ queue \in Seq(Events) /\ ToSet(req[u].queue) = {e} \cup ToSet(queue)
  BY <1>e, <1>r, WaitingFields DEF WriteEvent
<1>2. /\ told' = [told EXCEPT ![e.user] = Told(e)]
      /\ req' = [v \in Actors |-> IF v = u THEN [req[u] EXCEPT !.queue = queue]
                                  ELSE [req[v] EXCEPT !.early = @ \ Superseded(req[v], e)]]
      /\ UNCHANGED <<accounts, rows, open, blurred, begun, faults>>
  BY <1>e, <1>r DEF WriteEvent
<1>3. /\ req'[u] \in Requests /\ req'[u].pc = "committed" /\ req'[u].queue = queue
      /\ req'[u].op = req[u].op /\ req'[u].left = req[u].left /\ req'[u].wrote = req[u].wrote
      /\ req'[u].early = req[u].early /\ req'[u].target = req[u].target
  BY <1>1, <1>2 DEF Requests
<1>4. ASSUME NEW v \in Actors, v # u
      PROVE  /\ req'[v] \in Requests
             /\ req'[v].pc = req[v].pc /\ req'[v].op = req[v].op /\ req'[v].target = req[v].target
             /\ req'[v].copy = req[v].copy /\ req'[v].open = req[v].open /\ req'[v].queue = req[v].queue
             /\ req'[v].seen = req[v].seen /\ req'[v].post = req[v].post /\ req'[v].left = req[v].left
             /\ req'[v].wrote = req[v].wrote /\ req'[v].stale = req[v].stale
             /\ req'[v].early = req[v].early \ Superseded(req[v], e)
  <2>1. req[v] \in Requests
    BY DEF AccountsInv, Typed
  <2>2. req'[v] = [req[v] EXCEPT !.early = @ \ Superseded(req[v], e)]
    BY <1>2, <1>4
  <2> QED
    BY <2>1, <2>2 DEF Requests
<1>5. req' \in [Actors -> Requests]
  <2>1. req' = [v \in Actors |-> req'[v]]
    BY <1>2
  <2>2. \A v \in Actors : req'[v] \in Requests
    BY <1>3, <1>4
  <2> QED
    BY <2>1, <2>2
<1>6. told' \in [Users -> [signals : Signals, views : Views]]
  <2>1. told \in [Users -> [signals : Signals, views : Views]]
    BY DEF AccountsInv, Typed
  <2>2. PICK old \in [signals : Signals, views : Views] : old = told[e.user]
    BY <1>1, <2>1
  <2>3. Told(e) \in [signals : Signals, views : Views]
    BY <1>1, <2>2, ToldFields
  <2> QED
    BY <1>1, <1>2, <2>1, <2>3
<1>7. Typed'
  BY <1>2, <1>5, <1>6 DEF AccountsInv, Typed
<1>8. Pending' \subseteq Pending /\ Pending \subseteq Pending' \cup {e}
  <2>1. \A x : x \in Pending' <=> \E v \in Actors : req'[v].pc = "committed" /\ x \in ToSet(req'[v].queue)
    BY DEF Pending
  <2> QED
    BY <1>1, <1>3, <1>4, <2>1, DueTopics
<1>9. Due' \subseteq Due /\ \A p \in Due : p = Topic(e) \/ p \in Due'
  BY <1>8 DEF Due, TopicsOf
<1>10. LogInv'
  <2>1. \A x \in Pending' : Topic(x) \notin blurred' => Agrees(x)'
    BY <1>2, <1>8 DEF AccountsInv, LogInv, Agrees, ViewOf
  <2>2. \A t \in Users : Awaited(t)'
    BY <1>1, <1>2, <1>8, Settles
  <2> QED
    BY <2>1, <2>2 DEF LogInv
<1>11. ~Assigning(u)' /\ \A v \in Actors : v # u => (Assigning(v)' <=> Assigning(v))
  BY <1>3, <1>4 DEF Assigning
<1>12. JudgedWell(u)' /\ PostWell(u)' /\ QueueWell(u)' /\ DeletionsWell(u)'
  <2>1. JudgedWell(u) /\ ~Assigning(u)
    BY <1>1 DEF AccountsInv, Assigning
  <2> QED
    BY <1>3, <1>11, <2>1 DEF JudgedWell, PostWell, QueueWell, DeletionsWell
<1>13. ASSUME NEW v \in Actors, v # u
       PROVE  JudgedWell(v)' /\ PostWell(v)' /\ QueueWell(v)' /\ DeletionsWell(v)'
  <2>1. JudgedWell(v)'
    BY <1>4, <1>11, <1>13 DEF AccountsInv, JudgedWell
  <2>2. PostWell(v)'
    BY <1>4, <1>11, <1>13 DEF AccountsInv, PostWell, RowValid
  <2>3. QueueWell(v)'
    <3>1. After(req[v])' = After(req[v])
      BY <1>2, <1>4, <1>13 DEF After
    <3> QED
      BY <1>4, <1>11, <1>13, <3>1 DEF AccountsInv, QueueWell
  <2>4. DeletionsWell(v)'
    <3> SUFFICES ASSUME Assigning(v) PROVE DeletionsWell(v)'
      BY <1>11, <1>13 DEF DeletionsWell
    <3>r. PICK r : r = req[v]
      OBVIOUS
    <3>n. PICK n : n = req'[v]
      OBVIOUS
    <3>1. /\ \A d \in r.wrote :
                ~Present(r.post[d]) =>
                  /\ rows[r.target][d].id = r.seen[d].id
                  /\ \/ <<r.target, "row", d>> \in r.stale
                     \/ <<r.target, "row", d>> \notin Due /\ d \in r.early
          /\ \A d \in r.early : \/ d \in r.wrote
                                \/ rows[r.target][d].id # r.seen[d].id
                                \/ <<r.target, "row", d>> \in blurred \cup Due
      BY <3>r DEF AccountsInv, DeletionsWell
    <3>2. /\ n.target = r.target /\ n.seen = r.seen /\ n.post = r.post /\ n.wrote = r.wrote
          /\ n.stale = r.stale /\ n.early = r.early \ Superseded(r, e)
      BY <1>4, <1>13, <3>r, <3>n
    <3>3. \A d \in Superseded(r, e) : Topic(e) = <<r.target, "row", d>>
      BY DEF Superseded, Topic
    <3>4. \A d \in n.wrote :
             ~Present(n.post[d]) =>
               /\ rows'[n.target][d].id = n.seen[d].id
               /\ \/ <<n.target, "row", d>> \in n.stale
                  \/ <<n.target, "row", d>> \notin Due' /\ d \in n.early
      BY <1>1, <1>2, <1>9, <3>1, <3>2, <3>3
    <3>5. ASSUME NEW d \in n.early
          PROVE  \/ d \in n.wrote
                 \/ rows'[n.target][d].id # n.seen[d].id
                 \/ <<n.target, "row", d>> \in blurred' \cup Due'
      <4>1. CASE Topic(e) # <<r.target, "row", d>>
        BY <1>2, <1>9, <3>1, <3>2, <4>1
      <4>2. CASE Topic(e) = <<r.target, "row", d>> /\ Topic(e) \notin blurred
        <5>1. e.user = r.target /\ e.kind = "row" /\ e.department = d
          BY <1>1, <4>2, TopicFields
        <5>2. e.row = rows[r.target][d]
          BY <1>1, <4>2, <5>1 DEF AccountsInv, LogInv, Agrees
        <5>3. e.row.id # r.seen[d].id
          BY <3>2, <5>1 DEF Superseded
        <5> QED
          BY <1>2, <3>2, <5>2, <5>3
      <4>3. CASE Topic(e) = <<r.target, "row", d>> /\ Topic(e) \in blurred
        BY <1>2, <3>2, <4>3
      <4> QED
        BY <4>1, <4>2, <4>3
    <3> QED
      BY <3>n, <3>4, <3>5 DEF DeletionsWell
  <2> QED
    BY <2>1, <2>2, <2>3, <2>4
<1>14. WritesApart'
  <2>1. \A v \in Actors : req'[v].target = req[v].target /\ req'[v].wrote = req[v].wrote
    BY <1>3, <1>4
  <2> QED
    BY <2>1 DEF AccountsInv, WritesApart
<1>15. RowsApart'
  <2>1. ASSUME NEW n \in 1..MaxRequests, NEW t \in Users, NEW d \in Departments
        PROVE  Known(n, t, d)' => Known(n, t, d)
    <3>1. \A v \in Actors : Seen(v, n, t, d)' => Seen(v, n, t, d)
      BY <1>4, <1>11 DEF Seen
    <3> QED
      BY <1>2, <3>1 DEF Known
  <2>2. begun' \in 0..MaxRequests /\ begun' >= begun
    BY <1>2 DEF AccountsInv, Typed
  <2> QED
    BY <2>1, <2>2, ApartKept
<1>16. AbsentRows'
  BY <1>2 DEF AccountsInv, AbsentRows
<1> QED
  BY <1>7, <1>10, <1>12, <1>13, <1>14, <1>15, <1>16 DEF AccountsInv

LEMMA LossesKeep ==
    ASSUME AccountsInv, NEW u \in Actors, LoseEvent(u) \/ Crash(u) PROVE AccountsInv'
<1>1. /\ Waiting(u) /\ Fault /\ UNCHANGED <<accounts, rows, open, told, begun>>
      /\ req[u] \in Requests /\ req[u].pc = "committed" /\ ~Assigning(u)
      /\ Head(req[u].queue) \in Events /\ Tail(req[u].queue) \in Seq(Events)
      /\ ToSet(req[u].queue) = {Head(req[u].queue)} \cup ToSet(Tail(req[u].queue))
      /\ req[u].queue \in Seq(Events)
  BY WaitingFields DEF LoseEvent, Crash
<1>2. ToSet(req[u].queue) \subseteq Events
  BY <1>1 DEF ToSet
\* The events that are lost, and the request that goes on without them.
<1>3. PICK r \in Requests, lost \in SUBSET ToSet(req[u].queue) :
         /\ Step(u, r) /\ r.pc \in {"idle", "committed"}
         /\ r.left = {} /\ r.wrote = {} /\ r.early = {}
         /\ blurred' = blurred \cup TopicsOf(lost)
         /\ \A e \in ToSet(r.queue) : r.pc = "committed" /\ e \in ToSet(req[u].queue)
         /\ \A e \in ToSet(req[u].queue) : e \in lost \/ (r.pc = "committed" /\ e \in ToSet(r.queue))
  <2>1. CASE LoseEvent(u)
    <3> DEFINE r == [req[u] EXCEPT !.queue = Tail(@)]
               lost == {Head(req[u].queue)}
    <3>1. req[u].left = {} /\ req[u].wrote = {} /\ req[u].early = {}
      BY <1>1 DEF AccountsInv, JudgedWell
    <3>2. /\ r \in Requests /\ r.pc = "committed" /\ r.queue = Tail(req[u].queue)
          /\ r.left = {} /\ r.wrote = {} /\ r.early = {}
      BY <1>1, <3>1 DEF Requests
    <3>3. Step(u, r) /\ blurred' = blurred \cup TopicsOf(lost)
      BY <2>1 DEF LoseEvent, TopicsOf
    <3>4. lost \in SUBSET ToSet(req[u].queue)
      BY <1>1
    <3> HIDE DEF r, lost
    <3>5. /\ \A e \in ToSet(r.queue) : e \in ToSet(req[u].queue)
          /\ \A e \in ToSet(req[u].queue) : e \in lost \/ e \in ToSet(r.queue)
      BY <1>1, <3>2 DEF lost
    <3> QED
      BY <3>2, <3>3, <3>4, <3>5
  <2>2. CASE Crash(u)
    <3>1. /\ Step(u, NoRequest) /\ blurred' = blurred \cup TopicsOf(ToSet(req[u].queue))
          /\ ToSet(NoRequest.queue) = {}
      BY <2>2, NoRequestTyped, NoEvent DEF Crash
    <3> QED
      BY <3>1, NoRequestTyped
  <2> QED
    BY <2>1, <2>2
<1>4. /\ req' \in [Actors -> Requests] /\ req'[u] = r
      /\ \A v \in Actors : v # u => req'[v] = req[v]
  BY <1>3, OneSteps
<1>5. TopicsOf(lost) \subseteq Topics
  BY <1>2, <1>3, TopicFields DEF TopicsOf
<1>6. Typed'
  <2>1. faults' \in 0..MaxFaults
    BY <1>1, BoundsAssumption DEF Fault, AccountsInv, Typed
  <2> QED
    BY <1>1, <1>3, <1>4, <1>5, <2>1 DEF AccountsInv, Typed
<1>7. Pending' \subseteq Pending /\ \A e \in Pending : e \in Pending' \/ e \in lost
  <2>1. \A x : x \in Pending' <=> \E v \in Actors : req'[v].pc = "committed" /\ x \in ToSet(req'[v].queue)
    BY DEF Pending
  <2> QED
    BY <1>1, <1>3, <1>4, <2>1, DueTopics
<1>8. /\ Due' \subseteq Due /\ blurred \subseteq blurred'
      /\ \A p : p \notin blurred' \cup Due' => p \notin blurred \cup Due
      /\ \A e \in Pending : e \in Pending' \/ Topic(e) \in blurred'
  BY <1>3, <1>7 DEF Due, TopicsOf
<1>9. LogInv'
  <2>1. \A e \in Pending' : Topic(e) \notin blurred' => Agrees(e)'
    BY <1>1, <1>7, <1>8 DEF AccountsInv, LogInv, Agrees, ViewOf
  <2>2. ASSUME NEW t \in Users PROVE Awaited(t)'
    <3>1. Awaited(t) /\ ViewOf(t)' = ViewOf(t)
      BY <1>1 DEF AccountsInv, LogInv, ViewOf
    <3>2. ASSUME <<t, "roles", "all">> \notin blurred', NEW g \in Roles
          PROVE  (g \in told[t].signals.roles <=> g \in accounts[t].roles)
                    \/ \E e \in Pending' : e.kind = "roles" /\ e.user = t /\ g \in e.add \cup e.remove
      <4>1. \/ g \in told[t].signals.roles <=> g \in accounts[t].roles
            \/ \E e \in Pending : e.kind = "roles" /\ e.user = t /\ g \in e.add \cup e.remove
        BY <1>8, <3>1, <3>2 DEF Awaited
      <4>2. \A e \in Pending : e.kind = "roles" /\ e.user = t => Topic(e) = <<t, "roles", "all">>
        BY DEF Topic
      <4> QED
        BY <1>8, <3>2, <4>1, <4>2
    <3> QED
      BY <1>1, <1>8, <3>1, <3>2 DEF Awaited
  <2> QED
    BY <2>1, <2>2 DEF LogInv
<1>10. ~Assigning(u)'
  BY <1>3, <1>4 DEF Assigning
<1>11. JudgedWell(u)' /\ PostWell(u)' /\ QueueWell(u)' /\ DeletionsWell(u)'
  BY <1>3, <1>4, <1>10 DEF JudgedWell, PostWell, QueueWell, DeletionsWell
<1>12. ASSUME NEW v \in Actors, v # u
       PROVE  JudgedWell(v)' /\ PostWell(v)' /\ QueueWell(v)' /\ DeletionsWell(v)'
  <2>1. req[v] \in Requests /\ req'[v] = req[v] /\ rows' = rows
    BY <1>1, <1>4, <1>12 DEF AccountsInv, Typed
  <2>2. \A t \in Users, d \in Departments :
          /\ <<t, "row", d>> \in Due' => <<t, "row", d>> \in Due
          /\ <<t, "row", d>> \in blurred \cup Due => <<t, "row", d>> \in blurred' \cup Due'
    BY <1>8
  <2> QED
    BY <2>1, <2>2, UntouchedKept DEF AccountsInv
<1>13. WritesApart'
  BY <1>3, <1>4 DEF AccountsInv, WritesApart
<1>14. RowsApart'
  <2>1. \A n \in 1..MaxRequests, t \in Users, d \in Departments : Known(n, t, d)' => Known(n, t, d)
    BY <1>1, <1>4, <1>10 DEF Known, Seen, Assigning
  <2>2. begun' \in 0..MaxRequests /\ begun' >= begun
    BY <1>1 DEF AccountsInv, Typed
  <2> QED
    BY <2>1, <2>2, ApartKept
<1>15. AbsentRows'
  BY <1>1 DEF AccountsInv, AbsentRows
<1> QED
  BY <1>6, <1>9, <1>11, <1>12, <1>13, <1>14, <1>15 DEF AccountsInv

-----------------------------------------------------------------------------
Acts(u) ==
    \/ LoadNew(u) \/ LoadUser(u) \/ LoadOwn(u) \/ LoadAssignments(u) \/ LoadDepartment(u)
    \/ SaveNew(u) \/ SaveUser(u) \/ SaveProfile(u) \/ ChangePassword(u)
    \/ DeleteRow(u) \/ SaveRow(u) \/ ReadRows(u) \/ CommitAssignments(u) \/ SaveDepartment(u)
    \/ WriteEvent(u) \/ LoseEvent(u) \/ Answer(u) \/ Abandon(u) \/ Crash(u)

LEMMA AccountsInvStep == AccountsInv /\ [Next]_vars => AccountsInv'
<1> SUFFICES ASSUME AccountsInv, [Next]_vars PROVE AccountsInv'
  OBVIOUS
<1>1. CASE UNCHANGED vars
  <2>1. /\ accounts' = accounts /\ rows' = rows /\ open' = open /\ req' = req /\ told' = told
        /\ blurred' = blurred /\ begun' = begun /\ faults' = faults
    BY <1>1 DEF vars
  <2>2. Typed' /\ AbsentRows' /\ WritesApart'
    BY <2>1 DEF AccountsInv, Typed, AbsentRows, WritesApart
  <2>3. Pending' = Pending /\ Due' = Due
    BY <2>1 DEF Pending, Due
  <2>4. RowsApart'
    <3>1. \A n \in 1..MaxRequests, t \in Users, d \in Departments : Known(n, t, d)' => Known(n, t, d)
      BY <2>1 DEF Known, Seen, Assigning
    <3>2. begun' \in 0..MaxRequests /\ begun' >= begun
      BY <2>1 DEF AccountsInv, Typed
    <3> QED
      BY <3>1, <3>2, ApartKept
  <2>5. ASSUME NEW v \in Actors PROVE JudgedWell(v)' /\ PostWell(v)' /\ QueueWell(v)' /\ DeletionsWell(v)'
    <3>1. req[v] \in Requests /\ req'[v] = req[v]
      BY <2>1 DEF AccountsInv, Typed
    <3> QED
      BY <2>1, <2>3, <3>1, UntouchedKept DEF AccountsInv
  <2> QED
    BY <2>1, <2>2, <2>3, <2>4, <2>5, LogKept DEF AccountsInv
<1>2. CASE Next
  <2>1. PICK u \in Actors : Acts(u)
    BY <1>2 DEF Next, Acts
  <2> QED
    BY <2>1, LoadsKeep, LoadAssignmentsKeeps, SaveNewKeeps, SaveUserKeeps, SaveOwnKeeps, DeleteRowKeeps,
       SaveRowKeeps, ReadRowsKeeps, CommitAssignmentsKeeps, SaveDepartmentKeeps, WriteEventKeeps,
       LossesKeep, EndsKeep DEF Acts
<1> QED
  BY <1>1, <1>2

LEMMA AccountsInvAlways == Spec => []AccountsInv
  BY AccountsInvInit, AccountsInvStep, PTL DEF Spec

-----------------------------------------------------------------------------
(* The invariants.                                                          *)

\* Types hold, and no two assignments are one row: a row is given a number
\* that no row has had, and whoever inserts a deleted row again puts it back
\* in its place.
THEOREM RowsAreApart == Spec => []TypeOK
<1>1. AccountsInv => TypeOK
  <2> SUFFICES ASSUME AccountsInv PROVE TypeOK
    OBVIOUS
  <2>1. ASSUME NEW t \in Users, NEW v \in Users, NEW d \in Departments, NEW e \in Departments,
               Present(rows[t][d]), rows[t][d].id = rows[v][e].id
        PROVE  t = v /\ d = e
    <3>1. rows[t][d].id \in 1..MaxRequests
      BY <2>1, BoundsAssumption DEF AccountsInv, Typed, Assignments, Present
    <3>2. Known(rows[t][d].id, t, d) /\ Known(rows[t][d].id, v, e)
      BY <2>1 DEF Known
    <3> QED
      BY <3>1, <3>2 DEF AccountsInv, RowsApart
  <2> QED
    BY <2>1 DEF AccountsInv, Typed, TypeOK
<1> QED
  BY <1>1, AccountsInvAlways, PTL

\* The audit log, read in order, tells of each topic what the rows are, but for
\* topics with an event still to be written and those blurred by two requests
\* that told them at a time, or by a lost event, and not told anew since.
THEOREM LogTellsRowsAlways == Spec => []LogTellsRows
<1>1. AccountsInv => LogTellsRows
  <2> SUFFICES ASSUME AccountsInv, NEW t \in Users
               PROVE  LET unclear == blurred \cup Due
                      IN  /\ <<t, "active", "all">> \notin unclear => told[t].signals.active = accounts[t].active
                          /\ <<t, "roles", "all">> \notin unclear => told[t].signals.roles = accounts[t].roles
                          /\ \A d \in Departments :
                                <<t, "row", d>> \notin unclear => told[t].signals.rows[d] = rows[t][d]
                          /\ <<t, "account", "all">> \notin unclear =>
                                told[t].views.roles = accounts[t].roles
                                  /\ (told[t].views.active => accounts[t].active)
                          /\ <<t, "assign", "all">> \notin unclear => told[t].views.rows = ViewOf(t).rows
    BY DEF LogTellsRows
  <2>1. Awaited(t)
    BY DEF AccountsInv, LogInv
  <2>2. told[t].signals.roles \in SUBSET Roles /\ accounts[t].roles \in SUBSET Roles
    <3>1. told[t].signals \in Signals
      BY DEF AccountsInv, Typed
    <3> QED
      BY <3>1, AccountFields DEF Signals
  <2>3. ASSUME <<t, "roles", "all">> \notin blurred \cup Due
        PROVE  told[t].signals.roles = accounts[t].roles
    <3>1. \A e \in Pending : ~(e.kind = "roles" /\ e.user = t)
      <4>1. \A e \in Pending : e.kind = "roles" /\ e.user = t => Topic(e) = <<t, "roles", "all">>
        BY DEF Topic
      <4> QED
        BY <2>3, <4>1, DueTopics
    <3>2. \A g \in Roles : g \in told[t].signals.roles <=> g \in accounts[t].roles
      BY <2>1, <2>3, <3>1 DEF Awaited
    <3> QED
      BY <2>2, <3>2
  <2> QED
    BY <2>1, <2>3 DEF Awaited
<1> QED
  BY <1>1, AccountsInvAlways, PTL

-----------------------------------------------------------------------------
(* The action properties.                                                   *)

\* A request that saves moves from judged to committed.
LEMMA SavesNow ==
    ASSUME AccountsInv, NEW u \in Actors, NEW op, NEW t, Saving(u, op), req[u].target = t,
           NEW events \in Seq(Events), Commit(u, events)
    PROVE  Saves(u, op, t)
<1>1. req[u].pc = "judged" /\ req[u].op = op
  BY DEF Saving
<1>2. req'[u].pc = "committed"
  BY <1>1, CommitSteps
<1> QED
  BY <1>1, <1>2 DEF Saves

\* A step of one request leaves the others where they are.
LEMMA OthersWait ==
    ASSUME AccountsInv, NEW u \in Actors, Acts(u), NEW v \in Actors, v # u
    PROVE  req'[v].pc = req[v].pc /\ req'[v].op = req[v].op
<1>1. req[v] \in Requests /\ DOMAIN req = Actors
  BY DEF AccountsInv, Typed
<1>2. CASE \E r : Step(u, r)
  BY <1>1, <1>2 DEF Step
<1>3. CASE WriteEvent(u)
  <2>1. req'[v] = [req[v] EXCEPT !.early = @ \ Superseded(req[v], Head(req[u].queue))]
    BY <1>3 DEF WriteEvent
  <2> QED
    BY <1>1, <2>1 DEF Requests
<1>4. CASE CommitAssignments(u)
  <2>1. req[u].target \in Users
    BY <1>4, AssigningFields DEF CommitAssignments, AccountsInv, JudgedWell, Assigning
  <2>2. req'[v] = req[v] \/ req'[v] = Overtaken(req[v], req[u].target)
    BY <1>4 DEF CommitAssignments
  <2>3. /\ Overtaken(req[v], req[u].target).pc = req[v].pc
        /\ Overtaken(req[v], req[u].target).op = req[v].op
    BY <1>1, <2>1, OvertakenFields
  <2> QED
    BY <2>2, <2>3
<1> QED
  BY <1>2, <1>3, <1>4
     DEF Acts, LoadNew, LoadUser, LoadOwn, LoadAssignments, LoadDepartment, Judged, Commit, SaveNew, SaveUser,
         SaveProfile, ChangePassword, DeleteRow, SaveRow, ReadRows, SaveDepartment, LoseEvent, Answer,
         Abandon, Crash

THEOREM OverwritesExplainedAlways == Spec => OverwritesExplained
<1> DEFINE Explained(t) ==
              Exists(t) =>
                /\ accounts'[t].roles # accounts[t].roles => \E u \in Actors : Saves(u, "user", t)
                /\ accounts'[t].active # accounts[t].active =>
                      \/ \E u \in Actors : Saves(u, "user", t)
                      \/ t \in Actors /\ req[t].copy.active /\ (Saves(t, "profile", t) \/ Saves(t, "password", t))
                /\ accounts'[t].secret # accounts[t].secret =>
                      \/ t \in Actors /\ Saves(t, "password", t)
                      \/ \E u \in Actors : req[u].copy.secret = accounts'[t].secret
                                             /\ (Saves(u, "user", t) \/ Saves(u, "profile", t))
<1>1. ASSUME AccountsInv, Next, NEW t \in Users
      PROVE  Explained(t)
  <2>1. PICK u \in Actors : Acts(u)
    BY <1>1 DEF Next, Acts
  <2>2. DOMAIN accounts = Users /\ u \in Users
    BY <1>1, UsersAssumption DEF AccountsInv, Typed
  <2>3. CASE accounts' = accounts
    BY <2>3
  <2>4. CASE SaveNew(u)
    <3>1. ~Exists(req[u].target) /\ \E a : accounts' = [accounts EXCEPT ![req[u].target] = a]
      BY <2>4 DEF SaveNew
    <3>2. t # req[u].target => accounts'[t] = accounts[t]
      BY <2>2, <3>1
    <3> QED
      BY <3>1, <3>2
  <2>5. CASE SaveUser(u)
    <3>1. PICK active \in BOOLEAN, roles \in SUBSET Roles :
             /\ accounts' = [accounts EXCEPT ![req[u].target] = UserFormSaves(req[u].copy, active, roles)]
             /\ Commit(u, <<ActiveEvent(req[u].target, active)>>
                            \o RoleEvents(req[u].target, accounts[req[u].target].roles, roles)
                            \o <<AccountEvent(req[u].target, UserFormSaves(req[u].copy, active, roles))>>)
      BY <2>5 DEF SaveUser
    <3>2. Saving(u, "user") /\ req[u].copy \in Accounts /\ req[u].target \in Users
      BY <1>1, <2>5 DEF SaveUser, Saving, AccountsInv, JudgedWell
    <3>a. PICK a : a = UserFormSaves(req[u].copy, active, roles)
      OBVIOUS
    <3>3. /\ a \in Accounts /\ a.active = active /\ a.roles = roles
          /\ a.secret = req[u].copy.secret /\ accounts[req[u].target].roles \in SUBSET Roles
      BY <1>1, <3>a, <3>2, AccountFields DEF UserFormSaves, Accounts
    <3>ev. PICK events : events = EventsOf(req[u].target, accounts[req[u].target].roles, a, a)
      OBVIOUS
    <3>4. accounts' = [accounts EXCEPT ![req[u].target] = a] /\ Commit(u, events)
      BY <3>1, <3>a, <3>ev, <3>3 DEF EventsOf
    <3>5. events \in Seq(Events)
      BY <3>2, <3>3, <3>ev, UserEvents
    <3>6. Saves(u, "user", req[u].target)
      BY <1>1, <3>2, <3>4, <3>5, SavesNow
    <3>7. CASE t = req[u].target
      <4>1. accounts'[t].secret = req[u].copy.secret
        BY <2>2, <3>3, <3>4, <3>7
      <4> QED
        BY <3>6, <3>7, <4>1
    <3>8. CASE t # req[u].target
      BY <2>2, <3>4, <3>8
    <3> QED
      BY <3>7, <3>8
  <2>6. CASE SaveProfile(u) \/ ChangePassword(u)
    <3>1. PICK op \in {"profile", "password"}, secret \in Secrets :
             /\ Saving(u, op) /\ Commit(u, <<ActiveEvent(u, req[u].copy.active)>>)
             /\ accounts' = [accounts EXCEPT ![u] =
                               [req[u].copy EXCEPT !.roles = accounts[u].roles, !.secret = secret]]
             /\ op = "profile" => secret = req[u].copy.secret
      <4>1. CASE SaveProfile(u)
        <5>1. req[u].copy \in Accounts
          BY <1>1, <4>1 DEF SaveProfile, Saving, AccountsInv, JudgedWell
        <5>2. [req[u].copy EXCEPT !.roles = accounts[u].roles]
                 = [req[u].copy EXCEPT !.roles = accounts[u].roles, !.secret = req[u].copy.secret]
          BY <5>1 DEF Accounts
        <5>3. req[u].copy.secret \in Secrets
          BY <5>1 DEF Accounts
        <5> QED
          BY <4>1, <5>2, <5>3 DEF SaveProfile
      <4>2. CASE ChangePassword(u)
        BY <4>2 DEF ChangePassword
      <4> QED
        BY <2>6, <4>1, <4>2
    <3>2. req[u].target = u /\ req[u].copy \in Accounts /\ req[u].copy.active
      BY <1>1, <3>1 DEF Saving, AccountsInv, JudgedWell
    <3>3. <<ActiveEvent(u, req[u].copy.active)>> \in Seq(Events)
      BY <2>2, <3>2, OwnEvents
    <3>4. Saves(u, op, u)
      BY <1>1, <3>1, <3>2, <3>3, SavesNow
    <3>5. CASE t = u
      <4>1. accounts'[t].roles = accounts[t].roles /\ accounts'[t].secret = secret
        BY <2>2, <3>1, <3>2, <3>5 DEF Accounts
      <4> QED
        BY <3>1, <3>2, <3>4, <3>5, <4>1
    <3>6. CASE t # u
      BY <2>2, <3>1, <3>6
    <3> QED
      BY <3>5, <3>6
  <2> QED
    BY <2>1, <2>3, <2>4, <2>5, <2>6
       DEF Acts, LoadNew, LoadUser, LoadOwn, LoadAssignments, LoadDepartment, DeleteRow, SaveRow, ReadRows,
           CommitAssignments, SaveDepartment, WriteEvent, LoseEvent, Answer, Abandon, Crash
<1>2. AccountsInv /\ [Next]_vars => [\A t \in Users : Explained(t)]_vars
  BY <1>1
<1> QED
  BY <1>2, AccountsInvAlways, PTL DEF Spec, OverwritesExplained

\* The assignments that a save leaves were judged by what the request had read,
\* but for rows that it does not write and others have changed since.
THEOREM AssignmentsJudgedAlways == Spec => AssignmentsJudged
<1> DEFINE Good(u, t) ==
              Saves(u, "assign", t) =>
                \A d \in Departments :
                    LET row == rows'[t][d]
                    IN  Present(row) => \/ d \in req[u].open /\ (row.on => req[u].copy.active)
                                        \/ /\ d \notin req[u].wrote /\ row = rows[t][d]
                                           /\ row = req[u].seen[d] => ~Present(req[u].post[d])
<1>1. ASSUME AccountsInv, Next, NEW u \in Actors, NEW t \in Users
      PROVE  Good(u, t)
  <2> SUFFICES ASSUME Saves(u, "assign", t), NEW d \in Departments, Present(rows'[t][d])
               PROVE  \/ d \in req[u].open /\ (rows'[t][d].on => req[u].copy.active)
                      \/ /\ d \notin req[u].wrote /\ rows'[t][d] = rows[t][d]
                         /\ rows'[t][d] = req[u].seen[d] => ~Present(req[u].post[d])
    OBVIOUS
  <2>1. /\ req[u].pc # "committed" /\ req'[u].pc = "committed" /\ req[u].op = "assign"
        /\ req[u].target = t
    BY DEF Saves
  <2>2. PICK v \in Actors : Acts(v)
    BY <1>1 DEF Next, Acts
  <2>3. v = u
    BY <1>1, <2>1, <2>2, OthersWait
  <2>4. CASE CommitAssignments(u)
    <3>1. req[u].pc = "saved" /\ Assigning(u)
      BY <2>1, <2>4 DEF CommitAssignments, Assigning
    <3>2. /\ \A c \in Departments :
               /\ RowValid(req[u], c, req[u].post[c])
               /\ req[u].post[c] # req[u].seen[c] => c \in req[u].wrote \/ ~Present(req[u].post[c])
          /\ req[u].wrote \in SUBSET Departments
      BY <1>1, <3>1, AssigningFields DEF PostWell
    <3>3. After(req[u])[d] = IF d \in req[u].wrote THEN req[u].post[d] ELSE rows[t][d]
      BY <1>1, <2>1, <3>1, AfterFields
    <3>4. rows'[t][d] = After(req[u])[d]
      BY <1>1, <2>1, <2>4 DEF CommitAssignments, AccountsInv, Typed
    <3>5. CASE d \in req[u].wrote
      BY <3>2, <3>3, <3>4, <3>5 DEF RowValid
    <3>6. CASE d \notin req[u].wrote
      <4>1. rows'[t][d] = rows[t][d]
        BY <3>3, <3>4, <3>6
      <4>2. CASE ~Present(req[u].post[d]) \/ rows[t][d] # req[u].seen[d]
        BY <3>6, <4>1, <4>2
      <4>3. CASE Present(req[u].post[d]) /\ rows[t][d] = req[u].seen[d]
        <5>1. rows'[t][d] = req[u].post[d]
          BY <3>2, <3>6, <4>1, <4>3
        <5> QED
          BY <3>2, <4>3, <5>1 DEF RowValid
      <4> QED
        BY <4>2, <4>3
    <3> QED
      BY <3>5, <3>6
  <2>5. CASE ~CommitAssignments(u)
    <3>1. req[u] \in Requests /\ req \in [Actors -> Requests]
      BY <1>1 DEF AccountsInv, Typed
    <3>2. \A r : Step(u, r) => req'[u] = r
      BY <3>1 DEF Step
    <3>3. CASE Answer(u) \/ Abandon(u) \/ Crash(u)
      BY <2>1, <3>2, <3>3, NoRequestTyped DEF Answer, Abandon, Crash
    <3>4. CASE DeleteRow(u) \/ SaveRow(u)
      <4>1. req[u].pc = "judged"
        BY <3>4 DEF DeleteRow, SaveRow
      <4>2. req'[u].pc = req[u].pc
        <5>1. CASE DeleteRow(u)
          <6>1. PICK e, w, x :
                   Step(u, [req[u] EXCEPT !.left = @ \ {e}, !.early = @ \cup {e}, !.wrote = w, !.stale = x])
            BY <5>1 DEF DeleteRow
          <6>2. req'[u] = [req[u] EXCEPT !.left = @ \ {e}, !.early = @ \cup {e}, !.wrote = w, !.stale = x]
            BY <3>2, <6>1
          <6> QED
            BY <3>1, <6>2 DEF Requests
        <5>2. CASE SaveRow(u)
          <6>1. PICK e, q :
                   Step(u, [req[u] EXCEPT !.left = @ \ {e}, !.wrote = @ \cup {e}, !.queue = q])
            BY <5>2 DEF SaveRow
          <6>2. req'[u] = [req[u] EXCEPT !.left = @ \ {e}, !.wrote = @ \cup {e}, !.queue = q]
            BY <3>2, <6>1
          <6> QED
            BY <3>1, <6>2 DEF Requests
        <5> QED
          BY <3>4, <5>1, <5>2
      <4> QED
        BY <2>1, <4>1, <4>2
    <3>5. CASE ReadRows(u)
      <4>1. PICK q : Step(u, [req[u] EXCEPT !.pc = "saved", !.queue = q])
        BY <3>5 DEF ReadRows
      <4>2. req'[u] = [req[u] EXCEPT !.pc = "saved", !.queue = q]
        BY <3>2, <4>1
      <4>3. req'[u].pc = "saved"
        BY <3>1, <4>2 DEF Requests
      <4> QED
        BY <2>1, <4>3
    <3>6. CASE LoadNew(u) \/ LoadUser(u) \/ LoadOwn(u) \/ LoadDepartment(u) \/ LoadAssignments(u)
      <4>1. /\ \A op, t2 : Judged(u, op, t2) => req'[u].pc = "judged"
            /\ LoadDepartment(u) \/ LoadAssignments(u) => req'[u].pc = "judged"
        BY <3>2 DEF Judged, LoadDepartment, LoadAssignments, NoRequest
      <4> QED
        BY <2>1, <3>6, <4>1 DEF LoadNew, LoadUser, LoadOwn
    <3>7. ~(SaveNew(u) \/ SaveUser(u) \/ SaveProfile(u) \/ ChangePassword(u) \/ SaveDepartment(u)
              \/ WriteEvent(u) \/ LoseEvent(u))
      BY <2>1 DEF Saving, SaveNew, SaveUser, SaveProfile, ChangePassword, SaveDepartment, WriteEvent, LoseEvent, Waiting
    <3> QED
      BY <2>2, <2>3, <2>5, <3>3, <3>4, <3>5, <3>6, <3>7 DEF Acts
  <2> QED
    BY <2>4, <2>5
<1>2. AccountsInv /\ [Next]_vars => [\A u \in Actors, t \in Users : Good(u, t)]_vars
  BY <1>1
<1> QED
  BY <1>2, AccountsInvAlways, PTL DEF Spec, AssignmentsJudged

\* Once there is no manager of users, and none who could come back by a request
\* in progress, there never will be.
THEOREM LockoutIsFinalAlways == Spec => LockoutIsFinal
<1>1. ASSUME AccountsInv, LockedOut, Next
      PROVE  LockedOut'
  <2>1. PICK v \in Actors : Acts(v)
    BY <1>1 DEF Next, Acts
  <2>2. \A u \in Actors : u # v => req'[u].pc = req[u].pc /\ req'[u].op = req[u].op
    BY <1>1, <2>1, OthersWait
  <2>3. ~LoadNew(v) /\ ~LoadUser(v)
    BY <1>1 DEF LockedOut, LoadNew, LoadUser, MayManageUsers
  <2>4. ~SaveNew(v) /\ ~SaveUser(v)
    BY <1>1 DEF LockedOut, SaveNew, SaveUser, Saving
  <2>5. \A u \in Actors : ~HasRole(u, UserManagers)
    BY <1>1 DEF LockedOut
  <2>6. DOMAIN accounts = Users /\ Actors \subseteq Users /\ req \in [Actors -> Requests]
    BY <1>1, UsersAssumption DEF AccountsInv, Typed
  <2>7. \A r : Step(v, r) => req'[v] = r
    BY <2>6 DEF Step
  <2>8. /\ \A u \in Actors : ~HasRole(u, UserManagers)'
        /\ \A u \in Actors : accounts'[u].roles = accounts[u].roles
    <3>1. CASE accounts' = accounts
      BY <2>5, <3>1 DEF HasRole
    <3>2. CASE SaveProfile(v) \/ ChangePassword(v)
      <4>1. /\ req[v].pc = "judged" /\ req[v].op \in {"profile", "password"} /\ req[v].copy \in Accounts
        BY <1>1, <3>2 DEF SaveProfile, ChangePassword, Saving, AccountsInv, JudgedWell
      <4>2. accounts[v].roles \cap UserManagers = {}
        BY <1>1, <4>1 DEF LockedOut
      <4>3. accounts'[v].roles = accounts[v].roles
        <5>1. CASE SaveProfile(v)
          <6>1. accounts'[v] = [req[v].copy EXCEPT !.roles = accounts[v].roles]
            BY <2>6, <5>1 DEF SaveProfile
          <6> QED
            BY <4>1, <6>1 DEF Accounts
        <5>2. CASE ChangePassword(v)
          <6>1. PICK secret \in Secrets :
                   accounts' = [accounts EXCEPT ![v] =
                                  [req[v].copy EXCEPT !.roles = accounts[v].roles, !.secret = secret]]
            BY <5>2 DEF ChangePassword
          <6>2. accounts'[v] = [req[v].copy EXCEPT !.roles = accounts[v].roles, !.secret = secret]
            BY <2>6, <6>1
          <6> QED
            BY <4>1, <6>2 DEF Accounts
        <5> QED
          BY <3>2, <5>1, <5>2
      <4>4. \A u \in Actors : u # v => accounts'[u] = accounts[u]
        BY <2>6, <3>2 DEF SaveProfile, ChangePassword
      <4> QED
        BY <2>5, <4>2, <4>3, <4>4 DEF HasRole
    <3> QED
      BY <2>1, <2>3, <2>4, <3>1, <3>2
         DEF Acts, LoadOwn, LoadAssignments, LoadDepartment, DeleteRow, SaveRow, ReadRows, CommitAssignments,
             SaveDepartment, WriteEvent, LoseEvent, Answer, Abandon, Crash
  <2>9. req'[v].pc = "judged" =>
           /\ req'[v].op \notin {"user", "new"}
           /\ req'[v].op \in {"profile", "password"} => accounts'[v].roles \cap UserManagers = {}
    <3>1. CASE LoadOwn(v)
      <4>1. PICK op \in {"profile", "password"} : Judged(v, op, v)
        BY <3>1 DEF LoadOwn
      <4>2. req'[v].op = op
        BY <2>7, <4>1 DEF Judged, NoRequest
      <4>3. accounts'[v].roles \cap UserManagers = {}
        BY <2>5, <3>1 DEF HasRole, LoadOwn
      <4> QED
        BY <4>2, <4>3
    <3>2. CASE LoadAssignments(v)
      <4>1. req'[v].op = "assign"
        BY <2>7, <3>2 DEF LoadAssignments, NoRequest
      <4> QED
        BY <4>1
    <3>3. CASE LoadDepartment(v)
      <4>1. req'[v].op = "department"
        BY <2>7, <3>3 DEF LoadDepartment, NoRequest
      <4> QED
        BY <4>1
    <3>4. CASE SaveProfile(v) \/ ChangePassword(v) \/ SaveDepartment(v)
      <4>1. PICK events : req'[v] = Committed(events)
        BY <2>7, <3>4 DEF SaveProfile, ChangePassword, SaveDepartment, Commit
      <4>2. req'[v].pc = "committed"
        BY <4>1 DEF Committed, NoRequest
      <4> QED
        BY <4>2
    <3>5. CASE CommitAssignments(v)
      <4>1. req'[v] = Committed(req[v].queue)
        BY <3>5 DEF CommitAssignments
      <4>2. req'[v].pc = "committed"
        BY <4>1 DEF Committed, NoRequest
      <4> QED
        BY <4>2
    <3>6. CASE DeleteRow(v) \/ SaveRow(v) \/ ReadRows(v)
      <4>1. req[v].op = "assign"
        <5>1. req[v].op = "assign" \/ req[v].left # {}
          BY <3>6 DEF DeleteRow, SaveRow, ReadRows
        <5> QED
          BY <1>1, <5>1 DEF AccountsInv, JudgedWell, Assigning
      <4>2. req'[v].op = req[v].op
        <5>1. CASE DeleteRow(v)
          <6>1. PICK d, w, x :
                   Step(v, [req[v] EXCEPT !.left = @ \ {d}, !.early = @ \cup {d}, !.wrote = w, !.stale = x])
            BY <5>1 DEF DeleteRow
          <6>2. req'[v] = [req[v] EXCEPT !.left = @ \ {d}, !.early = @ \cup {d}, !.wrote = w, !.stale = x]
            BY <2>7, <6>1
          <6> QED
            BY <2>6, <6>2 DEF Requests
        <5>2. CASE SaveRow(v)
          <6>1. PICK d, q : Step(v, [req[v] EXCEPT !.left = @ \ {d}, !.wrote = @ \cup {d}, !.queue = q])
            BY <5>2 DEF SaveRow
          <6>2. req'[v] = [req[v] EXCEPT !.left = @ \ {d}, !.wrote = @ \cup {d}, !.queue = q]
            BY <2>7, <6>1
          <6> QED
            BY <2>6, <6>2 DEF Requests
        <5>3. CASE ReadRows(v)
          <6>1. PICK q : Step(v, [req[v] EXCEPT !.pc = "saved", !.queue = q])
            BY <5>3 DEF ReadRows
          <6>2. req'[v] = [req[v] EXCEPT !.pc = "saved", !.queue = q]
            BY <2>7, <6>1
          <6> QED
            BY <2>6, <6>2 DEF Requests
        <5> QED
          BY <3>6, <5>1, <5>2, <5>3
      <4> QED
        BY <4>1, <4>2
    <3>7. CASE WriteEvent(v) \/ LoseEvent(v)
      <4>1. req[v].pc = "committed" /\ req[v] \in Requests
        BY <2>6, <3>7 DEF WriteEvent, LoseEvent, Waiting
      <4>2. req'[v] = [req[v] EXCEPT !.queue = Tail(req[v].queue)]
        <5>1. CASE WriteEvent(v)
          BY <5>1 DEF WriteEvent
        <5>2. CASE LoseEvent(v)
          BY <2>7, <5>2 DEF LoseEvent
        <5> QED
          BY <3>7, <5>1, <5>2
      <4>3. req'[v].pc = "committed"
        BY <4>1, <4>2 DEF Requests
      <4> QED
        BY <4>3
    <3>8. CASE Answer(v) \/ Abandon(v) \/ Crash(v)
      <4>1. req'[v] = NoRequest
        BY <2>7, <3>8 DEF Answer, Abandon, Crash
      <4> QED
        BY <4>1, NoRequestTyped
    <3> QED
      BY <2>1, <2>3, <2>4, <3>1, <3>2, <3>3, <3>4, <3>5, <3>6, <3>7, <3>8 DEF Acts
  <2>10. ASSUME NEW u \in Actors
         PROVE  req'[u].pc = "judged" =>
                   /\ req'[u].op \notin {"user", "new"}
                   /\ req'[u].op \in {"profile", "password"} => accounts'[u].roles \cap UserManagers = {}
    BY <1>1, <2>2, <2>8, <2>9 DEF LockedOut
  <2> QED
    BY <2>8, <2>10 DEF LockedOut
<1>2. AccountsInv /\ [Next]_vars => [LockedOut => LockedOut']_vars
  BY <1>1
<1> QED
  BY <1>2, AccountsInvAlways, PTL DEF Spec, LockoutIsFinal
=============================================================================
