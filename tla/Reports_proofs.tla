---------------------------- MODULE Reports_proofs ----------------------------
(***************************************************************************)
(* Proofs about Reports for any rows, users, departments, meetings and     *)
(* number of changes: the pages made of several queries, the lists of      *)
(* action items and the files.                                             *)
(***************************************************************************)
EXTENDS Reports, FiniteSetsExt, TableFacts

\* Where two tables of submissions do not say the same.
Differ(f, g) == {d \in DOMAIN f \cup DOMAIN g : d \notin DOMAIN f \cap DOMAIN g \/ f[d] # g[d]}

\* A sequence, of whatever it holds.
Sequenced(s) == s \in Seq({s[n] : n \in DOMAIN s})

Fields == {"kind", "pc", "user", "todo", "read", "slug", "format", "logged"}

QueryKinds == {"home", "prep", "readiness", "completeness"}

\* The tables that are filled, and a page of one of them.
Tabled ==
    /\ items = <<>> \/ items \in [Items -> ItemRows]
    /\ meetings = <<>> \/ meetings \in [Meetings -> MeetingRows]
    /\ \/ minutes = <<>>
       \/ DOMAIN minutes = {"submissions", "active"}
       \/ DOMAIN minutes = {"agenda", "linked"} /\ minutes.linked \in BOOLEAN
    /\ page.kind = "home" => items \in [Items -> ItemRows]
    /\ page.kind = "prep" => meetings \in [Meetings -> MeetingRows]
    /\ page.kind = "readiness" => DOMAIN minutes = {"submissions", "active"}
    /\ page.kind = "completeness" =>
          DOMAIN minutes = {"agenda", "linked"} /\ minutes.linked \in BOOLEAN

\* What is read so far are the first queries of the page, the rest is to do.
Reading ==
    /\ DOMAIN page = Fields
    /\ page.kind \in {"none", "dashboard", "file"} \cup QueryKinds
    /\ changes.rows \in Nat
    /\ page.kind \in QueryKinds =>
          /\ Sequenced(page.read)
          /\ page.todo = DOMAIN Queries(page.kind) \ DOMAIN page.read
          /\ Len(page.read) <= Len(Queries(page.kind))

\* How far the answers read are from the tables.
CountsNear ==
    page.kind \in {"home", "prep"} =>
        \A n \in DOMAIN page.read :
            /\ page.read[n] \in Nat
            /\ Distance(page.read[n], Count(Queries(page.kind)[n], page.user)) <= changes.rows

StrayedFrom(read, submissions, active) ==
    (IF 1 \in DOMAIN read THEN Differ(read[1], submissions) ELSE {})
    \cup (IF 2 \in DOMAIN read THEN SymDiff(read[2], active) ELSE {})

Strayed == StrayedFrom(page.read, minutes.submissions, minutes.active)

SubmissionsNear ==
    page.kind = "readiness" =>
        IsFiniteSet(Strayed) /\ Cardinality(Strayed) <= changes.rows

DepartmentsLost == SymDiff(MissingDepartments(page.read[1]), MissingDepartments(minutes.agenda))

ItemsLost == SymDiff(DOMAIN MissingItems(page.read[1]), DOMAIN MissingItems(minutes.agenda))

MinutesNear ==
    page.kind = "completeness" =>
        /\ 1 \in DOMAIN page.read =>
              /\ IsFiniteSet(DepartmentsLost) /\ Cardinality(DepartmentsLost) <= changes.rows
              /\ IsFiniteSet(ItemsLost) /\ Cardinality(ItemsLost) <= changes.rows
        /\ 2 \in DOMAIN page.read =>
              page.read[2] \in BOOLEAN /\ (page.read[2] = minutes.linked \/ changes.rows >= 1)

\* A file is made for who may have it, and logged from then until it is refused.
FilesKept ==
    /\ approved \in {"none", "no", "yes"}
    /\ page.pc \in {"allowed", "made"} => page.kind = "file"
    /\ page.kind = "file" =>
          /\ approved # "none"
          /\ page.pc \in {"allowed", "made", "done"} /\ page.logged \in BOOLEAN
          /\ page.pc = "allowed" =>
                /\ ~page.logged /\ page.read = <<>>
                /\ page.format = "workbook" => page.user.roles \cap SalesExportRoles # {}
          /\ page.pc = "made" => page.logged /\ page.read = <<>>
          /\ page.logged =>
                /\ page.format \in {"excel", "word"} => page.user.roles \cap ExportRoles # {}
                /\ page.format = "workbook" => page.user.roles \cap SalesExportRoles # {}
          /\ page.pc = "done" =>
                /\ page.logged = (page.read # <<>>)
                /\ page.logged /\ page.slug = "management-meeting-minutes" => approved = "yes"

PagesInv == Tabled /\ Reading /\ CountsNear /\ SubmissionsNear /\ MinutesNear /\ FilesKept

-----------------------------------------------------------------------------
(* Sets that differ by little.                                              *)

LEMMA OneApart ==
    ASSUME NEW S, NEW T, NEW x, IsFiniteSet(S), IsFiniteSet(T), S \ {x} = T \ {x}
    PROVE  /\ Cardinality(S) \in Nat /\ Cardinality(T) \in Nat
           /\ Cardinality(S) <= Cardinality(T) + 1 /\ Cardinality(T) <= Cardinality(S) + 1
<1>1. Cardinality(S) \in Nat /\ Cardinality(T) \in Nat
  BY FS_CardinalityType
<1>2. /\ Cardinality(S \ {x}) = IF x \in S THEN Cardinality(S) - 1 ELSE Cardinality(S)
      /\ Cardinality(T \ {x}) = IF x \in T THEN Cardinality(T) - 1 ELSE Cardinality(T)
  BY FS_RemoveElement
<1> QED
  BY <1>1, <1>2

LEMMA OneMore ==
    ASSUME NEW S, NEW T, NEW x, NEW n \in Nat, IsFiniteSet(S), Cardinality(S) <= n,
           T \subseteq S \cup {x}
    PROVE  IsFiniteSet(T) /\ Cardinality(T) <= n + 1
<1>1. IsFiniteSet(S \cup {x}) /\ Cardinality(S \cup {x}) <= n + 1
  <2>1. Cardinality(S) \in Nat
    BY FS_CardinalityType
  <2>2. /\ IsFiniteSet(S \cup {x})
        /\ Cardinality(S \cup {x}) = IF x \in S THEN Cardinality(S) ELSE Cardinality(S) + 1
    BY FS_AddElement
  <2> QED
    BY <2>1, <2>2
<1>2. IsFiniteSet(T) /\ Cardinality(T) <= Cardinality(S \cup {x})
  BY <1>1, FS_Subset
<1>3. Cardinality(T) \in Nat /\ Cardinality(S \cup {x}) \in Nat
  BY <1>1, <1>2, FS_CardinalityType
<1> QED
  BY <1>1, <1>2, <1>3

-----------------------------------------------------------------------------
(* The queries.                                                             *)

LEMMA QueriesLong ==
    /\ Queries("home") = <<"open", "assigned", "overdue">>
    /\ Queries("prep") = <<"total", "pending", "returned", "approved", "ready">>
    /\ Queries("readiness") = <<"submissions", "active">>
    /\ Queries("completeness") = <<"agenda", "linked">>
    /\ \A kind \in QueryKinds :
          DOMAIN Queries(kind) = 1..Len(Queries(kind)) /\ Len(Queries(kind)) \in Nat
<1>1. /\ Queries("home") = <<"open", "assigned", "overdue">>
      /\ Queries("prep") = <<"total", "pending", "returned", "approved", "ready">>
      /\ Queries("readiness") = <<"submissions", "active">>
      /\ Queries("completeness") = <<"agenda", "linked">>
  BY DEF Queries
<1> QED
  BY <1>1 DEF QueryKinds

\* Whether a meeting counts.
Prepares(count, m) ==
    CASE count = "total"    -> TRUE
      [] count = "pending"  -> m.status = "FOR_REVIEW"
      [] count = "returned" -> m.status = "RETURNED"
      [] count = "approved" -> m.fresh /\ m.status \in {"APPROVED", "PUBLISHED", "CLOSED"}
      [] count = "ready"    -> m.status = "APPROVED"

LEMMA PreparedRows ==
    ASSUME NEW count, NEW mts
    PROVE  Prepared(count, mts) = {m \in DOMAIN mts : Prepares(count, mts[m])}
  BY DEF Prepared, Prepares

\* What a query counts.
LEMMA Counted ==
    ASSUME NEW query, NEW user
    PROVE  Count(query, user) =
              IF query = "open" THEN Cardinality(TotalOpen(items))
              ELSE IF query = "assigned" THEN Cardinality(AssignedMe(user, items))
              ELSE IF query = "overdue" THEN Cardinality(OverdueMine(user, items, Today))
              ELSE Cardinality(Prepared(query, meetings))
<1>1. CASE query = "open"
  BY <1>1 DEF Count
<1>2. CASE query = "assigned"
  BY <1>2 DEF Count
<1>3. CASE query = "overdue"
  BY <1>3 DEF Count
<1>4. CASE query \notin {"open", "assigned", "overdue"}
  BY <1>4 DEF Count
<1> QED
  BY <1>1, <1>2, <1>3, <1>4

\* A query of the counts, on tables of its own.
Tally(query, user, i, m) ==
    IF query = "open" THEN Cardinality(TotalOpen(i))
    ELSE IF query = "assigned" THEN Cardinality(AssignedMe(user, i))
    ELSE IF query = "overdue" THEN Cardinality(OverdueMine(user, i, Today))
    ELSE Cardinality(Prepared(query, m))

LEMMA Tallied ==
    \A query, user :
        /\ Count(query, user) = Tally(query, user, items, meetings)
        /\ Count(query, user)' = Tally(query, user, items', meetings')
<1>1. \A query, user : Count(query, user) = Tally(query, user, items, meetings)
  BY Counted DEF Tally
<1>2. (\A query, user : Count(query, user) = Tally(query, user, items, meetings))'
  BY <1>1, PTL
<1> QED
  BY <1>1, <1>2

\* Two counts that are the same or next to each other.
OneOff(c, d) == c = d \/ (c \in Nat /\ d \in Nat /\ c <= d + 1 /\ d <= c + 1)

\* One row makes a difference of one.
LEMMA ItemCounts ==
    ASSUME NEW i \in [Items -> ItemRows], NEW k \in Items, NEW row \in ItemRows,
           NEW j, j = [i EXCEPT ![k] = row], NEW user, NEW query, NEW m
    PROVE  OneOff(Tally(query, user, i, m), Tally(query, user, j, m))
<1>1. DOMAIN i = Items /\ DOMAIN j = Items /\ \A l \in Items : l # k => j[l] = i[l]
  OBVIOUS
<1>2. /\ TotalOpen(i) \ {k} = TotalOpen(j) \ {k}
      /\ TotalOpen(i) \in SUBSET Items /\ TotalOpen(j) \in SUBSET Items
  BY <1>1 DEF TotalOpen
<1>3. /\ AssignedMe(user, i) \ {k} = AssignedMe(user, j) \ {k}
      /\ AssignedMe(user, i) \in SUBSET Items /\ AssignedMe(user, j) \in SUBSET Items
  BY <1>1, <1>2 DEF AssignedMe
<1>4. /\ OverdueMine(user, i, Today) \ {k} = OverdueMine(user, j, Today) \ {k}
      /\ OverdueMine(user, i, Today) \in SUBSET Items /\ OverdueMine(user, j, Today) \in SUBSET Items
  BY <1>1, <1>3 DEF OverdueMine
<1>5. ASSUME NEW S \in SUBSET Items, NEW T \in SUBSET Items, S \ {k} = T \ {k}
      PROVE  /\ Cardinality(S) \in Nat /\ Cardinality(T) \in Nat
             /\ Cardinality(S) <= Cardinality(T) + 1 /\ Cardinality(T) <= Cardinality(S) + 1
  <2>1. IsFiniteSet(S) /\ IsFiniteSet(T)
    BY RowsAssumption, FS_Subset
  <2> QED
    BY <1>5, <2>1, OneApart
<1> QED
  BY <1>2, <1>3, <1>4, <1>5 DEF Tally, OneOff

LEMMA MeetingCounts ==
    ASSUME NEW m \in [Meetings -> MeetingRows], NEW k \in Meetings, NEW row \in MeetingRows,
           NEW n, n = [m EXCEPT ![k] = row], NEW user, NEW query, NEW i
    PROVE  OneOff(Tally(query, user, i, m), Tally(query, user, i, n))
<1>1. DOMAIN m = Meetings /\ DOMAIN n = Meetings /\ \A l \in Meetings : l # k => n[l] = m[l]
  OBVIOUS
<1>2. /\ Prepared(query, m) \ {k} = Prepared(query, n) \ {k}
      /\ Prepared(query, m) \in SUBSET Meetings /\ Prepared(query, n) \in SUBSET Meetings
  BY <1>1, PreparedRows
<1>3. IsFiniteSet(Prepared(query, m)) /\ IsFiniteSet(Prepared(query, n))
  BY <1>2, RowsAssumption, FS_Subset
<1>4. /\ Cardinality(Prepared(query, m)) \in Nat /\ Cardinality(Prepared(query, n)) \in Nat
      /\ Cardinality(Prepared(query, m)) <= Cardinality(Prepared(query, n)) + 1
      /\ Cardinality(Prepared(query, n)) <= Cardinality(Prepared(query, m)) + 1
  BY <1>2, <1>3, OneApart
<1> QED
  BY <1>4 DEF Tally, OneOff

LEMMA TallyTyped ==
    ASSUME NEW i, NEW m, NEW user, NEW query,
           IF query \in {"open", "assigned", "overdue"} THEN i \in [Items -> ItemRows]
           ELSE m \in [Meetings -> MeetingRows]
    PROVE  Tally(query, user, i, m) \in Nat
<1>1. CASE query \in {"open", "assigned", "overdue"}
  <2>1. \A S \in SUBSET Items : Cardinality(S) \in Nat
    BY RowsAssumption, FS_Subset, FS_CardinalityType
  <2>2. TotalOpen(i) \in SUBSET Items
    BY <1>1 DEF TotalOpen
  <2>3. AssignedMe(user, i) \in SUBSET Items
    BY <2>2 DEF AssignedMe
  <2>4. OverdueMine(user, i, Today) \in SUBSET Items
    BY <2>3 DEF OverdueMine
  <2> QED
    BY <1>1, <2>1, <2>2, <2>3, <2>4 DEF Tally
<1>2. CASE query \notin {"open", "assigned", "overdue"}
  <2>1. Prepared(query, m) \in SUBSET Meetings
    BY <1>2, PreparedRows
  <2>2. Cardinality(Prepared(query, m)) \in Nat
    BY <2>1, RowsAssumption, FS_Subset, FS_CardinalityType
  <2> QED
    BY <1>2, <2>2 DEF Tally
<1> QED
  BY <1>1, <1>2

-----------------------------------------------------------------------------
(* Beginning a page.                                                        *)

LEMMA Starts == Init => PagesInv
<1> SUFFICES ASSUME Init PROVE PagesInv
  OBVIOUS
<1>1. page.kind = "none" /\ page.pc = "done" /\ DOMAIN page = Fields /\ changes.rows = 0
  BY DEF Init, NoPage, NoChanges, Fields
<1>2. /\ items = <<>> \/ items \in [Items -> ItemRows]
      /\ meetings = <<>> \/ meetings \in [Meetings -> MeetingRows]
      /\ \/ minutes = <<>>
         \/ DOMAIN minutes = {"submissions", "active"}
         \/ DOMAIN minutes = {"agenda", "linked"} /\ minutes.linked \in BOOLEAN
      /\ approved \in {"none", "no", "yes"}
  BY DEF Init, Filled
<1> QED
  BY <1>1, <1>2 DEF PagesInv, Tabled, Reading, CountsNear, SubmissionsNear, MinutesNear, FilesKept, QueryKinds

\* A page that is begun has nothing read.
LEMMA NoneRead ==
    ASSUME PagesInv, UNCHANGED tables, changes' = NoChanges, DOMAIN page' = Fields,
           page'.kind \in QueryKinds, page'.pc = "reading", page'.read = <<>>, page'.todo = DOMAIN Queries(page'.kind),
           page'.kind = "home" => items \in [Items -> ItemRows],
           page'.kind = "prep" => meetings \in [Meetings -> MeetingRows],
           page'.kind = "readiness" => DOMAIN minutes = {"submissions", "active"},
           page'.kind = "completeness" =>
              DOMAIN minutes = {"agenda", "linked"} /\ minutes.linked \in BOOLEAN
    PROVE  PagesInv'
<1>1. /\ items' = items /\ minutes' = minutes /\ meetings' = meetings /\ approved' = approved
      /\ changes'.rows = 0
  BY DEF tables, NoChanges
<1>2. Tabled'
  BY <1>1 DEF PagesInv, Tabled
<1>3. Sequenced(<<>>) /\ DOMAIN <<>> = {} /\ Len(<<>>) = 0
  BY DEF Sequenced
<1>4. Reading'
  BY <1>1, <1>3, QueriesLong DEF Reading
<1>5. CountsNear' /\ MinutesNear' /\ FilesKept'
  BY <1>1, <1>3 DEF PagesInv, CountsNear, MinutesNear, FilesKept, QueryKinds
<1>6. SubmissionsNear'
  <2>1. Strayed' = {}
    BY <1>3 DEF Strayed, StrayedFrom
  <2> QED
    BY <1>1, <2>1, FS_EmptySet DEF SubmissionsNear
<1> QED
  BY <1>2, <1>4, <1>5, <1>6 DEF PagesInv

LEMMA StartKeeps ==
    ASSUME PagesInv, StartHome \/ StartPrep \/ StartReadiness \/ StartCompleteness
    PROVE  PagesInv'
<1>1. CASE StartHome
  <2>1. PICK user : page' = [NoPage EXCEPT !.kind = "home", !.pc = "reading", !.user = user,
                                           !.todo = DOMAIN Queries("home")]
    BY <1>1 DEF StartHome, Begin
  <2>2. /\ DOMAIN page' = Fields /\ page'.kind = "home" /\ page'.read = <<>>
        /\ page'.pc = "reading" /\ page'.todo = DOMAIN Queries("home")
    BY <2>1 DEF NoPage, Fields
  <2> QED
    BY <1>1, <2>2, NoneRead DEF StartHome, Begin, PagesInv, Tabled, QueryKinds
<1>2. CASE StartPrep
  <2>1. page' = [NoPage EXCEPT !.kind = "prep", !.pc = "reading", !.todo = DOMAIN Queries("prep")]
    BY <1>2 DEF StartPrep, Begin
  <2>2. /\ DOMAIN page' = Fields /\ page'.kind = "prep" /\ page'.read = <<>>
        /\ page'.pc = "reading" /\ page'.todo = DOMAIN Queries("prep")
    BY <2>1 DEF NoPage, Fields
  <2> QED
    BY <1>2, <2>2, NoneRead DEF StartPrep, Begin, PagesInv, Tabled, QueryKinds
<1>3. CASE StartReadiness
  <2>1. page' = [NoPage EXCEPT !.kind = "readiness", !.pc = "reading", !.todo = DOMAIN Queries("readiness")]
    BY <1>3 DEF StartReadiness, Begin
  <2>2. /\ DOMAIN page' = Fields /\ page'.kind = "readiness" /\ page'.read = <<>>
        /\ page'.pc = "reading" /\ page'.todo = DOMAIN Queries("readiness")
    BY <2>1 DEF NoPage, Fields
  <2>3. DOMAIN minutes = {"submissions", "active"}
    BY <1>3 DEF StartReadiness, PagesInv, Tabled
  <2> QED
    BY <1>3, <2>2, <2>3, NoneRead DEF StartReadiness, Begin, QueryKinds
<1>4. CASE StartCompleteness
  <2>1. page' = [NoPage EXCEPT !.kind = "completeness", !.pc = "reading",
                               !.todo = DOMAIN Queries("completeness")]
    BY <1>4 DEF StartCompleteness, Begin
  <2>2. /\ DOMAIN page' = Fields /\ page'.kind = "completeness" /\ page'.read = <<>>
        /\ page'.pc = "reading" /\ page'.todo = DOMAIN Queries("completeness")
    BY <2>1 DEF NoPage, Fields
  <2>3. DOMAIN minutes = {"agenda", "linked"} /\ minutes.linked \in BOOLEAN
    BY <1>4 DEF StartCompleteness, PagesInv, Tabled
  <2> QED
    BY <1>4, <2>2, <2>3, NoneRead DEF StartCompleteness, Begin, QueryKinds
<1> QED
  BY <1>1, <1>2, <1>3, <1>4

\* Dashboards and files are none of the pages of queries.
LEMMA OtherPages ==
    ASSUME PagesInv, UNCHANGED tables, changes'.rows \in Nat, DOMAIN page' = Fields,
           page'.kind \in {"dashboard", "file"}, FilesKept'
    PROVE  PagesInv'
<1>1. items' = items /\ minutes' = minutes /\ meetings' = meetings
  BY DEF tables
<1> QED
  BY <1>1 DEF PagesInv, Tabled, Reading, CountsNear, SubmissionsNear, MinutesNear, QueryKinds

LEMMA DashboardKeeps ==
    ASSUME PagesInv, StartDashboard \/ ReadFigure
    PROVE  PagesInv'
<1>1. UNCHANGED tables /\ changes'.rows \in Nat
  <2>1. UNCHANGED tables /\ (changes' = NoChanges \/ changes' = changes)
    BY DEF StartDashboard, ReadFigure, Begin
  <2> QED
    BY <2>1 DEF NoChanges, PagesInv, Reading
<1>2. DOMAIN page' = Fields /\ page'.kind = "dashboard" /\ page'.pc \in {"reading", page.pc}
  <2>1. CASE StartDashboard
    BY <2>1 DEF StartDashboard, Begin, NoPage, Fields
  <2>2. CASE ReadFigure
    BY <2>2 DEF ReadFigure, PagesInv, Reading, Fields
  <2> QED
    BY <2>1, <2>2
<1>3. page'.pc \notin {"allowed", "made"}
  <2>1. ReadFigure => page.kind = "dashboard"
    BY DEF ReadFigure
  <2> QED
    BY <1>2, <2>1 DEF PagesInv, FilesKept, StartDashboard, Begin, NoPage
<1>4. FilesKept'
  BY <1>1, <1>2, <1>3 DEF tables, PagesInv, FilesKept
<1> QED
  BY <1>1, <1>2, <1>4, OtherPages

-----------------------------------------------------------------------------
(* Files.                                                                   *)

LEMMA WorkbookViewers ==
    ASSUME NEW user, NEW file \in Files, file[1] = "workbook", MayViewReport(user, file[2])
    PROVE  user.roles \cap SalesExportRoles # {}
<1>1. file[2] = "sales-period"
  BY DEF Files
<1>2. MayViewReport(user, "sales-period") => user.roles \cap SalesExportRoles # {}
  BY DEF MayViewReport
<1> QED
  BY <1>1, <1>2

LEMMA FileKeeps ==
    ASSUME PagesInv, RequestFile \/ MakeFile \/ SendFile
    PROVE  PagesInv'
<1>1. UNCHANGED tables /\ changes'.rows \in Nat /\ approved' = approved
  <2>1. UNCHANGED tables /\ (changes' = NoChanges \/ changes' = changes)
    BY DEF RequestFile, MakeFile, SendFile, Begin
  <2>2. approved' = approved
    BY <2>1 DEF tables
  <2> QED
    BY <2>1, <2>2 DEF NoChanges, PagesInv, Reading
<1>2. CASE RequestFile
  <2>1. PICK user \in Visitors, file \in Files :
           page' = [NoPage EXCEPT !.kind = "file", !.user = user, !.format = file[1], !.slug = file[2],
                                  !.pc = IF MayViewReport(user, file[2]) THEN "allowed" ELSE "done"]
    BY <1>2 DEF RequestFile, Begin
  <2>2. /\ DOMAIN page' = Fields /\ page'.kind = "file" /\ page'.read = <<>> /\ page'.logged = FALSE
        /\ page'.user = user /\ page'.format = file[1] /\ page'.slug = file[2]
        /\ page'.pc = IF MayViewReport(user, file[2]) THEN "allowed" ELSE "done"
    BY <2>1 DEF NoPage, Fields
  <2>3. FilesKept'
    BY <1>1, <1>2, <2>2, WorkbookViewers DEF RequestFile, PagesInv, FilesKept
  <2> QED
    BY <1>1, <2>2, <2>3, OtherPages
<1>3. ASSUME MakeFile \/ SendFile, page.kind = "file" PROVE PagesInv'
  <2>1. /\ DOMAIN page' = Fields /\ page'.kind = "file"
        /\ page'.user = page.user /\ page'.format = page.format /\ page'.slug = page.slug
    BY <1>3 DEF MakeFile, SendFile, PagesInv, Reading, Fields
  <2>2. CASE MakeFile
    <3>1. CASE page.format \in {"excel", "word"} /\ page.user.roles \cap ExportRoles = {}
      <4>1. page'.pc = "done" /\ page'.logged = page.logged /\ page'.read = page.read
        BY <2>2, <3>1 DEF MakeFile, PagesInv, Reading, Fields
      <4> QED
        BY <1>1, <1>3, <2>1, <2>2, <4>1, OtherPages DEF MakeFile, PagesInv, FilesKept
    <3>2. CASE ~ (page.format \in {"excel", "word"} /\ page.user.roles \cap ExportRoles = {})
      <4>1. page'.pc = "made" /\ page'.logged = TRUE /\ page'.read = page.read
        BY <2>2, <3>2 DEF MakeFile, PagesInv, Reading, Fields
      <4> QED
        BY <1>1, <1>3, <2>1, <2>2, <3>2, <4>1, OtherPages DEF MakeFile, PagesInv, FilesKept
    <3> QED
      BY <3>1, <3>2
  <2>3. CASE SendFile
    <3>1. CASE page.slug = "management-meeting-minutes" /\ approved = "no"
      <4>1. page'.pc = "done" /\ page'.logged = FALSE /\ page'.read = page.read
        BY <2>3, <3>1 DEF SendFile, PagesInv, Reading, Fields
      <4> QED
        BY <1>1, <1>3, <2>1, <2>3, <4>1, OtherPages DEF SendFile, PagesInv, FilesKept
    <3>2. CASE ~ (page.slug = "management-meeting-minutes" /\ approved = "no")
      <4>1. page'.pc = "done" /\ page'.logged = page.logged /\ page'.read = <<"file">>
        BY <2>3, <3>2 DEF SendFile, PagesInv, Reading, Fields
      <4>2. <<"file">> # <<>>
        OBVIOUS
      <4> QED
        BY <1>1, <1>3, <2>1, <2>3, <3>2, <4>1, <4>2, OtherPages DEF SendFile, PagesInv, FilesKept
    <3> QED
      BY <3>1, <3>2
  <2> QED
    BY <1>3, <2>2, <2>3
<1>4. MakeFile \/ SendFile => page.kind = "file"
  BY DEF MakeFile, SendFile, PagesInv, FilesKept
<1> QED
  BY <1>2, <1>3, <1>4

-----------------------------------------------------------------------------
(* One query.                                                               *)

\* One answer more.
OneLonger(s, x, t) ==
    /\ Len(s) \in Nat /\ DOMAIN s = 1..Len(s) /\ Cardinality(DOMAIN s) = Len(s)
    /\ Sequenced(t)
    /\ Len(t) = Len(s) + 1 /\ DOMAIN t = 1..Len(s) + 1
    /\ t[Len(s) + 1] = x /\ \A n \in DOMAIN s : t[n] = s[n]

LEMMA AppendAnswer ==
    ASSUME NEW s, Sequenced(s), NEW x
    PROVE  OneLonger(s, x, Append(s, x))
<1>0. PICK t : t = Append(s, x)
  OBVIOUS
<1>1. PICK V : V = {s[n] : n \in DOMAIN s} \cup {x}
  OBVIOUS
<1>2. Len(s) \in Nat /\ DOMAIN s = 1..Len(s)
  BY DEF Sequenced
<1>3. s \in Seq(V) /\ x \in V
  BY <1>1, <1>2 DEF Sequenced
<1>4. /\ t \in Seq(V) /\ Len(t) = Len(s) + 1 /\ DOMAIN t = 1..Len(s) + 1
      /\ t[Len(s) + 1] = x /\ \A n \in DOMAIN s : t[n] = s[n]
  BY <1>0, <1>3, AppendRows
<1>5. Sequenced(t)
  BY <1>4 DEF Sequenced
<1>6. Cardinality(DOMAIN s) = Len(s)
  <2>1. Cardinality(1..Len(s)) = IF 1 > Len(s) THEN 0 ELSE Len(s) - 1 + 1
    BY <1>2, FS_Interval
  <2> QED
    BY <1>2, <2>1
<1>7. OneLonger(s, x, t)
  BY <1>2, <1>4, <1>5, <1>6 DEF OneLonger
<1> QED
  BY <1>0, <1>7

LEMMA SameSets ==
    /\ \A a : SymDiff(a, a) = {} /\ Differ(a, a) = {}
    /\ IsFiniteSet({}) /\ Cardinality({}) = 0
  BY FS_EmptySet DEF SymDiff, Differ

\* The counts of a page are numbers.
LEMMA CountTyped ==
    ASSUME PagesInv, page.kind \in {"home", "prep"}, NEW n \in DOMAIN Queries(page.kind)
    PROVE  Count(Queries(page.kind)[n], page.user) \in Nat
<1>1. CASE page.kind = "home"
  <2>1. Queries(page.kind) = <<"open", "assigned", "overdue">>
    BY <1>1, QueriesLong
  <2>2. n = 1 \/ n = 2 \/ n = 3
    BY <2>1
  <2>3. Queries(page.kind)[n] \in {"open", "assigned", "overdue"} /\ items \in [Items -> ItemRows]
    BY <1>1, <2>1, <2>2 DEF PagesInv, Tabled
  <2> QED
    BY <2>3, Tallied, TallyTyped
<1>2. CASE page.kind = "prep"
  <2>1. Queries(page.kind) = <<"total", "pending", "returned", "approved", "ready">>
    BY <1>2, QueriesLong
  <2>2. n = 1 \/ n = 2 \/ n = 3 \/ n = 4 \/ n = 5
    BY <2>1
  <2>3. Queries(page.kind)[n] \notin {"open", "assigned", "overdue"} /\ meetings \in [Meetings -> MeetingRows]
    BY <1>2, <2>1, <2>2 DEF PagesInv, Tabled
  <2> QED
    BY <2>3, Tallied, TallyTyped
<1> QED
  BY <1>1, <1>2

LEMMA ReadKeeps ==
    ASSUME PagesInv, ReadQuery
    PROVE  PagesInv'
<1>1. PICK kind, s, n, x, t :
         /\ kind = page.kind /\ s = page.read /\ n = Len(s) + 1
         /\ x = Answer(kind, Queries(kind)[n], page.user) /\ t = Append(s, x)
  OBVIOUS
<1>2. kind \in QueryKinds /\ page.todo # {} /\ UNCHANGED <<tables, changes>>
  BY <1>1 DEF ReadQuery, PagesInv, Reading
<1>3. /\ Sequenced(s) /\ page.todo = DOMAIN Queries(kind) \ DOMAIN s
      /\ DOMAIN page = Fields /\ changes.rows \in Nat
  BY <1>1, <1>2 DEF PagesInv, Reading
<1>4. /\ Len(s) \in Nat /\ DOMAIN s = 1..Len(s) /\ Cardinality(DOMAIN s) = Len(s)
      /\ Sequenced(t)
      /\ Len(t) = Len(s) + 1 /\ DOMAIN t = 1..Len(s) + 1
      /\ t[Len(s) + 1] = x /\ \A i \in DOMAIN s : t[i] = s[i]
  <2>1. OneLonger(s, x, Append(s, x))
    BY <1>3, AppendAnswer
  <2>2. OneLonger(s, x, t)
    BY <1>1, <2>1
  <2> QED
    BY <2>2 DEF OneLonger
<1>5. /\ page' = [page EXCEPT !.todo = page.todo \ {n}, !.read = t]
  BY <1>1, <1>4 DEF ReadQuery
<1>6. /\ DOMAIN page' = Fields /\ page'.kind = kind /\ page'.read = t /\ page'.user = page.user
      /\ page'.todo = page.todo \ {n} /\ page'.pc = page.pc
  BY <1>1, <1>3, <1>5 DEF Fields
<1>7. /\ items' = items /\ minutes' = minutes /\ meetings' = meetings /\ approved' = approved
      /\ changes'.rows = changes.rows
  BY <1>2 DEF tables
<1>8. DOMAIN Queries(kind) = 1..Len(Queries(kind)) /\ Len(Queries(kind)) \in Nat
  BY <1>2, QueriesLong
<1>9. n <= Len(Queries(kind)) /\ n \in 1..Len(Queries(kind)) /\ DOMAIN t = DOMAIN s \cup {n}
  BY <1>1, <1>2, <1>3, <1>4, <1>8
<1>10. Tabled'
  BY <1>1, <1>6, <1>7 DEF PagesInv, Tabled
<1>11. Reading'
  <2>1. page'.todo = DOMAIN Queries(kind) \ DOMAIN t
    BY <1>3, <1>6, <1>9
  <2>2. Sequenced(t) /\ Len(t) <= Len(Queries(kind)) /\ page'.kind \in QueryKinds
    BY <1>1, <1>2, <1>4, <1>6, <1>9
  <2>3. page'.kind = kind /\ Queries(page'.kind) = Queries(kind) /\ page'.read = t
    BY <1>6
  <2> QED
    BY <1>2, <1>3, <1>6, <1>7, <2>1, <2>2, <2>3 DEF Reading
<1>12. CountsNear'
  <2> SUFFICES ASSUME kind \in {"home", "prep"}, NEW i \in DOMAIN t
               PROVE  /\ t[i] \in Nat
                      /\ Distance(t[i], Count(Queries(kind)[i], page.user)) <= changes.rows
    <3>1. PICK user : user = page.user /\ page'.user = user
      BY <1>6
    <3>2. \A q : Count(q, user)' = Count(q, user)
      BY <1>7, Tallied
    <3> QED
      BY <1>6, <1>7, <3>1, <3>2 DEF CountsNear
  <2>2. CASE i = n
    <3>1. t[i] = Count(Queries(kind)[i], page.user)
      BY <1>1, <1>4, <2>2 DEF Answer
    <3>2. Count(Queries(kind)[i], page.user) \in Nat
      BY <1>1, <1>8, <1>9, <2>2, CountTyped
    <3> QED
      BY <1>3, <3>1, <3>2 DEF Distance
  <2>3. CASE i # n
    <3>1. i \in DOMAIN s /\ t[i] = s[i]
      BY <1>4, <1>9, <2>3
    <3>2. s[i] \in Nat /\ Distance(s[i], Count(Queries(kind)[i], page.user)) <= changes.rows
      BY <1>1, <3>1 DEF PagesInv, CountsNear
    <3> QED
      BY <3>1, <3>2
  <2> QED
    BY <2>2, <2>3
<1>13. SubmissionsNear'
  <2> SUFFICES ASSUME kind = "readiness"
               PROVE  (IsFiniteSet(Strayed) /\ Cardinality(Strayed) <= changes.rows)'
    BY <1>6 DEF SubmissionsNear
  <2>1. n \in 1..2 /\ Queries(kind) = <<"submissions", "active">>
    BY <1>9, QueriesLong
  <2>2. CASE n = 1
    <3>1. x = minutes.submissions /\ t[1] = x /\ DOMAIN t = {1}
      BY <1>1, <1>4, <2>1, <2>2 DEF Answer
    <3>2. Strayed' = {}
      BY <1>6, <1>7, <3>1, SameSets DEF Strayed, StrayedFrom
    <3> QED
      BY <1>3, <1>7, <3>2, SameSets
  <2>3. CASE n = 2
    <3>1. x = minutes.active /\ t[2] = x /\ t[1] = s[1] /\ DOMAIN t = {1, 2} /\ DOMAIN s = {1}
      BY <1>1, <1>4, <2>1, <2>3 DEF Answer
    <3>2. Strayed' = Strayed
      BY <1>1, <1>6, <1>7, <3>1, SameSets DEF Strayed, StrayedFrom
    <3> QED
      BY <1>1, <1>7, <3>2 DEF PagesInv, SubmissionsNear
  <2> QED
    BY <2>1, <2>2, <2>3
<1>14. MinutesNear'
  <2> SUFFICES ASSUME kind = "completeness"
               PROVE  /\ 1 \in DOMAIN t =>
                            /\ (IsFiniteSet(DepartmentsLost) /\ Cardinality(DepartmentsLost) <= changes.rows)'
                            /\ (IsFiniteSet(ItemsLost) /\ Cardinality(ItemsLost) <= changes.rows)'
                      /\ 2 \in DOMAIN t =>
                            t[2] \in BOOLEAN /\ (t[2] = minutes.linked \/ changes.rows >= 1)
    BY <1>6, <1>7 DEF MinutesNear
  <2>1. n \in 1..2 /\ Queries(kind) = <<"agenda", "linked">>
    BY <1>9, QueriesLong
  <2>2. CASE n = 1
    <3>1. x = minutes.agenda /\ t[1] = x /\ DOMAIN t = {1}
      BY <1>1, <1>4, <2>1, <2>2 DEF Answer
    <3>2. DepartmentsLost' = {} /\ ItemsLost' = {}
      BY <1>6, <1>7, <3>1, SameSets DEF DepartmentsLost, ItemsLost
    <3> QED
      BY <1>3, <1>7, <3>1, <3>2, SameSets
  <2>3. CASE n = 2
    <3>1. x = minutes.linked /\ t[2] = x /\ t[1] = s[1] /\ DOMAIN s = {1}
      BY <1>1, <1>4, <2>1, <2>3 DEF Answer
    <3>2. DepartmentsLost' = DepartmentsLost /\ ItemsLost' = ItemsLost
      BY <1>1, <1>6, <1>7, <3>1 DEF DepartmentsLost, ItemsLost
    <3> QED
      BY <1>1, <1>7, <3>1, <3>2 DEF PagesInv, MinutesNear, Tabled
  <2> QED
    BY <2>1, <2>2, <2>3
<1>15. FilesKept'
  BY <1>1, <1>2, <1>6, <1>7 DEF PagesInv, FilesKept, QueryKinds
<1> QED
  BY <1>10, <1>11, <1>12, <1>13, <1>14, <1>15 DEF PagesInv

\* The answer changes nothing but the phase.
LEMMA RespondKeeps ==
    ASSUME PagesInv, Respond
    PROVE  PagesInv'
<1>1. /\ items' = items /\ minutes' = minutes /\ meetings' = meetings /\ approved' = approved
      /\ changes'.rows = changes.rows
  BY DEF Respond, tables
<1>2. /\ DOMAIN page' = Fields /\ page'.kind = page.kind /\ page'.read = page.read
      /\ page'.user = page.user /\ page'.todo = page.todo /\ page'.pc = "done" /\ page.pc = "reading"
  BY DEF Respond, PagesInv, Reading, Fields
<1>3. page.kind # "file"
  BY <1>2 DEF PagesInv, FilesKept
<1>4. Tabled' /\ Reading' /\ FilesKept'
  BY <1>1, <1>2, <1>3 DEF PagesInv, Tabled, Reading, FilesKept
<1>5. CountsNear'
  BY <1>1, <1>2, Tallied DEF PagesInv, CountsNear
<1>6. SubmissionsNear'
  BY <1>1, <1>2 DEF PagesInv, SubmissionsNear, Strayed
<1>7. MinutesNear'
  BY <1>1, <1>2 DEF PagesInv, MinutesNear, DepartmentsLost, ItemsLost
<1> QED
  BY <1>4, <1>5, <1>6, <1>7 DEF PagesInv

-----------------------------------------------------------------------------
(* Changes by other requests.                                               *)

\* A count moves by one with every row that is changed.
LEMMA CountsMove ==
    ASSUME PagesInv, page.kind \in {"home", "prep"}, page' = page, changes'.rows = changes.rows + 1,
           NEW user, user = page.user,
           \A query : OneOff(Tally(query, user, items, meetings), Tally(query, user, items', meetings'))
    PROVE  CountsNear'
<1> SUFFICES ASSUME NEW n \in DOMAIN page.read
             PROVE  /\ page.read[n] \in Nat
                    /\ Distance(page.read[n], Count(Queries(page.kind)[n], user)') <= changes.rows + 1
  BY DEF CountsNear
<1>1. PICK q, r, c, d :
         /\ q = Queries(page.kind)[n] /\ r = page.read[n]
         /\ c = Tally(q, user, items, meetings) /\ d = Tally(q, user, items', meetings')
  OBVIOUS
<1>2. Count(q, user) = c /\ Count(q, user)' = d
  BY <1>1, Tallied
<1>3. r \in Nat /\ Distance(r, c) <= changes.rows /\ changes.rows \in Nat
  BY <1>1, <1>2 DEF PagesInv, CountsNear, Reading
<1>4. c \in Nat
  <2>1. n \in DOMAIN Queries(page.kind)
    BY QueriesLong DEF PagesInv, Reading, Sequenced, QueryKinds
  <2> QED
    BY <1>1, <1>2, <2>1, CountTyped
<1>5. OneOff(c, d)
  BY <1>1
<1>6. Distance(r, d) <= changes.rows + 1
  BY <1>3, <1>4, <1>5 DEF Distance, OneOff
<1>7. Count(Queries(page.kind)[n], user)' = d
  BY <1>1, <1>2
<1> QED
  BY <1>1, <1>3, <1>6, <1>7

\* What other requests leave of the invariant, whatever table they write.
LEMMA PageStays ==
    ASSUME PagesInv, page' = page, changes'.rows \in Nat, approved' = approved
    PROVE  Reading' /\ FilesKept'
  BY DEF PagesInv, Reading, FilesKept

LEMMA SaveItemKeeps ==
    ASSUME PagesInv, SaveItem
    PROVE  PagesInv'
<1>1. PICK k \in Items, row \in ItemRows : items' = [items EXCEPT ![k] = row]
  BY DEF SaveItem
<1>2. /\ page.kind = "home" /\ page' = page /\ changes'.rows = changes.rows + 1
      /\ minutes' = minutes /\ meetings' = meetings /\ approved' = approved
  BY DEF SaveItem, Changed
<1>3. changes.rows \in Nat /\ items \in [Items -> ItemRows] /\ items' \in [Items -> ItemRows]
  BY <1>1, <1>2 DEF PagesInv, Tabled, Reading
<1>4. PICK user : user = page.user
  OBVIOUS
<1>5. \A query : OneOff(Tally(query, user, items, meetings), Tally(query, user, items', meetings'))
  BY <1>1, <1>2, <1>3, ItemCounts
<1>6. CountsNear'
  BY <1>2, <1>4, <1>5, CountsMove
<1>7. Tabled' /\ SubmissionsNear' /\ MinutesNear'
  BY <1>2, <1>3 DEF PagesInv, Tabled, SubmissionsNear, MinutesNear
<1>8. Reading' /\ FilesKept'
  BY <1>2, <1>3, PageStays
<1> QED
  BY <1>6, <1>7, <1>8 DEF PagesInv

LEMMA SaveMeetingKeeps ==
    ASSUME PagesInv, SaveMeeting
    PROVE  PagesInv'
<1>1. PICK k \in Meetings, row \in MeetingRows : meetings' = [meetings EXCEPT ![k] = row]
  BY DEF SaveMeeting
<1>2. /\ page.kind = "prep" /\ page' = page /\ changes'.rows = changes.rows + 1
      /\ minutes' = minutes /\ items' = items /\ approved' = approved
  BY DEF SaveMeeting, Changed
<1>3. changes.rows \in Nat /\ meetings \in [Meetings -> MeetingRows] /\ meetings' \in [Meetings -> MeetingRows]
  BY <1>1, <1>2 DEF PagesInv, Tabled, Reading
<1>4. PICK user : user = page.user
  OBVIOUS
<1>5. \A query : OneOff(Tally(query, user, items, meetings), Tally(query, user, items', meetings'))
  BY <1>1, <1>2, <1>3, MeetingCounts
<1>6. CountsNear'
  BY <1>2, <1>4, <1>5, CountsMove
<1>7. Tabled' /\ SubmissionsNear' /\ MinutesNear'
  BY <1>2, <1>3 DEF PagesInv, Tabled, SubmissionsNear, MinutesNear
<1>8. Reading' /\ FilesKept'
  BY <1>2, <1>3, PageStays
<1> QED
  BY <1>6, <1>7, <1>8 DEF PagesInv

LEMMA SaveFiguresKeeps ==
    ASSUME PagesInv, SaveFigures
    PROVE  PagesInv'
<1>1. /\ page.kind = "dashboard" /\ page' = page /\ changes'.rows = changes.rows + 0
      /\ items' = items /\ minutes' = minutes /\ meetings' = meetings /\ approved' = approved
  BY DEF SaveFigures, Changed
<1>2. changes'.rows \in Nat
  BY <1>1 DEF PagesInv, Reading
<1>3. Reading' /\ FilesKept'
  BY <1>1, <1>2, PageStays
<1> QED
  BY <1>1, <1>3 DEF PagesInv, Tabled, CountsNear, SubmissionsNear, MinutesNear

Switched(d, b) == IF d \in b THEN b \ {d} ELSE b \cup {d}

\* One submission, or one department switched, is one row of the report.
LEMMA RowStrays ==
    ASSUME NEW read, NEW g, NEW b, NEW d
    PROVE  /\ \A s : StrayedFrom(read, Put(g, d, s), b) \subseteq StrayedFrom(read, g, b) \cup {d}
           /\ StrayedFrom(read, g, Switched(d, b)) \subseteq StrayedFrom(read, g, b) \cup {d}
<1>1. PICK e : e = Switched(d, b)
  OBVIOUS
<1>2. SymDiff(read[2], e) \subseteq SymDiff(read[2], b) \cup {d}
  BY <1>1 DEF Switched, SymDiff
<1>3. StrayedFrom(read, g, e) \subseteq StrayedFrom(read, g, b) \cup {d}
  BY <1>2 DEF StrayedFrom
<1>4. ASSUME NEW s PROVE StrayedFrom(read, Put(g, d, s), b) \subseteq StrayedFrom(read, g, b) \cup {d}
  <2>1. Differ(read[1], Put(g, d, s)) \subseteq Differ(read[1], g) \cup {d}
    BY DEF Differ, Put
  <2> QED
    BY <2>1 DEF StrayedFrom
<1> QED
  BY <1>1, <1>3, <1>4

LEMMA SubmissionKeeps ==
    ASSUME PagesInv, SaveSubmission \/ SwitchDepartment
    PROVE  PagesInv'
<1>1. /\ page.kind = "readiness" /\ page' = page /\ changes'.rows = changes.rows + 1
      /\ items' = items /\ meetings' = meetings /\ approved' = approved
  BY DEF SaveSubmission, SwitchDepartment, SaveMinutes, Changed
<1>2. changes.rows \in Nat /\ changes'.rows \in Nat /\ DOMAIN minutes = {"submissions", "active"}
  BY <1>1 DEF PagesInv, Reading, Tabled
<1>3. PICK d : /\ DOMAIN minutes' = {"submissions", "active"}
               /\ Strayed' \subseteq Strayed \cup {d}
  <2>1. CASE SaveSubmission
    <3>1. PICK d, s : minutes' = [minutes EXCEPT !.submissions = Put(@, d, s)]
      BY <2>1 DEF SaveSubmission, SaveMinutes
    <3>2. /\ DOMAIN minutes' = {"submissions", "active"}
          /\ minutes'.submissions = Put(minutes.submissions, d, s) /\ minutes'.active = minutes.active
      BY <1>2, <3>1
    <3>3. PICK read, g, b : read = page.read /\ g = minutes.submissions /\ b = minutes.active
      OBVIOUS
    <3>4. Strayed = StrayedFrom(read, g, b)
      BY <3>3 DEF Strayed
    <3>5. Strayed' = StrayedFrom(read, Put(g, d, s), b)
      BY <1>1, <3>2, <3>3 DEF Strayed
    <3>6. Strayed' \subseteq Strayed \cup {d}
      BY <3>4, <3>5, RowStrays
    <3> QED
      BY <3>2, <3>6
  <2>2. CASE SwitchDepartment
    <3>1. PICK d : minutes' = [minutes EXCEPT !.active = IF d \in @ THEN @ \ {d} ELSE @ \cup {d}]
      BY <2>2 DEF SwitchDepartment, SaveMinutes
    <3>2. /\ DOMAIN minutes' = {"submissions", "active"}
          /\ minutes'.submissions = minutes.submissions
          /\ minutes'.active = Switched(d, minutes.active)
      BY <1>2, <3>1 DEF Switched
    <3>3. PICK read, g, b : read = page.read /\ g = minutes.submissions /\ b = minutes.active
      OBVIOUS
    <3>4. Strayed = StrayedFrom(read, g, b)
      BY <3>3 DEF Strayed
    <3>5. Strayed' = StrayedFrom(read, g, Switched(d, b))
      BY <1>1, <3>2, <3>3 DEF Strayed
    <3>6. Strayed' \subseteq Strayed \cup {d}
      BY <3>4, <3>5, RowStrays
    <3> QED
      BY <3>2, <3>6
  <2> QED
    BY <2>1, <2>2
<1>4. IsFiniteSet(Strayed') /\ Cardinality(Strayed') <= changes.rows + 1
  BY <1>1, <1>2, <1>3, OneMore DEF PagesInv, SubmissionsNear
<1>5. Reading' /\ FilesKept'
  BY <1>1, <1>2, PageStays
<1>6. SubmissionsNear'
  BY <1>1, <1>4 DEF SubmissionsNear
<1>7. Tabled' /\ CountsNear' /\ MinutesNear'
  BY <1>1, <1>3 DEF PagesInv, Tabled, CountsNear, MinutesNear
<1> QED
  BY <1>5, <1>6, <1>7 DEF PagesInv

\* An agenda with an item put in or changed says something new of that item,
\* and of the departments it was and is of; one without an item likewise.
LEMMA ItemPut ==
    ASSUME NEW agenda, NEW k, NEW row, NEW old,
           old = IF k \in DOMAIN agenda THEN agenda[k].department ELSE row.department,
           NEW next, next = Put(agenda, k, row)
    PROVE  /\ SymDiff(MissingDepartments(agenda), MissingDepartments(next)) \subseteq {old, row.department}
           /\ SymDiff(DOMAIN MissingItems(agenda), DOMAIN MissingItems(next)) \subseteq {k}
<1>1. /\ DOMAIN next = DOMAIN agenda \cup {k} /\ next[k] = row
      /\ \A j \in DOMAIN agenda : j # k => next[j] = agenda[j]
  BY DEF Put
<1>2. DOMAIN MissingItems(agenda) = {j \in DOMAIN agenda : ~ HasText(agenda[j])}
  BY DEF MissingItems
<1>3. DOMAIN MissingItems(next) = {j \in DOMAIN next : ~ HasText(next[j])}
  BY DEF MissingItems
<1>4. SymDiff(DOMAIN MissingItems(agenda), DOMAIN MissingItems(next)) \subseteq {k}
  BY <1>1, <1>2, <1>3 DEF SymDiff
<1>5. ASSUME NEW d, d # old, d # row.department
      PROVE  d \in MissingDepartments(agenda) <=> d \in MissingDepartments(next)
  <2>1. \A j \in DOMAIN next : next[j].department = d => j # k /\ j \in DOMAIN agenda
    BY <1>1, <1>5
  <2>2. \A j \in DOMAIN agenda : agenda[j].department = d => j # k
    BY <1>5
  <2> QED
    BY <1>1, <2>1, <2>2 DEF MissingDepartments
<1> QED
  BY <1>4, <1>5 DEF SymDiff

LEMMA ItemTaken ==
    ASSUME NEW agenda, NEW k \in DOMAIN agenda, NEW next, next = Restrict(agenda, DOMAIN agenda \ {k})
    PROVE  /\ SymDiff(MissingDepartments(agenda), MissingDepartments(next)) \subseteq {agenda[k].department}
           /\ SymDiff(DOMAIN MissingItems(agenda), DOMAIN MissingItems(next)) \subseteq {k}
<1>1. /\ DOMAIN next = DOMAIN agenda \ {k}
      /\ \A j \in DOMAIN agenda : j # k => next[j] = agenda[j]
  BY DEF Restrict
<1>2. DOMAIN MissingItems(agenda) = {j \in DOMAIN agenda : ~ HasText(agenda[j])}
  BY DEF MissingItems
<1>3. DOMAIN MissingItems(next) = {j \in DOMAIN next : ~ HasText(next[j])}
  BY DEF MissingItems
<1>4. SymDiff(DOMAIN MissingItems(agenda), DOMAIN MissingItems(next)) \subseteq {k}
  BY <1>1, <1>2, <1>3 DEF SymDiff
<1>5. ASSUME NEW d, d # agenda[k].department
      PROVE  d \in MissingDepartments(agenda) <=> d \in MissingDepartments(next)
  <2>1. \A j \in DOMAIN agenda : agenda[j].department = d => j # k
    BY <1>5
  <2> QED
    BY <1>1, <2>1 DEF MissingDepartments
<1> QED
  BY <1>4, <1>5 DEF SymDiff

Near(a, b, n) == IsFiniteSet(SymDiff(a, b)) /\ Cardinality(SymDiff(a, b)) <= n

\* From there to the distance of what was read from the new agenda.
LEMMA FurtherOff ==
    ASSUME NEW read, NEW old, NEW new, NEW n \in Nat, NEW x, NEW y, Near(read, old, n)
    PROVE  /\ SymDiff(old, new) \subseteq {x} => Near(read, new, n + 1)
           /\ SymDiff(old, new) \subseteq {x, y} => Near(read, new, n + 2)
<1>1. ASSUME SymDiff(old, new) \subseteq {x}
      PROVE  Near(read, new, n + 1)
  <2>1. SymDiff(read, new) \subseteq SymDiff(read, old) \cup {x}
    BY <1>1 DEF SymDiff
  <2> QED
    BY <2>1, OneMore DEF Near
<1>2. ASSUME SymDiff(old, new) \subseteq {x, y}
      PROVE  Near(read, new, n + 2)
  <2>0. PICK k : k = n + 1
    OBVIOUS
  <2>1. PICK m : m = SymDiff(read, old) \cup {x}
    OBVIOUS
  <2>2. k \in Nat /\ IsFiniteSet(m) /\ Cardinality(m) <= k
    BY <2>0, <2>1, OneMore DEF Near
  <2>3. SymDiff(read, new) \subseteq m \cup {y}
    BY <1>2, <2>1 DEF SymDiff
  <2>4. IsFiniteSet(SymDiff(read, new)) /\ Cardinality(SymDiff(read, new)) <= k + 1
    BY <2>2, <2>3, OneMore
  <2> QED
    BY <2>0, <2>4 DEF Near
<1> QED
  BY <1>1, <1>2

\* What the writers of the minutes have in common.
LEMMA MinutesMove ==
    ASSUME PagesInv, page.kind = "completeness", page' = page, NEW r \in {1, 2},
           changes'.rows = changes.rows + r,
           items' = items, meetings' = meetings, approved' = approved,
           DOMAIN minutes' = {"agenda", "linked"}, minutes'.linked \in BOOLEAN,
           1 \in DOMAIN page.read =>
              /\ IsFiniteSet(DepartmentsLost') /\ Cardinality(DepartmentsLost') <= changes.rows + r
              /\ IsFiniteSet(ItemsLost') /\ Cardinality(ItemsLost') <= changes.rows + r
    PROVE  PagesInv'
<1>1. changes.rows \in Nat /\ changes'.rows \in Nat /\ changes'.rows >= 1
  BY DEF PagesInv, Reading
<1>2. Reading' /\ FilesKept'
  BY <1>1, PageStays
<1>3. 2 \in DOMAIN page.read => page.read[2] \in BOOLEAN
  BY DEF PagesInv, MinutesNear
<1>4. MinutesNear'
  BY <1>1, <1>3 DEF MinutesNear
<1>5. Tabled' /\ CountsNear' /\ SubmissionsNear'
  BY DEF PagesInv, Tabled, CountsNear, SubmissionsNear
<1> QED
  BY <1>2, <1>4, <1>5 DEF PagesInv

LEMMA AgendaKeeps ==
    ASSUME PagesInv, SaveAgendaItem \/ DeleteAgendaItem \/ LinkSnapshot
    PROVE  PagesInv'
<1>1. /\ page.kind = "completeness" /\ page' = page
      /\ items' = items /\ meetings' = meetings /\ approved' = approved
  BY DEF SaveAgendaItem, DeleteAgendaItem, LinkSnapshot, SaveMinutes
<1>2. /\ changes.rows \in Nat /\ DOMAIN minutes = {"agenda", "linked"} /\ minutes.linked \in BOOLEAN
  BY <1>1 DEF PagesInv, Reading, Tabled
<1>3. PICK departments, things, agenda :
         /\ departments = MissingDepartments(page.read[1]) /\ things = DOMAIN MissingItems(page.read[1])
         /\ agenda = minutes.agenda
  OBVIOUS
<1>4. 1 \in DOMAIN page.read =>
         /\ Near(departments, MissingDepartments(agenda), changes.rows)
         /\ Near(things, DOMAIN MissingItems(agenda), changes.rows)
  BY <1>1, <1>3 DEF PagesInv, MinutesNear, DepartmentsLost, ItemsLost, Near
<1>5. ASSUME NEW next, minutes'.agenda = next, NEW r \in {1, 2},
             Near(departments, MissingDepartments(next), changes.rows + r),
             Near(things, DOMAIN MissingItems(next), changes.rows + 1)
      PROVE  /\ IsFiniteSet(DepartmentsLost') /\ Cardinality(DepartmentsLost') <= changes.rows + r
             /\ IsFiniteSet(ItemsLost') /\ Cardinality(ItemsLost') <= changes.rows + r
  <2>1. /\ DepartmentsLost' = SymDiff(departments, MissingDepartments(next))
        /\ ItemsLost' = SymDiff(things, DOMAIN MissingItems(next))
    BY <1>1, <1>3, <1>5 DEF DepartmentsLost, ItemsLost
  <2>2. Cardinality(ItemsLost') \in Nat
    BY <1>5, <2>1, FS_CardinalityType DEF Near
  <2> QED
    BY <1>2, <1>5, <2>1, <2>2 DEF Near
<1>6. CASE SaveAgendaItem
  <2>1. PICK k, row :
           SaveMinutes([minutes EXCEPT !.agenda = Put(@, k, row)],
                       IF k \in DOMAIN minutes.agenda /\ minutes.agenda[k].department # row.department
                       THEN 2 ELSE 1)
    BY <1>6 DEF SaveAgendaItem
  <2>2. PICK old, next, r :
           /\ old = IF k \in DOMAIN agenda THEN agenda[k].department ELSE row.department
           /\ next = Put(agenda, k, row)
           /\ r = IF k \in DOMAIN agenda /\ agenda[k].department # row.department THEN 2 ELSE 1
    OBVIOUS
  <2>3. minutes' = [minutes EXCEPT !.agenda = next] /\ changes'.rows = changes.rows + r
    BY <1>3, <2>1, <2>2 DEF SaveMinutes, Changed
  <2>4. /\ DOMAIN minutes' = {"agenda", "linked"} /\ minutes'.linked \in BOOLEAN
        /\ minutes'.agenda = next
    BY <1>2, <2>3
  <2>5. /\ SymDiff(MissingDepartments(agenda), MissingDepartments(next)) \subseteq {old, row.department}
        /\ SymDiff(DOMAIN MissingItems(agenda), DOMAIN MissingItems(next)) \subseteq {k}
    BY <2>2, ItemPut
  <2>6. r = 2 \/ (r = 1 /\ {old, row.department} = {old})
    BY <2>2
  <2>7. ASSUME 1 \in DOMAIN page.read
        PROVE  /\ IsFiniteSet(DepartmentsLost') /\ Cardinality(DepartmentsLost') <= changes.rows + r
               /\ IsFiniteSet(ItemsLost') /\ Cardinality(ItemsLost') <= changes.rows + r
    <3>1. Near(things, DOMAIN MissingItems(next), changes.rows + 1)
      BY <1>2, <1>4, <2>5, <2>7, FurtherOff
    <3>2. CASE r = 2
      <4>1. Near(departments, MissingDepartments(next), changes.rows + r)
        BY <1>2, <1>4, <2>5, <2>7, <3>2, FurtherOff
      <4> QED
        BY <1>5, <2>4, <3>1, <3>2, <4>1
    <3>3. CASE r = 1 /\ {old, row.department} = {old}
      <4>1. Near(departments, MissingDepartments(next), changes.rows + r)
        BY <1>2, <1>4, <2>5, <2>7, <3>3, FurtherOff
      <4> QED
        BY <1>5, <2>4, <3>1, <3>3, <4>1
    <3> QED
      BY <2>6, <3>2, <3>3
  <2> QED
    BY <1>1, <2>3, <2>4, <2>6, <2>7, MinutesMove
<1>7. CASE DeleteAgendaItem
  <2>1. PICK k \in DOMAIN agenda : SaveMinutes([minutes EXCEPT !.agenda = Restrict(@, DOMAIN @ \ {k})], 1)
    BY <1>3, <1>7 DEF DeleteAgendaItem
  <2>2. PICK next : next = Restrict(agenda, DOMAIN agenda \ {k})
    OBVIOUS
  <2>3. minutes' = [minutes EXCEPT !.agenda = next] /\ changes'.rows = changes.rows + 1
    BY <1>3, <2>1, <2>2 DEF SaveMinutes, Changed
  <2>4. /\ DOMAIN minutes' = {"agenda", "linked"} /\ minutes'.linked \in BOOLEAN
        /\ minutes'.agenda = next
    BY <1>2, <2>3
  <2>5. /\ SymDiff(MissingDepartments(agenda), MissingDepartments(next)) \subseteq {agenda[k].department}
        /\ SymDiff(DOMAIN MissingItems(agenda), DOMAIN MissingItems(next)) \subseteq {k}
    BY <2>2, ItemTaken
  <2>6. ASSUME 1 \in DOMAIN page.read
        PROVE  /\ IsFiniteSet(DepartmentsLost') /\ Cardinality(DepartmentsLost') <= changes.rows + 1
               /\ IsFiniteSet(ItemsLost') /\ Cardinality(ItemsLost') <= changes.rows + 1
    <3>1. /\ Near(things, DOMAIN MissingItems(next), changes.rows + 1)
          /\ Near(departments, MissingDepartments(next), changes.rows + 1)
      BY <1>2, <1>4, <2>5, <2>6, FurtherOff
    <3> QED
      BY <1>5, <2>4, <3>1
  <2> QED
    BY <1>1, <2>3, <2>4, <2>6, MinutesMove
<1>8. CASE LinkSnapshot
  <2>1. minutes' = [minutes EXCEPT !.linked = TRUE] /\ changes'.rows = changes.rows + 1
    BY <1>8 DEF LinkSnapshot, SaveMinutes, Changed
  <2>2. /\ DOMAIN minutes' = {"agenda", "linked"} /\ minutes'.linked \in BOOLEAN
        /\ minutes'.agenda = agenda
    BY <1>2, <1>3, <2>1
  <2>3. SymDiff(MissingDepartments(agenda), MissingDepartments(agenda)) \subseteq {agenda}
    BY SameSets
  <2>4. SymDiff(DOMAIN MissingItems(agenda), DOMAIN MissingItems(agenda)) \subseteq {agenda}
    BY SameSets
  <2>5. ASSUME 1 \in DOMAIN page.read
        PROVE  /\ IsFiniteSet(DepartmentsLost') /\ Cardinality(DepartmentsLost') <= changes.rows + 1
               /\ IsFiniteSet(ItemsLost') /\ Cardinality(ItemsLost') <= changes.rows + 1
    <3>1. /\ Near(things, DOMAIN MissingItems(agenda), changes.rows + 1)
          /\ Near(departments, MissingDepartments(agenda), changes.rows + 1)
      BY <1>2, <1>4, <2>3, <2>4, <2>5, FurtherOff
    <3> QED
      BY <1>5, <2>2, <3>1
  <2> QED
    BY <1>1, <2>1, <2>2, <2>5, MinutesMove
<1> QED
  BY <1>6, <1>7, <1>8

-----------------------------------------------------------------------------
(* The invariant, and what it says of every page, list and file.            *)

LEMMA StepKeeps == PagesInv /\ [Next]_vars => PagesInv'
<1> SUFFICES ASSUME PagesInv, [Next]_vars PROVE PagesInv'
  OBVIOUS
<1>1. CASE Next
  BY <1>1, StartKeeps, DashboardKeeps, ReadKeeps, RespondKeeps, FileKeeps, SaveFiguresKeeps,
     SaveItemKeeps, SubmissionKeeps, AgendaKeeps, SaveMeetingKeeps DEF Next
<1>2. CASE UNCHANGED vars
  <2>1. /\ items' = items /\ minutes' = minutes /\ meetings' = meetings /\ approved' = approved
        /\ page' = page /\ changes' = changes
    BY <1>2 DEF vars, tables
  <2>2. Tabled' /\ Reading' /\ FilesKept'
    BY <2>1 DEF PagesInv, Tabled, Reading, FilesKept
  <2>3. CountsNear'
    BY <2>1, Tallied DEF PagesInv, CountsNear
  <2>4. SubmissionsNear' /\ MinutesNear'
    BY <2>1 DEF PagesInv, SubmissionsNear, Strayed, MinutesNear, DepartmentsLost, ItemsLost
  <2> QED
    BY <2>2, <2>3, <2>4 DEF PagesInv
<1> QED
  BY <1>1, <1>2

LEMMA PagesInvAlways == Spec => []PagesInv
  BY Starts, StepKeeps, PTL DEF Spec

LEMMA ReadAll ==
    ASSUME PagesInv, page.kind \in {"readiness", "completeness"}, page.todo = {}
    PROVE  1 \in DOMAIN page.read /\ 2 \in DOMAIN page.read
<1>1. page.kind \in QueryKinds /\ DOMAIN Queries(page.kind) = {1, 2}
  <2>1. CASE page.kind = "readiness"
    BY <2>1, QueriesLong DEF QueryKinds
  <2>2. CASE page.kind = "completeness"
    BY <2>2, QueriesLong DEF QueryKinds
  <2> QED
    BY <2>1, <2>2
<1> QED
  BY <1>1 DEF PagesInv, Reading

\* A row of the readiness report that is out of date is one of a submission or
\* a department that has strayed.
LEMMA ReadinessNear ==
    ASSUME PagesInv, page.kind = "readiness", page.todo = {}, NEW read, NEW now,
           read = Readiness(page.read[1], page.read[2]),
           now = Readiness(minutes.submissions, minutes.active), NEW off,
           off = {d \in DOMAIN read \cup DOMAIN now :
                     d \notin DOMAIN read \cap DOMAIN now \/ read[d] # now[d]}
    PROVE  Cardinality(off) <= changes.rows
<1>1. Strayed = Differ(page.read[1], minutes.submissions) \cup SymDiff(page.read[2], minutes.active)
  BY ReadAll DEF Strayed, StrayedFrom
<1>2. off \subseteq Strayed
  BY <1>1 DEF Readiness, Differ, SymDiff
<1>3. IsFiniteSet(Strayed) /\ Cardinality(Strayed) <= changes.rows /\ changes.rows \in Nat
  BY DEF PagesInv, SubmissionsNear, Reading
<1>4. IsFiniteSet(off) /\ Cardinality(off) <= Cardinality(Strayed)
  BY <1>2, <1>3, FS_Subset
<1>5. Cardinality(off) \in Nat /\ Cardinality(Strayed) \in Nat
  BY <1>3, <1>4, FS_CardinalityType
<1> QED
  BY <1>3, <1>4, <1>5

LEMMA SectionNear ==
    ASSUME PagesInv, page.kind = "completeness", page.todo = {}, NEW s \in Sections, NEW read, NEW now,
           read = Missing(s, page.read[1], page.read[2]),
           now = Missing(s, minutes.agenda, minutes.linked)
    PROVE  Cardinality((read \ now) \cup (now \ read)) <= changes.rows
<1>1. /\ Cardinality(DepartmentsLost) <= changes.rows /\ Cardinality(ItemsLost) <= changes.rows
      /\ page.read[2] \in BOOLEAN /\ (page.read[2] = minutes.linked \/ changes.rows >= 1)
      /\ changes.rows \in Nat /\ minutes.linked \in BOOLEAN
  BY ReadAll DEF PagesInv, MinutesNear, Reading, Tabled
<1>2. s = "DEPT_UPDATES" => read = MissingDepartments(page.read[1]) /\ now = MissingDepartments(minutes.agenda)
  BY DEF Missing
<1>3. s = "ACTION_ITEMS" => read = DOMAIN MissingItems(page.read[1]) /\ now = DOMAIN MissingItems(minutes.agenda)
  BY DEF Missing
<1>4. s = "SALES" => /\ read = IF page.read[2] THEN {} ELSE {"snapshot"}
                     /\ now = IF minutes.linked THEN {} ELSE {"snapshot"}
  BY DEF Missing
<1>5. s = "OPENING" => read = {} /\ now = {}
  BY DEF Missing
<1>6. CASE s = "DEPT_UPDATES"
  BY <1>1, <1>2, <1>6 DEF DepartmentsLost, SymDiff
<1>7. CASE s = "ACTION_ITEMS"
  BY <1>1, <1>3, <1>7 DEF ItemsLost, SymDiff
<1>8. CASE s = "SALES"
  <2>1. Cardinality({}) = 0 /\ Cardinality({"snapshot"}) = 1
    BY FS_EmptySet, FS_Singleton
  <2>2. CASE page.read[2] = minutes.linked
    <3>1. (read \ now) \cup (now \ read) = {}
      BY <1>4, <1>8, <2>2
    <3> QED
      BY <1>1, <2>1, <3>1
  <2>3. CASE page.read[2] # minutes.linked
    <3>1. (read \ now) \cup (now \ read) = {"snapshot"}
      BY <1>1, <1>4, <1>8, <2>3
    <3> QED
      BY <1>1, <2>1, <2>3, <3>1
  <2> QED
    BY <2>2, <2>3
<1>9. CASE s = "OPENING"
  <2>1. (read \ now) \cup (now \ read) = {}
    BY <1>5, <1>9
  <2> QED
    BY <1>1, <2>1, SameSets
<1> QED
  BY <1>6, <1>7, <1>8, <1>9 DEF Sections

\* For every number of rows, users, departments and meetings, and for every
\* number of changes while a page is made: the counts of the home page and of
\* the preparation page, the rows of the readiness report and what is missing
\* in a section of the minutes are off by no more rows than were changed.
THEOREM PagesExplainedAlways == Spec => []PagesExplained
<1>1. PagesInv => PagesExplained
  <2> SUFFICES ASSUME PagesInv PROVE PagesExplained
    OBVIOUS
  <2>1. page.kind \in {"home", "prep"} =>
           \A n \in DOMAIN page.read :
               Distance(page.read[n], Count(Queries(page.kind)[n], page.user)) <= changes.rows
    BY DEF PagesInv, CountsNear
  <2> QED
    BY <2>1, ReadinessNear, SectionNear DEF PagesExplained
<1> QED
  BY <1>1, PagesInvAlways, PTL

\* Every file that was sent was logged, and the other way round; no minutes
\* that are not approved; and exports, for those who may have them.
THEOREM FilesGuardedAlways == Spec => []FilesGuarded
<1>1. PagesInv => FilesGuarded
  <2> SUFFICES ASSUME PagesInv, page.kind = "file", page.pc = "done"
               PROVE  /\ page.logged = (page.read # <<>>)
                      /\ page.logged /\ page.slug = "management-meeting-minutes" => approved = "yes"
                      /\ page.logged /\ page.format \in {"excel", "word", "workbook"} =>
                            page.user.roles \notin SUBSET {"Viewer", "Department Contributor"}
    BY DEF FilesGuarded
  <2>1. /\ "Viewer" \notin ExportRoles \cup SalesExportRoles
        /\ "Department Contributor" \notin ExportRoles \cup SalesExportRoles
    BY DEF ExportRoles, SalesExportRoles, Managers
  <2>2. page.logged /\ page.format \in {"excel", "word", "workbook"} =>
           page.user.roles \cap (ExportRoles \cup SalesExportRoles) # {}
    BY DEF PagesInv, FilesKept
  <2> QED
    BY <2>1, <2>2 DEF PagesInv, FilesKept
<1> QED
  BY <1>1, PagesInvAlways, PTL

\* The pages that select rows of one table by filters of their own agree on
\* what is overdue, whose an item is and who may open it; what is missing in
\* minutes is what their snapshot would not quote.
THEOREM ListsAgreeAlways == Spec => []ListsAgree
<1>1. PagesInv => ListsAgree
  <2> SUFFICES ASSUME PagesInv PROVE ListsAgree
    OBVIOUS
  <2>1. \A k \in DOMAIN items : items[k].status \in Active <=> items[k].status \notin Terminal
    <3>1. CASE items = <<>>
      BY <3>1
    <3>2. CASE items \in [Items -> ItemRows]
      BY <3>2, RowsAssumption, StatusesAssumption
    <3> QED
      BY <3>1, <3>2 DEF PagesInv, Tabled
  <2>2. PICK overdue : overdue = OverdueReport(items, Today)
    OBVIOUS
  <2>3. overdue = {k \in DOMAIN items : IsOverdue(items[k], Today)}
    BY <2>2 DEF OverdueReport, IsOverdue, Before
  <2>4. overdue \subseteq OpenReport(items)
    BY <2>1, <2>2 DEF OverdueReport, OpenReport
  <2>5. ASSUME NEW user \in Visitors, NEW mine, mine = {k \in DOMAIN items : Mine(user, items[k])}
        PROVE  /\ OverdueView(user, items, Today) = overdue \cap ListView(user, items)
               /\ OverdueMine(user, items, Today) = overdue \cap mine
               /\ MyView(user, items) = mine
               /\ \A k \in ListView(user, items) : MayView(user, items[k])
               /\ DepartmentView(user, items) \subseteq ListView(user, items)
    <3>1. \A k : Listed(user, items[k]) => user.roles \cap Viewers # {} \/ Mine(user, items[k])
      BY DEF Listed, Viewers, Authors
    <3>2. OverdueView(user, items, Today) = overdue \cap ListView(user, items)
      BY <2>1, <2>2, <3>1 DEF OverdueView, OverdueQuery, OverdueReport, ListView
    <3>3. OverdueMine(user, items, Today) = overdue \cap mine
      BY <2>1, <2>2, <2>5 DEF OverdueMine, AssignedMe, TotalOpen, OverdueReport
    <3>4. MyView(user, items) = mine
      BY <2>5 DEF MyView, ListView, Listed
    <3>5. \A k \in ListView(user, items) : MayView(user, items[k])
      BY <3>1 DEF ListView, MayView, Related, Mine
    <3>6. DepartmentView(user, items) \subseteq ListView(user, items)
      BY DEF DepartmentView
    <3> QED
      BY <3>2, <3>3, <3>4, <3>5, <3>6
  <2>6. ASSUME NEW agenda, NEW quoted, quoted = Discussions(agenda) \cup Decisions(agenda), NEW linked
        PROVE  /\ MissingDepartments(agenda) =
                     ({agenda[k].department : k \in DOMAIN agenda} \ {NoDepartment})
                        \ ({agenda[k].department : k \in quoted} \ {NoDepartment})
               /\ DOMAIN MissingItems(agenda) = DOMAIN agenda \ quoted
               /\ AllPassed({"ACTION_ITEMS"}, agenda, linked) =>
                     AllPassed({"ACTION_ITEMS", "DEPT_UPDATES"}, agenda, linked)
    <3>1. quoted = {k \in DOMAIN agenda : HasText(agenda[k])}
      BY <2>6 DEF Discussions, Decisions, HasText
    <3>2. DOMAIN MissingItems(agenda) = DOMAIN agenda \ quoted
      BY <3>1 DEF MissingItems
    <3>3. MissingDepartments(agenda) =
             ({agenda[k].department : k \in DOMAIN agenda} \ {NoDepartment})
                \ ({agenda[k].department : k \in quoted} \ {NoDepartment})
      BY <3>1 DEF MissingDepartments
    <3>4. /\ Missing("ACTION_ITEMS", agenda, linked) = DOMAIN MissingItems(agenda)
          /\ Missing("DEPT_UPDATES", agenda, linked) = MissingDepartments(agenda)
      BY DEF Missing
    <3>5. DOMAIN MissingItems(agenda) = {} => MissingDepartments(agenda) = {}
      BY <3>1, <3>2, <3>3
    <3> QED
      BY <3>2, <3>3, <3>4, <3>5 DEF AllPassed
  <2> QED
    BY <2>2, <2>3, <2>4, <2>5, <2>6 DEF ListsAgree
<1> QED
  BY <1>1, PagesInvAlways, PTL
-----------------------------------------------------------------------------
(* The figures of the sales dashboard.                                      *)

FiguresType == [SalesGroups -> [target : Amounts, actual : Amounts]]

\* What the dashboard has read is of the figures of groups that are shown, the
\* teams' before the overall ones.
FiguresTyped ==
    /\ figures = <<>> \/ figures \in FiguresType
    /\ shown.groups \subseteq SalesGroups
    /\ changes.figures \in Nat

FiguresRead ==
    page.kind = "dashboard" =>
        /\ figures \in FiguresType
        /\ page.todo \cup DOMAIN page.read = Cells(shown) /\ page.todo \cap DOMAIN page.read = {}
        /\ \A c \in DOMAIN page.read : page.read[c] \in Amounts
        /\ \A c \in DOMAIN page.read, d \in page.todo : c[1] = "overall" => d[1] = "overall"

\* How far what a team shows of a group's column is from what the overall
\* totals show of it, or would show if they were read now.
Off(read, f, g, t) ==
    IF <<"team", g, t>> \notin DOMAIN read THEN 0
    ELSE IF <<"overall", g, t>> \in DOMAIN read
         THEN Distance(read[<<"team", g, t>>], read[<<"overall", g, t>>])
         ELSE Distance(read[<<"team", g, t>>], f[g][t])

OffTotal(read, f, t, G) == SumFunctionOnSet([g \in G |-> Off(read, f, g, t)], G)

FiguresNear ==
    page.kind = "dashboard" =>
        OffTotal(page.read, figures, "target", TeamGroups(shown))
        + OffTotal(page.read, figures, "actual", TeamGroups(shown)) <= changes.figures

FiguresInv == FiguresTyped /\ FiguresRead /\ FiguresNear

LEMMA DistanceTyped ==
    \A x, y \in Int : /\ Distance(x, y) \in Nat /\ Distance(x, x) = 0 /\ Distance(x, y) = Distance(y, x)
                      /\ x - y <= Distance(x, y) /\ y - x <= Distance(x, y)
  BY DEF Distance

LEMMA DistanceWithin ==
    \A x, y, z \in Int : /\ Distance(x, z) <= Distance(x, y) + Distance(y, z)
                         /\ (x - y <= z /\ y - x <= z => Distance(x, y) <= z)
  BY DEF Distance

LEMMA GroupsFinite ==
    FiguresTyped => /\ IsFiniteSet(shown.groups) /\ IsFiniteSet(TeamGroups(shown))
                    /\ TeamGroups(shown) \subseteq shown.groups /\ TeamGroups(shown) \subseteq SalesGroups
<1> SUFFICES ASSUME FiguresTyped
             PROVE  /\ IsFiniteSet(shown.groups) /\ IsFiniteSet(TeamGroups(shown))
                    /\ TeamGroups(shown) \subseteq shown.groups /\ TeamGroups(shown) \subseteq SalesGroups
  OBVIOUS
<1>1. TeamGroups(shown) \subseteq shown.groups /\ shown.groups \subseteq SalesGroups
  BY DEF FiguresTyped, TeamGroups
<1>2. \A S \in SUBSET SalesGroups : IsFiniteSet(S)
  BY RowsAssumption, FS_Subset
<1> QED
  BY <1>1, <1>2

\* The cells by name.
LEMMA CellsNamed ==
    ASSUME NEW s
    PROVE  /\ \A g, t : <<"team", g, t>> \in Cells(s) <=> g \in TeamGroups(s) /\ t \in Tables
           /\ \A g, t : <<"overall", g, t>> \in Cells(s) <=> g \in s.groups /\ t \in Tables
           /\ \A c \in Cells(s) : /\ c = <<c[1], c[2], c[3]>> /\ c[1] \in {"team", "overall"}
                                  /\ c[2] \in s.groups /\ c[3] \in Tables
                                  /\ c[1] = "team" => c[2] \in TeamGroups(s)
  BY DEF Cells, TeamGroups

LEMMA OffTyped ==
    ASSUME NEW read, NEW f \in FiguresType, NEW g \in SalesGroups, NEW t \in Tables,
           \A c \in DOMAIN read : read[c] \in Amounts
    PROVE  Off(read, f, g, t) \in Nat
<1>1. f[g][t] \in Int /\ \A c \in DOMAIN read : read[c] \in Int
  BY AmountsAssumption DEF FiguresType, Tables
<1> QED
  BY <1>1, DistanceTyped DEF Off

LEMMA FiguresStart == Init => FiguresInv
<1> SUFFICES ASSUME Init PROVE FiguresInv
  OBVIOUS
<1>1. page.kind = "none" /\ changes.figures = 0
  BY DEF Init, NoPage, NoChanges
<1>2. shown.groups \subseteq SalesGroups
  BY DEF Init, NothingShown
<1>3. figures = <<>> \/ figures \in FiguresType
  BY DEF Init, Filled, FiguresType
<1> QED
  BY <1>1, <1>2, <1>3 DEF FiguresInv, FiguresTyped, FiguresRead, FiguresNear

\* Nothing read, nothing off.
LEMMA DashboardStartKeeps ==
    ASSUME FiguresInv, StartDashboard
    PROVE  FiguresInv'
<1>1. page' = [NoPage EXCEPT !.kind = "dashboard", !.pc = "reading", !.todo = Cells(shown)]
  BY DEF StartDashboard, Begin
<1>2. /\ page'.kind = "dashboard" /\ page'.todo = Cells(shown) /\ page'.read = <<>> /\ DOMAIN <<>> = {}
      /\ shown' = shown /\ figures' = figures /\ figures # <<>> /\ changes'.figures = 0
  BY <1>1 DEF StartDashboard, Begin, NoPage, NoChanges, tables
<1>3. FiguresTyped' /\ figures \in FiguresType
  BY <1>2 DEF FiguresInv, FiguresTyped
<1>4. FiguresRead'
  BY <1>2, <1>3 DEF FiguresRead
<1>5. \A t \in Tables : OffTotal(<<>>, figures, t, TeamGroups(shown)) = 0
  <2> SUFFICES ASSUME NEW t \in Tables PROVE OffTotal(<<>>, figures, t, TeamGroups(shown)) = 0
    OBVIOUS
  <2>1. PICK G : G = TeamGroups(shown) /\ IsFiniteSet(G)
    BY GroupsFinite DEF FiguresInv
  <2>2. \A g \in G : [h \in G |-> Off(<<>>, figures, h, t)][g] = 0
    BY <1>2 DEF Off
  <2>3. SumFunctionOnSet([h \in G |-> Off(<<>>, figures, h, t)], G) = 0
    BY <2>1, <2>2, SumZero
  <2> QED
    BY <2>1, <2>3 DEF OffTotal
<1>6. FiguresNear'
  BY <1>2, <1>5 DEF FiguresNear, Tables
<1> QED
  BY <1>3, <1>4, <1>6 DEF FiguresInv

\* A page that is not the dashboard.
LEMMA OthersKeep ==
    ASSUME FiguresInv, page'.kind # "dashboard", UNCHANGED <<shown, figures>>, changes'.figures \in Nat
    PROVE  FiguresInv'
  BY DEF FiguresInv, FiguresTyped, FiguresRead, FiguresNear

\* What a read adds is what it reads.
LEMMA ReadFigureKeeps ==
    ASSUME FiguresInv, PagesInv, ReadFigure
    PROVE  FiguresInv'
<1>1. PICK c \in page.todo :
         /\ c[1] = "overall" => \A d \in page.todo : d[1] = "overall"
         /\ page' = [page EXCEPT !.todo = @ \ {c},
                       !.read = [d \in DOMAIN @ \cup {c} |-> IF d = c THEN figures[c[2]][c[3]] ELSE @[d]]]
  BY DEF ReadFigure
<1>2. PICK read, next : read = page.read /\ next = page'.read
  OBVIOUS
<1>3. /\ page.kind = "dashboard" /\ page'.kind = "dashboard" /\ page'.todo = page.todo \ {c}
      /\ page'.read = [d \in DOMAIN page.read \cup {c} |->
                          IF d = c THEN figures[c[2]][c[3]] ELSE page.read[d]]
      /\ shown' = shown /\ figures' = figures /\ changes' = changes
  BY <1>1 DEF ReadFigure, tables, PagesInv, Reading, Fields
<1>4. /\ figures \in FiguresType /\ c \in Cells(shown) /\ c \notin DOMAIN read
      /\ page.todo \cup DOMAIN read = Cells(shown) /\ page.todo \cap DOMAIN read = {}
      /\ \A d \in DOMAIN read : read[d] \in Amounts
      /\ \A d \in DOMAIN read, e \in page.todo : d[1] = "overall" => e[1] = "overall"
  BY <1>2, <1>3 DEF FiguresInv, FiguresRead
<1>5. DOMAIN next = DOMAIN read \cup {c} /\ next[c] = figures[c[2]][c[3]] /\ \A d \in DOMAIN read : next[d] = read[d]
  BY <1>2, <1>3, <1>4
<1>6. PICK k, h, u : c = <<k, h, u>> /\ k \in {"team", "overall"} /\ h \in shown.groups /\ u \in Tables
  BY <1>4, CellsNamed
<1>7. next[c] = figures[h][u] /\ figures[h][u] \in Amounts /\ h \in SalesGroups
  BY <1>4, <1>5, <1>6 DEF FiguresInv, FiguresTyped, FiguresType, Tables
<1>8. FiguresTyped'
  BY <1>3 DEF FiguresInv, FiguresTyped
<1>9. FiguresRead'
  BY <1>1, <1>2, <1>3, <1>4, <1>5, <1>7 DEF FiguresRead
<1>10. ASSUME NEW g \in TeamGroups(shown), NEW t \in Tables
       PROVE  Off(next, figures, g, t) = Off(read, figures, g, t)
  <2>1. /\ <<"team", g, t>> \in page.todo \/ <<"team", g, t>> \in DOMAIN read
        /\ <<"team", g, t>>[1] = "team"
    BY <1>4, CellsNamed
  <2>2. CASE c = <<"team", g, t>>
    <3>1. <<"overall", g, t>> \notin DOMAIN next
      BY <1>4, <1>5, <2>2
    <3>2. <<"team", g, t>> \in DOMAIN next /\ next[<<"team", g, t>>] = figures[g][t] /\ figures[g][t] \in Int
      <4>1. g = h /\ t = u /\ c \in DOMAIN next
        BY <1>5, <1>6, <2>2
      <4> QED
        BY <1>7, <2>2, <4>1, AmountsAssumption
    <3>3. <<"team", g, t>> \notin DOMAIN read
      BY <1>4, <2>2
    <3> QED
      BY <3>1, <3>2, <3>3, DistanceTyped DEF Off
  <2>3. CASE c = <<"overall", g, t>>
    <3>1. <<"team", g, t>> \in DOMAIN read
      BY <1>1, <2>1, <2>3
    <3>2. /\ <<"overall", g, t>> \notin DOMAIN read /\ <<"overall", g, t>> \in DOMAIN next
          /\ next[<<"overall", g, t>>] = figures[g][t]
          /\ <<"team", g, t>> \in DOMAIN next /\ next[<<"team", g, t>>] = read[<<"team", g, t>>]
      BY <1>4, <1>5, <1>6, <1>7, <2>3, <3>1
    <3> QED
      BY <3>1, <3>2 DEF Off
  <2>4. CASE c # <<"team", g, t>> /\ c # <<"overall", g, t>>
    <3>1. /\ <<"team", g, t>> \in DOMAIN next <=> <<"team", g, t>> \in DOMAIN read
          /\ <<"overall", g, t>> \in DOMAIN next <=> <<"overall", g, t>> \in DOMAIN read
          /\ <<"team", g, t>> \in DOMAIN read => next[<<"team", g, t>>] = read[<<"team", g, t>>]
          /\ <<"overall", g, t>> \in DOMAIN read => next[<<"overall", g, t>>] = read[<<"overall", g, t>>]
      BY <1>5, <2>4
    <3> QED
      BY <3>1 DEF Off
  <2> QED
    BY <2>2, <2>3, <2>4
<1>11. \A t \in Tables : OffTotal(next, figures, t, TeamGroups(shown)) = OffTotal(read, figures, t, TeamGroups(shown))
  <2> SUFFICES ASSUME NEW t \in Tables
               PROVE  OffTotal(next, figures, t, TeamGroups(shown)) = OffTotal(read, figures, t, TeamGroups(shown))
    OBVIOUS
  <2>1. PICK G : G = TeamGroups(shown) /\ IsFiniteSet(G)
    BY GroupsFinite DEF FiguresInv
  <2>2. PICK p, q : p = [g \in G |-> Off(next, figures, g, t)] /\ q = [g \in G |-> Off(read, figures, g, t)]
    OBVIOUS
  <2>3. \A g \in G : p[g] = q[g]
    BY <1>10, <2>1, <2>2
  <2>4. SumFunctionOnSet(p, G) = SumFunctionOnSet(q, G)
    BY <2>1, <2>3, SumSame
  <2> QED
    BY <2>1, <2>2, <2>4 DEF OffTotal
<1>12. FiguresNear'
  BY <1>2, <1>3, <1>11 DEF FiguresInv, FiguresNear, Tables
<1> QED
  BY <1>8, <1>9, <1>12 DEF FiguresInv

\* A figure that is saved moves what a team shows of it by no more than the
\* figure moved.
LEMMA OffMoves ==
    ASSUME NEW read, NEW f \in FiguresType, NEW f2 \in FiguresType, NEW g \in SalesGroups, NEW t \in Tables,
           \A c \in DOMAIN read : read[c] \in Amounts
    PROVE  /\ Off(read, f, g, t) \in Nat /\ Off(read, f2, g, t) \in Nat
           /\ Off(read, f2, g, t) <= Off(read, f, g, t) + Distance(f2[g][t], f[g][t])
<1>1. f[g][t] \in Int /\ f2[g][t] \in Int /\ \A c \in DOMAIN read : read[c] \in Int
  BY AmountsAssumption DEF FiguresType, Tables
<1>2. Off(read, f, g, t) \in Nat /\ Off(read, f2, g, t) \in Nat /\ Distance(f2[g][t], f[g][t]) \in Nat
  BY <1>1, OffTyped, DistanceTyped
<1>3. CASE <<"team", g, t>> \notin DOMAIN read
  BY <1>2, <1>3 DEF Off
<1>4. CASE <<"team", g, t>> \in DOMAIN read /\ <<"overall", g, t>> \in DOMAIN read
  <2>1. Off(read, f2, g, t) = Off(read, f, g, t)
    BY <1>4 DEF Off
  <2> QED
    BY <1>2, <2>1
<1>5. CASE <<"team", g, t>> \in DOMAIN read /\ <<"overall", g, t>> \notin DOMAIN read
  <2>1. PICK x \in Int : x = read[<<"team", g, t>>]
    BY <1>1, <1>5
  <2>2. Off(read, f2, g, t) = Distance(x, f2[g][t]) /\ Off(read, f, g, t) = Distance(x, f[g][t])
    BY <1>5, <2>1 DEF Off
  <2>3. PICK y \in Int, z \in Int : y = f[g][t] /\ z = f2[g][t]
    BY <1>1
  <2>4. Distance(x, z) <= Distance(x, y) + Distance(y, z) /\ Distance(y, z) = Distance(z, y)
    BY DistanceTyped, DistanceWithin
  <2> QED
    BY <1>2, <2>2, <2>3, <2>4
<1> QED
  BY <1>3, <1>4, <1>5

LEMMA OffTotalMoves ==
    ASSUME NEW read, NEW f \in FiguresType, NEW g \in SalesGroups, NEW t \in Tables, NEW a \in Amounts,
           NEW f2, f2 = [f EXCEPT ![g][t] = a], NEW G \in SUBSET SalesGroups, NEW u \in Tables,
           \A c \in DOMAIN read : read[c] \in Amounts
    PROVE  /\ OffTotal(read, f, u, G) \in Int /\ OffTotal(read, f2, u, G) \in Int
           /\ OffTotal(read, f2, u, G) <=
                 OffTotal(read, f, u, G) + (IF u = t THEN Distance(a, f[g][t]) ELSE 0)
<1>1. /\ f2 \in FiguresType /\ f2[g][t] = a
      /\ \A h \in SalesGroups, v \in Tables : h # g \/ v # t => f2[h][v] = f[h][v]
  BY DEF FiguresType, Tables
<1>2. IsFiniteSet(G)
  BY RowsAssumption, FS_Subset
<1>3. PICK p, q : p = [h \in G |-> Off(read, f, h, u)] /\ q = [h \in G |-> Off(read, f2, h, u)]
  OBVIOUS
<1>4. \A h \in G : p[h] \in Int /\ q[h] \in Int
  <2>1. \A h \in SalesGroups : Off(read, f, h, u) \in Nat
    BY OffTyped
  <2>2. \A h \in SalesGroups : Off(read, f2, h, u) \in Nat
    BY <1>1, OffTyped
  <2> SUFFICES ASSUME NEW h \in G PROVE p[h] \in Int /\ q[h] \in Int
    OBVIOUS
  <2>3. p[h] = Off(read, f, h, u) /\ q[h] = Off(read, f2, h, u)
    BY <1>3
  <2>4. Off(read, f, h, u) \in Nat /\ Off(read, f2, h, u) \in Nat
    BY <2>1, <2>2
  <2> QED
    BY <2>3, <2>4
<1>5. SumFunctionOnSet(p, G) \in Int /\ SumFunctionOnSet(q, G) \in Int
  BY <1>2, <1>4, SumTyped
<1>6. Distance(a, f[g][t]) \in Nat
  BY AmountsAssumption, DistanceTyped DEF FiguresType, Tables
<1>7. \A h \in G : h # g \/ u # t => p[h] = q[h]
  <2> SUFFICES ASSUME NEW h \in G, h # g \/ u # t PROVE p[h] = q[h]
    OBVIOUS
  <2>1. f2[h][u] = f[h][u]
    BY <1>1
  <2> QED
    BY <1>3, <2>1 DEF Off
<1>8. CASE u = t /\ g \in G
  <2>1. PICK R : R = G \ {g} /\ IsFiniteSet(R)
    BY <1>2, FS_Subset
  <2>2. /\ SumFunctionOnSet(p, G) = p[g] + SumFunctionOnSet(p, R)
        /\ SumFunctionOnSet(q, G) = q[g] + SumFunctionOnSet(q, R)
        /\ SumFunctionOnSet(p, R) \in Int
    <3>1. (\A h \in G : p[h] \in Int) /\ (\A h \in G : q[h] \in Int)
      BY <1>4
    <3>2. SumFunctionOnSet(p, G) = p[g] + SumFunctionOnSet(p, G \ {g}) /\ SumFunctionOnSet(p, G \ {g}) \in Int
      BY <1>2, <1>8, <3>1, SumStep
    <3>3. SumFunctionOnSet(q, G) = q[g] + SumFunctionOnSet(q, G \ {g})
      BY <1>2, <1>8, <3>1, SumStep
    <3> QED
      BY <2>1, <3>2, <3>3
  <2>3. SumFunctionOnSet(p, R) = SumFunctionOnSet(q, R)
    <3>1. \A h \in R : p[h] = q[h]
      BY <1>7, <2>1
    <3> QED
      BY <2>1, <3>1, SumSame
  <2>4. q[g] <= p[g] + Distance(a, f[g][t])
    <3>1. Off(read, f2, g, t) <= Off(read, f, g, t) + Distance(f2[g][t], f[g][t])
      BY <1>1, OffMoves
    <3> QED
      BY <1>1, <1>3, <1>8, <3>1
  <2>5. SumFunctionOnSet(q, G) <= SumFunctionOnSet(p, G) + Distance(a, f[g][t])
    BY <1>4, <1>6, <1>8, <2>2, <2>3, <2>4
  <2> QED
    BY <1>3, <1>5, <1>8, <2>5 DEF OffTotal
<1>9. CASE u # t \/ g \notin G
  <2>1. \A h \in G : p[h] = q[h]
    BY <1>7, <1>9
  <2>2. SumFunctionOnSet(p, G) = SumFunctionOnSet(q, G)
    BY <1>2, <2>1, SumSame
  <2> QED
    BY <1>3, <1>5, <1>6, <2>2 DEF OffTotal
<1> QED
  BY <1>8, <1>9

LEMMA SaveKeepsNear ==
    ASSUME FiguresInv, SaveFigures
    PROVE  FiguresInv'
<1>1. PICK g \in SalesGroups, t \in Tables, a \in Amounts :
         /\ figures' = [figures EXCEPT ![g][t] = a]
         /\ changes' = [figures |-> changes.figures + Distance(a, figures[g][t]),
                        rows |-> changes.rows + 0, count |-> changes.count + 1]
  BY DEF SaveFigures, Changed
<1>2. /\ page.kind = "dashboard" /\ page' = page /\ shown' = shown /\ figures \in FiguresType
      /\ changes'.figures = changes.figures + Distance(a, figures[g][t]) /\ changes.figures \in Nat
      /\ \A c \in DOMAIN page.read : page.read[c] \in Amounts
  BY <1>1 DEF SaveFigures, FiguresInv, FiguresTyped, FiguresRead
<1>3. Distance(a, figures[g][t]) \in Nat
  BY <1>2, AmountsAssumption, DistanceTyped DEF FiguresType, Tables
<1>4. figures' \in FiguresType
  BY <1>1, <1>2 DEF FiguresType, Tables
<1>5. FiguresTyped' /\ FiguresRead'
  BY <1>2, <1>3, <1>4 DEF FiguresInv, FiguresTyped, FiguresRead
<1>6. PICK G : G = TeamGroups(shown) /\ G \in SUBSET SalesGroups
  BY GroupsFinite DEF FiguresInv
<1>7. \A u \in Tables :
         /\ OffTotal(page.read, figures, u, G) \in Int /\ OffTotal(page.read, figures', u, G) \in Int
         /\ OffTotal(page.read, figures', u, G) <=
               OffTotal(page.read, figures, u, G) + (IF u = t THEN Distance(a, figures[g][t]) ELSE 0)
  BY <1>1, <1>2, <1>6, OffTotalMoves
<1>8. OffTotal(page.read, figures, "target", G) + OffTotal(page.read, figures, "actual", G) <= changes.figures
  BY <1>2, <1>6 DEF FiguresInv, FiguresNear
<1>9. OffTotal(page.read, figures', "target", G) + OffTotal(page.read, figures', "actual", G) <= changes'.figures
  BY <1>2, <1>3, <1>7, <1>8 DEF Tables
<1>10. FiguresNear'
  BY <1>2, <1>6, <1>9 DEF FiguresNear
<1> QED
  BY <1>5, <1>10 DEF FiguresInv

LEMMA OtherStepsKeep ==
    ASSUME FiguresInv, PagesInv,
           \/ StartHome \/ StartPrep \/ StartReadiness \/ StartCompleteness \/ ReadQuery \/ Respond
           \/ RequestFile \/ MakeFile \/ SendFile \/ SaveItem \/ SaveSubmission \/ SwitchDepartment
           \/ SaveAgendaItem \/ DeleteAgendaItem \/ LinkSnapshot \/ SaveMeeting \/ UNCHANGED vars
    PROVE  FiguresInv'
<1>1. DOMAIN page = Fields /\ changes.figures \in Nat
  BY DEF FiguresInv, FiguresTyped, PagesInv, Reading
<1>2. CASE StartHome \/ StartPrep \/ StartReadiness \/ StartCompleteness \/ RequestFile
  <2>1. page'.kind # "dashboard" /\ changes' = NoChanges /\ UNCHANGED <<shown, figures>>
    BY <1>2 DEF StartHome, StartPrep, StartReadiness, StartCompleteness, RequestFile, Begin, NoPage, tables
  <2>2. changes'.figures \in Nat
    BY <2>1 DEF NoChanges
  <2> QED
    BY <2>1, <2>2, OthersKeep
<1>3. CASE ReadQuery \/ MakeFile \/ SendFile
  <2>1. page.kind # "dashboard"
    BY <1>3 DEF ReadQuery, MakeFile, SendFile, PagesInv, FilesKept
  <2>2. page'.kind = page.kind
    BY <1>1, <1>3 DEF ReadQuery, MakeFile, SendFile, Fields
  <2>3. changes' = changes /\ UNCHANGED <<shown, figures>>
    BY <1>3 DEF ReadQuery, MakeFile, SendFile, tables
  <2> QED
    BY <1>1, <2>1, <2>2, <2>3, OthersKeep
<1>4. CASE Respond \/ UNCHANGED vars
  <2>1. page'.kind = page.kind /\ page'.todo = page.todo /\ page'.read = page.read
    BY <1>1, <1>4 DEF Respond, Fields, vars
  <2>2. changes' = changes /\ shown' = shown /\ figures' = figures
    BY <1>4 DEF Respond, tables, vars
  <2> QED
    BY <2>1, <2>2 DEF FiguresInv, FiguresTyped, FiguresRead, FiguresNear
<1>5. CASE \/ SaveItem \/ SaveSubmission \/ SwitchDepartment \/ SaveAgendaItem \/ DeleteAgendaItem
           \/ LinkSnapshot \/ SaveMeeting
  <2>1. page.kind # "dashboard" /\ page' = page /\ UNCHANGED <<shown, figures>>
    BY <1>5 DEF SaveItem, SaveSubmission, SwitchDepartment, SaveAgendaItem, DeleteAgendaItem, LinkSnapshot,
                SaveMeeting, SaveMinutes
  <2>2. changes'.figures = changes.figures + 0
    <3>1. \E n : Changed(0, n)
      <4>1. CASE SaveItem \/ SaveMeeting
        BY <4>1 DEF SaveItem, SaveMeeting
      <4>2. CASE SaveSubmission \/ SwitchDepartment \/ SaveAgendaItem \/ DeleteAgendaItem \/ LinkSnapshot
        <5>1. \E m, n : SaveMinutes(m, n)
          BY <4>2 DEF SaveSubmission, SwitchDepartment, SaveAgendaItem, DeleteAgendaItem, LinkSnapshot
        <5> QED
          BY <5>1 DEF SaveMinutes
      <4> QED
        BY <1>5, <4>1, <4>2
    <3> QED
      BY <3>1 DEF Changed
  <2> QED
    BY <1>1, <2>1, <2>2, OthersKeep
<1> QED
  BY <1>2, <1>3, <1>4, <1>5

LEMMA FiguresInvAlways == Spec => []FiguresInv
<1>1. FiguresInv /\ PagesInv /\ [Next]_vars => FiguresInv'
  <2> SUFFICES ASSUME FiguresInv, PagesInv, [Next]_vars PROVE FiguresInv'
    OBVIOUS
  <2> QED
    BY OtherStepsKeep, DashboardStartKeeps, ReadFigureKeeps, SaveKeepsNear DEF Next
<1> QED
  BY <1>1, FiguresStart, PagesInvAlways, PTL DEF Spec

-----------------------------------------------------------------------------
(* The totals of the dashboard.                                             *)

LEMMA SubtotalColumns ==
    ASSUME NEW row
    PROVE  /\ Subtotals(row).target = row.target /\ Subtotals(row).actual = row.actual
           /\ Subtotals(row).deficit = row.actual - row.target
           /\ Subtotals(row).pct = PercentageAchieved(row.target, row.actual)
  BY DEF Subtotals, Deficit

\* The totals of a table of rows are the sums of its columns.
LEMMA AggregateColumns ==
    ASSUME NEW rows
    PROVE  /\ Aggregate(rows).target = ColumnTotal(rows, "target")
           /\ Aggregate(rows).actual = ColumnTotal(rows, "actual")
           /\ Aggregate(rows).deficit = ColumnTotal(rows, "actual") - ColumnTotal(rows, "target")
           /\ Aggregate(rows).pct =
                 PercentageAchieved(ColumnTotal(rows, "target"), ColumnTotal(rows, "actual"))
<1>1. PICK r : r = [target |-> ColumnTotal(rows, "target"), actual |-> ColumnTotal(rows, "actual")]
  OBVIOUS
<1>2. Aggregate(rows) = Subtotals(r)
  BY <1>1 DEF Aggregate
<1> QED
  BY <1>1, <1>2, SubtotalColumns

\* A column of the cells of one stage.
ReadColumn(stage, t, G) == SumFunctionOnSet([g \in G |-> page.read[<<stage, g, t>>]], G)

LEMMA ReadTotals ==
    ASSUME NEW stage, NEW G, IsFiniteSet(G), NEW rows, rows = [g \in G |-> RowRead(stage, g)], NEW t \in Tables
    PROVE  ColumnTotal(rows, t) = ReadColumn(stage, t, G)
<1>1. PICK p, q : p = [g \in G |-> rows[g][t]] /\ q = [g \in G |-> page.read[<<stage, g, t>>]]
  OBVIOUS
<1>2. \A g \in G : p[g] = q[g]
  <2> SUFFICES ASSUME NEW g \in G PROVE p[g] = q[g]
    OBVIOUS
  <2>1. p[g] = RowRead(stage, g)[t]
    BY <1>1
  <2>2. /\ RowRead(stage, g).target = page.read[<<stage, g, "target">>]
        /\ RowRead(stage, g).actual = page.read[<<stage, g, "actual">>]
    BY SubtotalColumns DEF RowRead
  <2>3. t = "target" \/ t = "actual"
    BY DEF Tables
  <2> QED
    BY <1>1, <2>1, <2>2, <2>3
<1>3. SumFunctionOnSet(p, G) = SumFunctionOnSet(q, G)
  BY <1>2, SumSame
<1>4. ColumnTotal(rows, t) = SumFunctionOnSet(p, G)
  BY <1>1 DEF ColumnTotal
<1> QED
  BY <1>1, <1>3, <1>4 DEF ReadColumn

\* When everything is read, the overall total of a column is that of the teams
\* and of the groups without one, up to what the rows read are off by.
LEMMA ColumnsNear ==
    ASSUME FiguresInv, page.kind = "dashboard", page.todo = {}, NEW t \in Tables,
           NEW T, T = TeamGroups(shown), NEW O, O = {h \in shown.groups : TeamOf[h] \notin shown.teams}
    PROVE  /\ ReadColumn("overall", t, shown.groups) \in Int /\ ReadColumn("team", t, T) \in Int
           /\ ReadColumn("overall", t, O) \in Int /\ OffTotal(page.read, figures, t, T) \in Int
           /\ Distance(ReadColumn("overall", t, shown.groups), ReadColumn("team", t, T) + ReadColumn("overall", t, O))
                 <= OffTotal(page.read, figures, t, T)
<1>1. T \cup O = shown.groups /\ T \cap O = {} /\ IsFiniteSet(T) /\ IsFiniteSet(O) /\ IsFiniteSet(shown.groups)
  <2>1. T \cup O = shown.groups /\ T \cap O = {} /\ O \subseteq shown.groups
    BY DEF TeamGroups
  <2>2. IsFiniteSet(shown.groups) /\ IsFiniteSet(T)
    BY GroupsFinite DEF FiguresInv
  <2> QED
    BY <2>1, <2>2, FS_Subset
<1>2. DOMAIN page.read = Cells(shown) /\ figures \in FiguresType /\ \A c \in DOMAIN page.read : page.read[c] \in Int
  BY AmountsAssumption DEF FiguresInv, FiguresRead
<1>3. PICK o, m, d :
         /\ o = [g \in shown.groups |-> page.read[<<"overall", g, t>>]]
         /\ m = [g \in T |-> page.read[<<"team", g, t>>]]
         /\ d = [g \in T |-> Off(page.read, figures, g, t)]
  OBVIOUS
<1>4. /\ \A g \in shown.groups : o[g] \in Int
      /\ \A g \in T : m[g] \in Int /\ o[g] \in Int /\ d[g] = Distance(m[g], o[g]) /\ d[g] \in Int
  <2>1. \A g \in shown.groups : <<"overall", g, t>> \in DOMAIN page.read
    BY <1>2, CellsNamed
  <2>2. \A g \in T : <<"team", g, t>> \in DOMAIN page.read
    BY <1>2, CellsNamed
  <2>3. \A g \in shown.groups : o[g] \in Int
    BY <1>2, <1>3, <2>1
  <2> SUFFICES ASSUME NEW g \in T PROVE m[g] \in Int /\ o[g] \in Int /\ d[g] = Distance(m[g], o[g]) /\ d[g] \in Int
    BY <2>3
  <2>4. m[g] = page.read[<<"team", g, t>>] /\ m[g] \in Int /\ o[g] = page.read[<<"overall", g, t>>] /\ o[g] \in Int
    BY <1>1, <1>2, <1>3, <2>1, <2>2
  <2>5. d[g] = Distance(m[g], o[g])
    <3>1. d[g] = Off(page.read, figures, g, t)
      BY <1>3
    <3>2. Off(page.read, figures, g, t) = Distance(page.read[<<"team", g, t>>], page.read[<<"overall", g, t>>])
      BY <1>1, <2>1, <2>2 DEF Off
    <3> QED
      BY <2>4, <3>1, <3>2
  <2>6. Distance(m[g], o[g]) \in Nat
    BY <2>4, DistanceTyped
  <2> QED
    BY <2>4, <2>5, <2>6
<1>5. ReadColumn("overall", t, shown.groups) = SumFunctionOnSet(o, shown.groups)
  BY <1>3 DEF ReadColumn
<1>6. ReadColumn("team", t, T) = SumFunctionOnSet(m, T) /\ OffTotal(page.read, figures, t, T) = SumFunctionOnSet(d, T)
  BY <1>3 DEF ReadColumn, OffTotal
<1>7. ReadColumn("overall", t, O) = SumFunctionOnSet(o, O)
  <2>1. PICK p : p = [g \in O |-> page.read[<<"overall", g, t>>]]
    OBVIOUS
  <2>2. \A g \in O : p[g] = o[g]
    BY <1>1, <1>3, <2>1
  <2>3. SumFunctionOnSet(p, O) = SumFunctionOnSet(o, O)
    BY <1>1, <2>2, SumSame
  <2> QED
    BY <2>1, <2>3 DEF ReadColumn
<1>8. SumFunctionOnSet(o, shown.groups) = SumFunctionOnSet(o, T) + SumFunctionOnSet(o, O)
  <2>1. \A g \in T \cup O : o[g] \in Int
    BY <1>1, <1>4
  <2>2. SumFunctionOnSet(o, T \cup O) = SumFunctionOnSet(o, T) + SumFunctionOnSet(o, O)
    BY <1>1, <2>1, SumUnion
  <2> QED
    BY <1>1, <2>2
<1>9. /\ SumFunctionOnSet(o, T) \in Int /\ SumFunctionOnSet(o, O) \in Int
      /\ SumFunctionOnSet(m, T) \in Int /\ SumFunctionOnSet(d, T) \in Int
  <2>1. \A g \in O : o[g] \in Int
    BY <1>1, <1>4
  <2>2. (\A g \in T : o[g] \in Int) /\ (\A g \in T : m[g] \in Int) /\ (\A g \in T : d[g] \in Int)
    BY <1>4
  <2> QED
    BY <1>1, <2>1, <2>2, SumTyped
<1>10. SumFunctionOnSet(o, T) <= SumFunctionOnSet(m, T) + SumFunctionOnSet(d, T)
  <2>1. PICK s : s = [g \in T |-> m[g] + d[g]]
    OBVIOUS
  <2>2. \A g \in T : m[g] \in Int /\ d[g] \in Int /\ s[g] = m[g] + d[g]
    BY <1>4, <2>1
  <2>3. SumFunctionOnSet(s, T) = SumFunctionOnSet(m, T) + SumFunctionOnSet(d, T)
    BY <1>1, <2>2, SumPlus
  <2>4. \A g \in T : o[g] \in Int /\ s[g] \in Int /\ o[g] <= s[g]
    <3> SUFFICES ASSUME NEW g \in T PROVE o[g] \in Int /\ s[g] \in Int /\ o[g] <= s[g]
      OBVIOUS
    <3>1. m[g] \in Int /\ o[g] \in Int /\ d[g] = Distance(m[g], o[g]) /\ d[g] \in Int /\ s[g] = m[g] + d[g]
      BY <1>4, <2>2
    <3>2. o[g] - m[g] <= Distance(m[g], o[g])
      BY <3>1, DistanceTyped
    <3> QED
      BY <3>1, <3>2
  <2>5. SumFunctionOnSet(o, T) <= SumFunctionOnSet(s, T)
    BY <1>1, <2>4, SumAtMost
  <2> QED
    BY <2>3, <2>5
<1>11. SumFunctionOnSet(m, T) <= SumFunctionOnSet(o, T) + SumFunctionOnSet(d, T)
  <2>1. PICK s : s = [g \in T |-> o[g] + d[g]]
    OBVIOUS
  <2>2. \A g \in T : o[g] \in Int /\ d[g] \in Int /\ s[g] = o[g] + d[g]
    BY <1>4, <2>1
  <2>3. SumFunctionOnSet(s, T) = SumFunctionOnSet(o, T) + SumFunctionOnSet(d, T)
    BY <1>1, <2>2, SumPlus
  <2>4. \A g \in T : m[g] \in Int /\ s[g] \in Int /\ m[g] <= s[g]
    <3> SUFFICES ASSUME NEW g \in T PROVE m[g] \in Int /\ s[g] \in Int /\ m[g] <= s[g]
      OBVIOUS
    <3>1. m[g] \in Int /\ o[g] \in Int /\ d[g] = Distance(m[g], o[g]) /\ d[g] \in Int /\ s[g] = o[g] + d[g]
      BY <1>4, <2>2
    <3>2. m[g] - o[g] <= Distance(m[g], o[g])
      BY <3>1, DistanceTyped
    <3> QED
      BY <3>1, <3>2
  <2>5. SumFunctionOnSet(m, T) <= SumFunctionOnSet(s, T)
    BY <1>1, <2>4, SumAtMost
  <2> QED
    BY <2>3, <2>5
<1>12. PICK x \in Int, y \in Int, z \in Int, w \in Int :
          /\ x = SumFunctionOnSet(o, T) /\ y = SumFunctionOnSet(o, O)
          /\ z = SumFunctionOnSet(m, T) /\ w = SumFunctionOnSet(d, T)
  BY <1>9
<1>13. Distance(x + y, z + y) <= w
  <2>1. x <= z + w /\ z <= x + w
    BY <1>10, <1>11, <1>12
  <2>2. (x + y) - (z + y) <= w /\ (z + y) - (x + y) <= w /\ x + y \in Int /\ z + y \in Int
    BY <2>1
  <2> QED
    BY <2>2, DistanceWithin
<1>14. /\ ReadColumn("overall", t, shown.groups) = x + y /\ ReadColumn("team", t, T) = z
       /\ ReadColumn("overall", t, O) = y /\ OffTotal(page.read, figures, t, T) = w
  BY <1>5, <1>6, <1>7, <1>8, <1>12
<1> QED
  BY <1>13, <1>14

LEMMA TotalsNear == FiguresInv => DashboardAddsUp
<1> SUFFICES ASSUME FiguresInv, page.kind = "dashboard", page.todo = {},
                    NEW teams, teams = Totals("team"), NEW overall, overall = Totals("overall"),
                    NEW orphans, orphans = Aggregate([g \in {h \in shown.groups : TeamOf[h] \notin shown.teams} |->
                                                          RowRead("overall", g)])
             PROVE  \A column \in {"target", "actual", "deficit"} :
                       Distance(overall[column], teams[column] + orphans[column]) <= changes.figures
  BY DEF DashboardAddsUp
<1>1. PICK T, O : T = TeamGroups(shown) /\ O = {h \in shown.groups : TeamOf[h] \notin shown.teams}
  OBVIOUS
<1>2. IsFiniteSet(T) /\ IsFiniteSet(O) /\ IsFiniteSet(shown.groups)
  <2>1. O \subseteq shown.groups /\ IsFiniteSet(T) /\ IsFiniteSet(shown.groups)
    BY <1>1, GroupsFinite DEF FiguresInv
  <2> QED
    BY <2>1, FS_Subset
<1>3. DOMAIN page.read = Cells(shown)
  BY DEF FiguresInv, FiguresRead
<1>4. {c[2] : c \in {d \in DOMAIN page.read : d[1] = "team"}} = T
  <2>1. \A g \in T : <<"team", g, "target">> \in DOMAIN page.read
    BY <1>1, <1>3, CellsNamed DEF Tables
  <2>2. \A c \in DOMAIN page.read : c[1] = "team" => c[2] \in T
    BY <1>1, <1>3, CellsNamed
  <2>3. \A g : <<"team", g, "target">>[1] = "team" /\ <<"team", g, "target">>[2] = g
    OBVIOUS
  <2> QED
    BY <2>1, <2>2, <2>3
<1>5. {c[2] : c \in {d \in DOMAIN page.read : d[1] = "overall"}} = shown.groups
  <2>1. \A g \in shown.groups : <<"overall", g, "target">> \in DOMAIN page.read
    BY <1>3, CellsNamed DEF Tables
  <2>2. \A c \in DOMAIN page.read : c[2] \in shown.groups
    BY <1>3, CellsNamed
  <2>3. \A g : <<"overall", g, "target">>[1] = "overall" /\ <<"overall", g, "target">>[2] = g
    OBVIOUS
  <2> QED
    BY <2>1, <2>2, <2>3
<1>6. PICK m, o, r : /\ m = [g \in T |-> RowRead("team", g)]
                     /\ o = [g \in shown.groups |-> RowRead("overall", g)]
                     /\ r = [g \in O |-> RowRead("overall", g)]
  OBVIOUS
<1>7. teams = Aggregate(m) /\ overall = Aggregate(o) /\ orphans = Aggregate(r)
  BY <1>1, <1>4, <1>5, <1>6 DEF Totals
<1>8. PICK f : f = [t \in Tables |-> [overall |-> ReadColumn("overall", t, shown.groups),
                                      team |-> ReadColumn("team", t, T), orphan |-> ReadColumn("overall", t, O),
                                      off |-> OffTotal(page.read, figures, t, T)]]
  OBVIOUS
<1>9. \A t \in Tables :
        /\ f[t].overall \in Int /\ f[t].team \in Int /\ f[t].orphan \in Int /\ f[t].off \in Int
        /\ Distance(f[t].overall, f[t].team + f[t].orphan) <= f[t].off
  <2> SUFFICES ASSUME NEW t \in Tables
               PROVE  /\ f[t].overall \in Int /\ f[t].team \in Int /\ f[t].orphan \in Int /\ f[t].off \in Int
                      /\ Distance(f[t].overall, f[t].team + f[t].orphan) <= f[t].off
    OBVIOUS
  <2>1. /\ f[t].overall = ReadColumn("overall", t, shown.groups) /\ f[t].team = ReadColumn("team", t, T)
        /\ f[t].orphan = ReadColumn("overall", t, O) /\ f[t].off = OffTotal(page.read, figures, t, T)
    BY <1>8
  <2> QED
    BY <1>1, <2>1, ColumnsNear
<1>10. \A t \in Tables : /\ ColumnTotal(m, t) = f[t].team /\ ColumnTotal(o, t) = f[t].overall
                         /\ ColumnTotal(r, t) = f[t].orphan
  <2> SUFFICES ASSUME NEW t \in Tables
               PROVE  /\ ColumnTotal(m, t) = f[t].team /\ ColumnTotal(o, t) = f[t].overall
                      /\ ColumnTotal(r, t) = f[t].orphan
    OBVIOUS
  <2>1. f[t].overall = ReadColumn("overall", t, shown.groups) /\ f[t].team = ReadColumn("team", t, T)
        /\ f[t].orphan = ReadColumn("overall", t, O)
    BY <1>8
  <2>2. /\ ColumnTotal(m, t) = ReadColumn("team", t, T) /\ ColumnTotal(r, t) = ReadColumn("overall", t, O)
        /\ ColumnTotal(o, t) = ReadColumn("overall", t, shown.groups)
    BY <1>2, <1>6, ReadTotals
  <2> QED
    BY <2>1, <2>2
<1>11. f["target"].off + f["actual"].off <= changes.figures /\ changes.figures \in Nat
  BY <1>1, <1>8 DEF FiguresInv, FiguresNear, FiguresTyped, Tables
<1>12. PICK x1 \in Int, y1 \in Int, z1 \in Int, w1 \in Int :
          x1 = f["target"].overall /\ y1 = f["target"].team /\ z1 = f["target"].orphan /\ w1 = f["target"].off
  BY <1>9 DEF Tables
<1>13. PICK x2 \in Int, y2 \in Int, z2 \in Int, w2 \in Int :
          x2 = f["actual"].overall /\ y2 = f["actual"].team /\ z2 = f["actual"].orphan /\ w2 = f["actual"].off
  BY <1>9 DEF Tables
<1>14. Distance(x1, y1 + z1) <= w1 /\ Distance(x2, y2 + z2) <= w2 /\ w1 + w2 <= changes.figures
  BY <1>9, <1>11, <1>12, <1>13 DEF Tables
<1>15. /\ Distance(x1, y1 + z1) <= changes.figures /\ Distance(x2, y2 + z2) <= changes.figures
       /\ Distance(x2 - x1, (y2 - y1) + (z2 - z1)) <= changes.figures
  BY <1>11, <1>14 DEF Distance
<1>16. /\ overall.target = x1 /\ teams.target = y1 /\ orphans.target = z1
       /\ overall.actual = x2 /\ teams.actual = y2 /\ orphans.actual = z2
       /\ overall.deficit = x2 - x1 /\ teams.deficit = y2 - y1 /\ orphans.deficit = z2 - z1
  BY <1>7, <1>10, <1>12, <1>13, AggregateColumns DEF Tables
<1> QED
  BY <1>15, <1>16

-----------------------------------------------------------------------------
(* Rounding.                                                                *)

LEMMA Products ==
    \A a, b, c \in Int :
        /\ a * b \in Int /\ a * b = b * a /\ (a * b) * c = a * (b * c)
        /\ a * (b + c) = a * b + a * c /\ a * (b - c) = a * b - a * c
  OBVIOUS

LEMMA ProductsOrdered ==
    \A a, b, c \in Int : /\ a <= b /\ c >= 0 => c * a <= c * b
                         /\ a < b /\ c > 0 => c * a < c * b
                         /\ c > 0 /\ c * a < c * b => a < b
  OBVIOUS

LEMMA Quotient ==
    ASSUME NEW a \in Int, NEW b \in Int, b > 0
    PROVE  /\ (a \div b) \in Int /\ b * (a \div b) <= a /\ a < b * (a \div b) + b
           /\ a = b * (a \div b) + (a % b)
  OBVIOUS

\* The nearest whole number of ds, the farther one from zero of two.
LEMMA HalfUpNear ==
    ASSUME NEW n \in Int, NEW d \in Int, d > 0, NEW q, q = HalfUp(n, d)
    PROVE  /\ q \in Int /\ d * q \in Int
           /\ n >= 0 => q >= 0 /\ 2 * (d * q) <= 2 * n + d /\ 2 * n + d < 2 * (d * q) + 2 * d
           /\ n < 0 => q <= 0 /\ 2 * (d * q) - 2 * d < 2 * n - d /\ 2 * n - d <= 2 * (d * q)
<1>1. PICK e \in Int : e = 2 * d /\ e > 0
  OBVIOUS
<1>2. CASE n >= 0
  <2>1. PICK m \in Int : m = 2 * n + d /\ m > 0
    BY <1>2
  <2>2. q = m \div e
    BY <1>1, <1>2, <2>1 DEF HalfUp
  <2>3. q \in Int /\ e * q <= m /\ m < e * q + e
    BY <1>1, <2>1, <2>2, Quotient
  <2>4. e * q = 2 * (d * q) /\ d * q \in Int
    BY <1>1, <2>3, Products
  <2>5. q >= 0
    <3>1. ASSUME q <= -1 PROVE FALSE
      <4>1. e * q <= e * (-1) /\ e * (-1) = -e
        BY <1>1, <2>3, <3>1, ProductsOrdered
      <4> QED
        BY <1>1, <2>1, <2>3, <2>4, <4>1
    <3> QED
      BY <2>3, <3>1
  <2> QED
    BY <1>1, <1>2, <2>1, <2>3, <2>4, <2>5
<1>3. CASE n < 0
  <2>1. PICK m \in Int : m = 2 * (-n) + d /\ m > 0
    BY <1>3
  <2>2. PICK k : k = m \div e
    OBVIOUS
  <2>3. k \in Int /\ e * k <= m /\ m < e * k + e
    BY <1>1, <2>1, <2>2, Quotient
  <2>4. q = -k
    BY <1>1, <1>3, <2>1, <2>2 DEF HalfUp
  <2>5. e * k = -(2 * (d * q)) /\ d * q \in Int /\ q \in Int
    <3>1. e * k = 2 * (d * k) /\ d * k \in Int
      BY <1>1, <2>3, Products
    <3>2. d * q = -(d * k)
      BY <2>3, <2>4
    <3> QED
      BY <2>3, <2>4, <3>1, <3>2
  <2>6. k >= 0
    <3>1. ASSUME k <= -1 PROVE FALSE
      <4>1. e * k <= e * (-1) /\ e * (-1) = -e /\ e * k \in Int
        BY <1>1, <2>3, <3>1, ProductsOrdered, Products
      <4> QED
        BY <1>1, <2>1, <2>3, <4>1
    <3> QED
      BY <2>3, <3>1
  <2> QED
    BY <1>1, <1>3, <2>1, <2>3, <2>4, <2>5, <2>6
<1> QED
  BY <1>2, <1>3

\* Rounding half to even departs from it only between two whole numbers.
LEMMA EvenOnlyInTies ==
    ASSUME NEW n \in Int, NEW d \in Int, d > 0, RoundedEven(n, d) # HalfUp(n, d)
    PROVE  Distance(2 * (d * HalfUp(n, d)), 2 * n) = d
<1>1. (2 * n) % (2 * d) = d
  BY DEF RoundedEven
<1>2. PICK q : q = HalfUp(n, d)
  OBVIOUS
<1>3. /\ q \in Int /\ d * q \in Int
      /\ n >= 0 => 2 * (d * q) <= 2 * n + d /\ 2 * n + d < 2 * (d * q) + 2 * d
      /\ n < 0 => 2 * (d * q) - 2 * d < 2 * n - d /\ 2 * n - d <= 2 * (d * q)
  BY <1>2, HalfUpNear
<1>4. PICK k \in Int : 2 * n = 2 * (d * k) + d /\ d * k \in Int
  <2>1. PICK a \in Int, b \in Int : a = 2 * n /\ b = 2 * d /\ b > 0 /\ a % b = d
    BY <1>1
  <2>2. a \div b \in Int /\ a = b * (a \div b) + (a % b)
    BY <2>1, Quotient
  <2>3. PICK k \in Int : k = a \div b
    BY <2>2
  <2>4. a = b * k + d
    BY <2>1, <2>2, <2>3
  <2>5. b * k = 2 * (d * k) /\ d * k \in Int
    BY <2>1, Products
  <2> QED
    BY <2>1, <2>4, <2>5
<1>5. CASE n >= 0
  <2>1. d * (q - 1) = d * q - d /\ d * (k + 1) = d * k + d
    BY <1>3
  <2>2. d * (q - 1) < d * (k + 1) /\ d * k < d * q
    BY <1>3, <1>4, <1>5, <2>1
  <2>3. q - 1 < k + 1 /\ k < q
    BY <1>3, <1>4, <2>2, ProductsOrdered
  <2>4. q = k + 1
    BY <1>3, <1>4, <2>3
  <2>5. d * q = d * k + d
    BY <2>1, <2>4
  <2>6. 2 * (d * q) - 2 * n = d /\ 2 * (d * q) \in Int
    BY <1>3, <1>4, <2>5
  <2> QED
    BY <1>2, <2>6 DEF Distance
<1>6. CASE n < 0
  <2>1. d * (q - 1) = d * q - d /\ d * (k + 1) = d * k + d
    BY <1>3
  <2>2. d * (q - 1) < d * k /\ d * k < d * (q + 1) /\ d * (q + 1) = d * q + d
    BY <1>3, <1>4, <1>6, <2>1
  <2>3. q - 1 < k /\ k < q + 1
    BY <1>3, <1>4, <2>2, ProductsOrdered
  <2>4. q = k
    BY <1>3, <1>4, <2>3
  <2> QED
    BY <1>2, <1>3, <1>4, <2>4 DEF Distance
<1> QED
  BY <1>5, <1>6

\* A larger ratio is never rounded to a smaller number.
LEMMA RoundingKeepsOrder ==
    ASSUME NEW n \in Int, NEW d \in Int, d > 0, NEW m \in Int, NEW e \in Int, e > 0, e * n <= d * m
    PROVE  HalfUp(n, d) <= HalfUp(m, e)
<1>1. PICK p, q : p = HalfUp(n, d) /\ q = HalfUp(m, e)
  OBVIOUS
<1>2. /\ p \in Int /\ d * p \in Int
      /\ n >= 0 => p >= 0 /\ 2 * (d * p) <= 2 * n + d
      /\ n < 0 => p <= 0 /\ 2 * (d * p) - 2 * d < 2 * n - d
  BY <1>1, HalfUpNear
<1>3. /\ q \in Int /\ e * q \in Int
      /\ m >= 0 => q >= 0 /\ 2 * m + e < 2 * (e * q) + 2 * e
      /\ m < 0 => q <= 0 /\ 2 * m - e <= 2 * (e * q)
  BY <1>1, HalfUpNear
<1>4. CASE n < 0 /\ m >= 0
  BY <1>1, <1>2, <1>3, <1>4
<1>5. CASE n >= 0 /\ m < 0
  <2>1. e * n >= 0
    <3>1. e * 0 <= e * n /\ e * 0 = 0
      BY <1>5, ProductsOrdered
    <3> QED
      BY <3>1
  <2>2. d * m < 0
    <3>1. d * m < d * 0 /\ d * 0 = 0
      BY <1>5, ProductsOrdered
    <3> QED
      BY <3>1
  <2> QED
    BY <2>1, <2>2, Products
<1>6. ASSUME q + 1 <= p, n >= 0 /\ m >= 0 PROVE FALSE
  <2>1. 2 * (e * q) + 2 * e <= 2 * (e * p) /\ e * p \in Int
    <3>1. e * (q + 1) <= e * p /\ e * (q + 1) = e * q + e /\ e * p \in Int
      BY <1>2, <1>3, <1>6, ProductsOrdered, Products
    <3> QED
      BY <1>3, <3>1
  <2>2. 2 * m + e < 2 * (e * p)
    BY <1>3, <1>6, <2>1
  <2>3. d * (2 * m + e) < d * (2 * (e * p))
    <3>1. 2 * m + e \in Int /\ 2 * (e * p) \in Int
      BY <2>1
    <3> QED
      BY <2>2, <3>1, ProductsOrdered
  <2>4. e * (2 * (d * p)) <= e * (2 * n + d)
    <3>1. 2 * n + d \in Int /\ 2 * (d * p) \in Int /\ 2 * (d * p) <= 2 * n + d
      BY <1>2, <1>6
    <3> QED
      BY <3>1, ProductsOrdered
  <2>5. /\ d * (2 * m + e) = 2 * (d * m) + d * e /\ e * (2 * n + d) = 2 * (e * n) + d * e
        /\ d * (2 * (e * p)) = e * (2 * (d * p)) /\ d * m \in Int /\ e * n \in Int /\ d * e \in Int
        /\ e * (2 * (d * p)) \in Int
    BY <1>2
  <2> QED
    BY <2>3, <2>4, <2>5
<1>7. ASSUME q + 1 <= p, n < 0 /\ m < 0 PROVE FALSE
  <2>1. 2 * m - e <= 2 * (e * p) - 2 * e /\ e * p \in Int
    <3>1. e * (q + 1) <= e * p /\ e * (q + 1) = e * q + e /\ e * p \in Int
      BY <1>2, <1>3, <1>7, ProductsOrdered, Products
    <3> QED
      BY <1>3, <1>7, <3>1
  <2>2. 2 * m + e <= 2 * (e * p)
    BY <2>1
  <2>3. d * (2 * m + e) <= d * (2 * (e * p))
    <3>1. 2 * m + e \in Int /\ 2 * (e * p) \in Int
      BY <2>1
    <3> QED
      BY <2>2, <3>1, ProductsOrdered
  <2>4. e * (2 * (d * p)) < e * (2 * n + d)
    <3>1. 2 * n + d \in Int /\ 2 * (d * p) \in Int /\ 2 * (d * p) < 2 * n + d
      BY <1>2, <1>7
    <3> QED
      BY <3>1, ProductsOrdered
  <2>5. /\ d * (2 * m + e) = 2 * (d * m) + d * e /\ e * (2 * n + d) = 2 * (e * n) + d * e
        /\ d * (2 * (e * p)) = e * (2 * (d * p)) /\ d * m \in Int /\ e * n \in Int /\ d * e \in Int
        /\ e * (2 * (d * p)) \in Int
    BY <1>2
  <2> QED
    BY <2>3, <2>4, <2>5
<1> QED
  BY <1>1, <1>2, <1>3, <1>4, <1>5, <1>6, <1>7

\* What a percentage is of a target that is set.
Rounded(target, actual, deficit, pct) ==
    LET exact == actual * 10000
        off == Distance(2 * pct * target, 2 * exact)
    IN  /\ off <= target
        /\ PropertyPercentage(target, actual) # pct => off = target
        /\ deficit < 0 => pct <= 10000
        /\ deficit >= 0 => pct >= 10000

LEMMA Percentages ==
    ASSUME NEW target \in Int, target > 0, NEW actual \in Int, NEW deficit, deficit = actual - target,
           NEW pct, pct = PercentageAchieved(target, actual)
    PROVE  Rounded(target, actual, deficit, pct)
<1>1. PICK n \in Int : n = actual * 10000
  OBVIOUS
<1>2. pct = HalfUp(n, target)
  BY <1>1 DEF PercentageAchieved, RoundedUp
<1>3. /\ pct \in Int /\ target * pct \in Int
      /\ n >= 0 => pct >= 0 /\ 2 * (target * pct) <= 2 * n + target
                   /\ 2 * n + target < 2 * (target * pct) + 2 * target
      /\ n < 0 => pct <= 0 /\ 2 * (target * pct) - 2 * target < 2 * n - target
                  /\ 2 * n - target <= 2 * (target * pct)
  BY <1>2, HalfUpNear
<1>4. 2 * pct * target = 2 * (target * pct)
  BY <1>3
<1>5. PICK off : off = Distance(2 * pct * target, 2 * n) /\ off = Distance(2 * (target * pct), 2 * n)
  BY <1>4
<1>6. off <= target
  BY <1>3, <1>5 DEF Distance
<1>7. PropertyPercentage(target, actual) # pct => off = target
  <2>1. PropertyPercentage(target, actual) = RoundedEven(n, target)
    BY <1>1 DEF PropertyPercentage
  <2> QED
    BY <1>2, <1>5, <2>1, EvenOnlyInTies
<1>8. HalfUp(10000, 1) = 10000
  <2>1. PICK q : q = HalfUp(10000, 1)
    OBVIOUS
  <2>2. q \in Int /\ 2 * (1 * q) <= 2 * 10000 + 1 /\ 2 * 10000 + 1 < 2 * (1 * q) + 2 * 1
    BY <2>1, HalfUpNear
  <2> QED
    BY <2>1, <2>2
<1>9. actual - target < 0 => pct <= 10000
  <2>1. actual - target < 0 => 1 * n <= target * 10000
    BY <1>1
  <2> QED
    BY <1>2, <1>8, <2>1, RoundingKeepsOrder
<1>10. actual - target >= 0 => pct >= 10000
  <2>1. actual - target >= 0 => target * 10000 <= 1 * n
    BY <1>1
  <2>2. actual - target >= 0 => HalfUp(10000, 1) <= HalfUp(n, target)
    BY <2>1, RoundingKeepsOrder
  <2> QED
    BY <1>2, <1>8, <2>2
<1> QED
  BY <1>1, <1>5, <1>6, <1>7, <1>9, <1>10 DEF Rounded

-----------------------------------------------------------------------------
(* The ratios of a table of figures, and of its totals.                     *)

\* The rows made of the figures, and the sums of their columns.
RowsMade(G, f, rows) ==
    \A g \in G : /\ rows[g].target = f[g].target /\ rows[g].actual = f[g].actual
                 /\ rows[g].target \in Int /\ rows[g].actual \in Int
                 /\ rows[g].deficit = rows[g].actual - rows[g].target
                 /\ rows[g].pct = PercentageAchieved(rows[g].target, rows[g].actual)

ColumnsMade(G, f, rows) ==
    /\ ColumnTotal(rows, "target") = SumFunctionOnSet([g \in G |-> f[g].target], G)
    /\ ColumnTotal(rows, "actual") = SumFunctionOnSet([g \in G |-> f[g].actual], G)
    /\ ColumnTotal(rows, "target") \in Int /\ ColumnTotal(rows, "actual") \in Int

LEMMA FigureColumns ==
    ASSUME NEW G, IsFiniteSet(G), NEW f \in [G -> [target : Amounts, actual : Amounts]], NEW rows,
           rows = [g \in G |-> Subtotals(f[g])]
    PROVE  RowsMade(G, f, rows) /\ ColumnsMade(G, f, rows)
<1>1. \A g \in G : f[g].target \in Int /\ f[g].actual \in Int
  BY AmountsAssumption
<1>2. \A g \in G : /\ rows[g].target = f[g].target /\ rows[g].actual = f[g].actual
                   /\ rows[g].deficit = f[g].actual - f[g].target
                   /\ rows[g].pct = PercentageAchieved(f[g].target, f[g].actual)
  <2> SUFFICES ASSUME NEW g \in G
               PROVE  /\ rows[g].target = f[g].target /\ rows[g].actual = f[g].actual
                      /\ rows[g].deficit = f[g].actual - f[g].target
                      /\ rows[g].pct = PercentageAchieved(f[g].target, f[g].actual)
    OBVIOUS
  <2>1. rows[g] = Subtotals(f[g])
    OBVIOUS
  <2> QED
    BY <2>1, SubtotalColumns
<1>3. PICK p, q, u, v : /\ p = [g \in G |-> f[g].target] /\ q = [g \in G |-> f[g].actual]
                        /\ u = [g \in G |-> rows[g]["target"]] /\ v = [g \in G |-> rows[g]["actual"]]
  OBVIOUS
<1>4. \A g \in G : p[g] = u[g] /\ q[g] = v[g] /\ p[g] \in Int /\ q[g] \in Int
  BY <1>1, <1>2, <1>3
<1>5. SumFunctionOnSet(p, G) = SumFunctionOnSet(u, G) /\ SumFunctionOnSet(q, G) = SumFunctionOnSet(v, G)
  BY <1>4, SumSame
<1>6. SumFunctionOnSet(p, G) \in Int /\ SumFunctionOnSet(q, G) \in Int
  BY <1>4, SumTyped
<1>7. DOMAIN rows = G
  OBVIOUS
<1>8. ColumnTotal(rows, "target") = SumFunctionOnSet(u, G) /\ ColumnTotal(rows, "actual") = SumFunctionOnSet(v, G)
  BY <1>3, <1>7 DEF ColumnTotal
<1>9. RowsMade(G, f, rows)
  BY <1>1, <1>2 DEF RowsMade
<1>10. ColumnsMade(G, f, rows)
  BY <1>3, <1>5, <1>6, <1>8 DEF ColumnsMade
<1> QED
  BY <1>9, <1>10

\* The ratio of two sums is not below each of the ratios they are made of, nor
\* above each.
Between(G, p, q, T, A) ==
    (\E g \in G : T * q[g] <= p[g] * A) /\ (\E h \in G : p[h] * A <= T * q[h])

LEMMA BetweenRatios ==
    ASSUME NEW G, IsFiniteSet(G), G # {}, NEW p, NEW q, \A g \in G : p[g] \in Int /\ p[g] > 0 /\ q[g] \in Int,
           NEW T, T = SumFunctionOnSet(p, G), NEW A, A = SumFunctionOnSet(q, G)
    PROVE  T \in Int /\ T > 0 /\ A \in Int /\ Between(G, p, q, T, A)
<1>1. T \in Int /\ A \in Int
  <2>1. (\A g \in G : p[g] \in Int) /\ (\A g \in G : q[g] \in Int)
    OBVIOUS
  <2> QED
    BY <2>1, SumTyped
<1>2. T > 0
  <2>1. PICK z : z = [g \in G |-> 0]
    OBVIOUS
  <2>2. \A g \in G : z[g] \in Int /\ p[g] \in Int /\ z[g] <= p[g] /\ z[g] < p[g] /\ z[g] = 0
    BY <2>1
  <2>3. SumFunctionOnSet(z, G) < SumFunctionOnSet(p, G)
    BY <2>2, SumAtMost
  <2>4. SumFunctionOnSet(z, G) = 0
    BY <2>2, SumZero
  <2> QED
    BY <1>1, <2>3, <2>4
<1>3. PICK u, w : u = [g \in G |-> T * q[g]] /\ w = [g \in G |-> A * p[g]]
  OBVIOUS
<1>4. \A g \in G : /\ u[g] = T * q[g] /\ w[g] = A * p[g] /\ u[g] \in Int /\ w[g] \in Int
                   /\ q[g] \in Int /\ p[g] \in Int
  <2> SUFFICES ASSUME NEW g \in G
               PROVE  /\ u[g] = T * q[g] /\ w[g] = A * p[g] /\ u[g] \in Int /\ w[g] \in Int
                      /\ q[g] \in Int /\ p[g] \in Int
    OBVIOUS
  <2>1. q[g] \in Int /\ p[g] \in Int
    OBVIOUS
  <2>2. T * q[g] \in Int /\ A * p[g] \in Int
    BY <1>1, <2>1, Products
  <2>3. u[g] = T * q[g] /\ w[g] = A * p[g]
    BY <1>3
  <2> QED
    BY <2>1, <2>2, <2>3
<1>5. SumFunctionOnSet(u, G) = T * A
  <2>1. \A g \in G : q[g] \in Int /\ u[g] = T * q[g]
    BY <1>4
  <2>2. SumFunctionOnSet(u, G) = T * SumFunctionOnSet(q, G)
    BY <1>1, <2>1, SumTimes
  <2> QED
    BY <2>2
<1>6. SumFunctionOnSet(w, G) = T * A
  <2>1. \A g \in G : p[g] \in Int /\ w[g] = A * p[g]
    BY <1>4
  <2>2. SumFunctionOnSet(w, G) = A * SumFunctionOnSet(p, G)
    BY <1>1, <2>1, SumTimes
  <2> QED
    BY <1>1, <2>2, Products
<1>7. T * A \in Int
  BY <1>1, Products
<1>8. \E g \in G : u[g] <= w[g]
  <2>1. ASSUME \A g \in G : ~ (u[g] <= w[g]) PROVE FALSE
    <3>1. \A g \in G : w[g] \in Int /\ u[g] \in Int /\ w[g] <= u[g]
      BY <1>4, <2>1
    <3>2. \A g \in G : w[g] < u[g]
      BY <1>4, <2>1
    <3>3. SumFunctionOnSet(w, G) < SumFunctionOnSet(u, G)
      BY <3>1, <3>2, SumAtMost
    <3> QED
      BY <1>5, <1>6, <1>7, <3>3
  <2> QED
    BY <2>1
<1>9. \E h \in G : w[h] <= u[h]
  <2>1. ASSUME \A h \in G : ~ (w[h] <= u[h]) PROVE FALSE
    <3>1. \A h \in G : u[h] \in Int /\ w[h] \in Int /\ u[h] <= w[h]
      BY <1>4, <2>1
    <3>2. \A h \in G : u[h] < w[h]
      BY <1>4, <2>1
    <3>3. SumFunctionOnSet(u, G) < SumFunctionOnSet(w, G)
      BY <3>1, <3>2, SumAtMost
    <3> QED
      BY <1>5, <1>6, <1>7, <3>3
  <2> QED
    BY <2>1
<1>10. \A g \in G : u[g] = T * q[g] /\ w[g] = p[g] * A
  <2> SUFFICES ASSUME NEW g \in G PROVE u[g] = T * q[g] /\ w[g] = p[g] * A
    OBVIOUS
  <2>1. A * p[g] = p[g] * A
    BY <1>1, Products
  <2> QED
    BY <1>4, <2>1
<1> QED
  BY <1>1, <1>2, <1>8, <1>9, <1>10 DEF Between

\* The percentage of the sums lies between those of the rows.
LEMMA OverallBetween ==
    ASSUME NEW G, IsFiniteSet(G), G # {}, NEW f \in [G -> [target : Amounts, actual : Amounts]], NEW rows,
           rows = [g \in G |-> Subtotals(f[g])], \A g \in G : rows[g].target > 0
    PROVE  \E g, h \in G : rows[g].pct <= Aggregate(rows).pct /\ Aggregate(rows).pct <= rows[h].pct
<1>1. PICK p, q : p = [g \in G |-> f[g].target] /\ q = [g \in G |-> f[g].actual]
  OBVIOUS
<1>2. \A g \in G : /\ rows[g].target = f[g].target /\ rows[g].actual = f[g].actual
                   /\ rows[g].target \in Int /\ rows[g].actual \in Int
                   /\ rows[g].pct = PercentageAchieved(rows[g].target, rows[g].actual)
  <2>1. RowsMade(G, f, rows)
    BY FigureColumns
  <2> QED
    BY <2>1 DEF RowsMade
<1>3. \A g \in G : /\ p[g] \in Int /\ p[g] > 0 /\ q[g] \in Int
                   /\ rows[g].pct = PercentageAchieved(p[g], q[g])
  <2> SUFFICES ASSUME NEW g \in G
               PROVE  p[g] \in Int /\ p[g] > 0 /\ q[g] \in Int /\ rows[g].pct = PercentageAchieved(p[g], q[g])
    OBVIOUS
  <2>1. p[g] = rows[g].target /\ q[g] = rows[g].actual
    BY <1>1, <1>2
  <2> QED
    BY <1>2, <2>1
<1>4. PICK T, A : T = SumFunctionOnSet(p, G) /\ A = SumFunctionOnSet(q, G)
  OBVIOUS
<1>5. ColumnTotal(rows, "target") = T /\ ColumnTotal(rows, "actual") = A
  <2>1. ColumnsMade(G, f, rows)
    BY FigureColumns
  <2> QED
    BY <1>1, <1>4, <2>1 DEF ColumnsMade
<1>6. Aggregate(rows).pct = PercentageAchieved(T, A)
  BY <1>5, AggregateColumns
<1>7. T \in Int /\ T > 0 /\ A \in Int /\ Between(G, p, q, T, A)
  <2>1. \A g \in G : p[g] \in Int /\ p[g] > 0 /\ q[g] \in Int
    BY <1>3
  <2> QED
    BY <1>4, <2>1, BetweenRatios
<1>8. \A t \in Int, a \in Int : t > 0 => PercentageAchieved(t, a) = HalfUp(a * 10000, t)
  BY DEF PercentageAchieved, RoundedUp
<1>9. \A t, s, a, b \in Int : s * a <= t * b => s * (a * 10000) <= t * (b * 10000)
  <2> SUFFICES ASSUME NEW t \in Int, NEW s \in Int, NEW a \in Int, NEW b \in Int, s * a <= t * b
               PROVE  s * (a * 10000) <= t * (b * 10000)
    OBVIOUS
  <2>1. s * (a * 10000) = 10000 * (s * a) /\ t * (b * 10000) = 10000 * (t * b) /\ s * a \in Int /\ t * b \in Int
    OBVIOUS
  <2> QED
    BY <2>1
<1>10. \A t, s, a, b \in Int :
          t > 0 /\ s > 0 /\ s * a <= t * b => PercentageAchieved(t, a) <= PercentageAchieved(s, b)
  <2> SUFFICES ASSUME NEW t \in Int, NEW s \in Int, NEW a \in Int, NEW b \in Int, t > 0, s > 0, s * a <= t * b
               PROVE  PercentageAchieved(t, a) <= PercentageAchieved(s, b)
    OBVIOUS
  <2>1. s * (a * 10000) <= t * (b * 10000) /\ a * 10000 \in Int /\ b * 10000 \in Int
    BY <1>9
  <2>2. HalfUp(a * 10000, t) <= HalfUp(b * 10000, s)
    BY <2>1, RoundingKeepsOrder
  <2> QED
    BY <1>8, <2>2
<1>11. PICK g \in G : rows[g].pct <= Aggregate(rows).pct
  <2>1. PICK g \in G : T * q[g] <= p[g] * A
    BY <1>7 DEF Between
  <2>2. PercentageAchieved(p[g], q[g]) <= PercentageAchieved(T, A)
    BY <1>3, <1>7, <1>10, <2>1
  <2> QED
    BY <1>3, <1>6, <2>2
<1>12. PICK h \in G : Aggregate(rows).pct <= rows[h].pct
  <2>1. PICK h \in G : p[h] * A <= T * q[h]
    BY <1>7 DEF Between
  <2>2. PercentageAchieved(T, A) <= PercentageAchieved(p[h], q[h])
    BY <1>3, <1>7, <1>10, <2>1
  <2> QED
    BY <1>3, <1>6, <2>2
<1> QED
  BY <1>11, <1>12

\* What RatiosAgree says of the rows, their totals and the weeks.
RatiosOf(rows, overall, weeks) ==
    /\ WeeklyTotals(weeks) = [deficit |-> overall.deficit, pct |-> overall.pct]
    /\ \A r \in {rows[g] : g \in SalesGroups} \cup {overall} :
          r.target > 0 => Rounded(r.target, r.actual, r.deficit, r.pct)
    /\ (\A g \in SalesGroups : rows[g].target > 0) =>
          \E g, h \in SalesGroups : rows[g].pct <= overall.pct /\ overall.pct <= rows[h].pct

LEMMA RatiosHold == FiguresTyped => RatiosAgree
<1> SUFFICES ASSUME FiguresTyped, figures # <<>> PROVE RatiosAgree
  <2>1. figures = <<>> => RatiosAgree
    BY DEF RatiosAgree
  <2> QED
    BY <2>1
<1>0. PICK rows, overall, weeks :
         /\ rows = [g \in SalesGroups |-> Subtotals(figures[g])]
         /\ overall = Aggregate(rows)
         /\ weeks = [g \in SalesGroups |-> [committed |-> figures[g].target, actual |-> figures[g].actual]]
  OBVIOUS
<1>1. IsFiniteSet(SalesGroups) /\ figures \in [SalesGroups -> [target : Amounts, actual : Amounts]]
  BY RowsAssumption DEF FiguresTyped, FiguresType
<1>2. SalesGroups # {}
  BY <1>1
<1>3. RowsMade(SalesGroups, figures, rows) /\ ColumnsMade(SalesGroups, figures, rows)
  BY <1>0, <1>1, FigureColumns
<1>4. /\ overall.target = ColumnTotal(rows, "target") /\ overall.actual = ColumnTotal(rows, "actual")
      /\ overall.target \in Int /\ overall.actual \in Int
      /\ overall.deficit = overall.actual - overall.target
      /\ overall.pct = PercentageAchieved(overall.target, overall.actual)
  BY <1>0, <1>3, AggregateColumns DEF ColumnsMade
<1>5. WeeklyTotals(weeks) = [deficit |-> overall.deficit, pct |-> overall.pct]
  <2>1. PICK p, q, u, v : /\ p = [g \in SalesGroups |-> figures[g].target]
                          /\ q = [g \in SalesGroups |-> figures[g].actual]
                          /\ u = [g \in SalesGroups |-> weeks[g]["committed"]]
                          /\ v = [g \in SalesGroups |-> weeks[g]["actual"]]
    OBVIOUS
  <2>2. \A g \in SalesGroups : u[g] = p[g] /\ v[g] = q[g]
    BY <1>0, <2>1
  <2>3. /\ SumFunctionOnSet(u, SalesGroups) = SumFunctionOnSet(p, SalesGroups)
        /\ SumFunctionOnSet(v, SalesGroups) = SumFunctionOnSet(q, SalesGroups)
    BY <1>1, <2>2, SumSame
  <2>4. DOMAIN weeks = SalesGroups
    BY <1>0
  <2>5. /\ ColumnTotal(weeks, "committed") = SumFunctionOnSet(u, SalesGroups)
        /\ ColumnTotal(weeks, "actual") = SumFunctionOnSet(v, SalesGroups)
    BY <2>1, <2>4 DEF ColumnTotal
  <2>6. ColumnTotal(weeks, "committed") = overall.target /\ ColumnTotal(weeks, "actual") = overall.actual
    BY <1>3, <1>4, <2>1, <2>3, <2>5 DEF ColumnsMade
  <2> QED
    BY <1>4, <2>6 DEF WeeklyTotals, Deficit
<1>6. ASSUME NEW r \in {rows[g] : g \in SalesGroups} \cup {overall}, r.target > 0
      PROVE  Rounded(r.target, r.actual, r.deficit, r.pct)
  <2>1. /\ r.target \in Int /\ r.actual \in Int /\ r.deficit = r.actual - r.target
        /\ r.pct = PercentageAchieved(r.target, r.actual)
    BY <1>3, <1>4 DEF RowsMade
  <2> QED
    BY <1>6, <2>1, Percentages
<1>7. (\A g \in SalesGroups : rows[g].target > 0) =>
         \E g, h \in SalesGroups : rows[g].pct <= overall.pct /\ overall.pct <= rows[h].pct
  BY <1>0, <1>1, <1>2, OverallBetween
<1>8. RatiosOf(rows, overall, weeks)
  BY <1>5, <1>6, <1>7 DEF RatiosOf
<1>9. RatiosAgree <=> RatiosOf(rows, overall, weeks)
  BY <1>0 DEF RatiosAgree, RatiosOf, Rounded
<1> QED
  BY <1>8, <1>9

-----------------------------------------------------------------------------
(* The departments' items.                                                  *)

\* Any part of the items, counted department by department.
LEMMA GroupsCount ==
    ASSUME IsFiniteSet(DOMAIN items), NEW Part \in SUBSET DOMAIN items, NEW c,
           \A g \in Groups(items) : c[g] = Cardinality(g \cap Part)
    PROVE  SumFunctionOnSet(c, Groups(items)) = Cardinality(Part)
<1>1. PICK G, D : G = Groups(items) /\ D = DOMAIN items
  OBVIOUS
<1>2. PICK of : of = [k \in D |-> {l \in D : items[l].department = items[k].department}]
  OBVIOUS
<1>3. G = {of[k] : k \in D}
  <2>1. \A g : g \in G <=> \E d \in {items[k].department : k \in D} : g = {k \in D : items[k].department = d}
    BY <1>1 DEF Groups
  <2>2. \A g : g \in G <=> \E l \in D : g = {k \in D : items[k].department = items[l].department}
    BY <2>1
  <2>3. \A g : g \in G <=> \E l \in D : g = of[l]
    BY <1>2, <2>2
  <2> QED
    BY <2>3
<1>4. IsFiniteSet(G)
  <2>1. G \subseteq SUBSET D
    BY <1>2, <1>3
  <2>2. IsFiniteSet(SUBSET D)
    BY <1>1, FS_SUBSET
  <2> QED
    BY <2>1, <2>2, FS_Subset
<1>5. PICK F : F = [g \in G |-> g \cap Part]
  OBVIOUS
<1>6. \A g \in G : IsFiniteSet(F[g]) /\ c[g] = Cardinality(F[g])
  <2> SUFFICES ASSUME NEW g \in G PROVE IsFiniteSet(F[g]) /\ c[g] = Cardinality(F[g])
    OBVIOUS
  <2>1. F[g] = g \cap Part /\ F[g] \subseteq DOMAIN items
    BY <1>5
  <2>2. IsFiniteSet(F[g])
    BY <2>1, FS_Subset
  <2> QED
    BY <1>1, <2>1, <2>2
<1>7. \A g, h \in G : g # h => F[g] \cap F[h] = {}
  <2>1. \A k, l \in D : of[k] # of[l] => of[k] \cap of[l] = {}
    BY <1>2
  <2>2. \A g, h \in G : g # h => g \cap h = {}
    BY <1>3, <2>1
  <2> QED
    BY <1>5, <2>2
<1>8. Parts(F, G) = Part
  <2>1. \A k \in D : k \in of[k] /\ of[k] \in G
    BY <1>2, <1>3
  <2>2. \A k \in Part : k \in F[of[k]]
    BY <1>1, <1>5, <2>1
  <2> QED
    BY <1>1, <1>5, <2>1, <2>2 DEF Parts
<1>9. SumFunctionOnSet(c, G) = Cardinality(Parts(F, G))
  BY <1>4, <1>6, <1>7, SumOfParts
<1> QED
  BY <1>1, <1>8, <1>9

LEMMA GroupsSummed == Tabled => GroupsAddUp
<1> SUFFICES ASSUME Tabled,
                    NEW rows, rows = [g \in Groups(items) |-> Summary(g, items)]
             PROVE  /\ ColumnTotal(rows, "total") = Cardinality(Register(items))
                    /\ ColumnTotal(rows, "open") = Cardinality(OpenReport(items))
                    /\ ColumnTotal(rows, "open") + ColumnTotal(rows, "closed") = ColumnTotal(rows, "total")
  BY DEF GroupsAddUp
<1>1. IsFiniteSet(DOMAIN items) /\ \A k \in DOMAIN items : items[k].status \in Active \cup Terminal
  <2>1. CASE items = <<>>
    <3>1. DOMAIN items = {}
      BY <2>1
    <3> QED
      BY <3>1, FS_EmptySet
  <2>2. CASE items \in [Items -> ItemRows]
    BY <2>2, RowsAssumption
  <2> QED
    BY <2>1, <2>2 DEF Tabled
<1>2. PICK D, O, C : /\ D = DOMAIN items /\ O = {k \in D : items[k].status \in Active}
                     /\ C = {k \in D : items[k].status \in Terminal}
  OBVIOUS
<1>3. \A g \in Groups(items) : g \subseteq D
  BY <1>2 DEF Groups
<1>4. PICK t, o, c : /\ t = [g \in Groups(items) |-> rows[g]["total"]]
                     /\ o = [g \in Groups(items) |-> rows[g]["open"]]
                     /\ c = [g \in Groups(items) |-> rows[g]["closed"]]
  OBVIOUS
<1>5. \A g \in Groups(items) : /\ t[g] = Cardinality(g \cap D) /\ o[g] = Cardinality(g \cap O)
                               /\ c[g] = Cardinality(g \cap C)
  <2> SUFFICES ASSUME NEW g \in Groups(items)
               PROVE  /\ t[g] = Cardinality(g \cap D) /\ o[g] = Cardinality(g \cap O)
                      /\ c[g] = Cardinality(g \cap C)
    OBVIOUS
  <2>1. /\ g = g \cap D /\ {k \in g : items[k].status \in Active} = g \cap O
        /\ {k \in g : items[k].status \in Terminal} = g \cap C
    BY <1>2, <1>3
  <2>2. rows[g] = Summary(g, items)
    OBVIOUS
  <2>3. /\ rows[g].total = Cardinality(g) /\ rows[g].open = Cardinality({k \in g : items[k].status \in Active})
        /\ rows[g].closed = Cardinality({k \in g : items[k].status \in Terminal})
    BY <2>2 DEF Summary
  <2>4. t[g] = rows[g].total /\ o[g] = rows[g].open /\ c[g] = rows[g].closed
    BY <1>4
  <2> QED
    BY <2>1, <2>3, <2>4
<1>6. /\ SumFunctionOnSet(t, Groups(items)) = Cardinality(D)
      /\ SumFunctionOnSet(o, Groups(items)) = Cardinality(O)
      /\ SumFunctionOnSet(c, Groups(items)) = Cardinality(C)
  <2>1. D \in SUBSET DOMAIN items /\ O \in SUBSET DOMAIN items /\ C \in SUBSET DOMAIN items
    BY <1>2
  <2>2. /\ \A g \in Groups(items) : t[g] = Cardinality(g \cap D)
        /\ \A g \in Groups(items) : o[g] = Cardinality(g \cap O)
        /\ \A g \in Groups(items) : c[g] = Cardinality(g \cap C)
    BY <1>5
  <2>3. SumFunctionOnSet(t, Groups(items)) = Cardinality(D)
    BY <1>1, <2>1, <2>2, GroupsCount
  <2>4. SumFunctionOnSet(o, Groups(items)) = Cardinality(O)
    BY <1>1, <2>1, <2>2, GroupsCount
  <2>5. SumFunctionOnSet(c, Groups(items)) = Cardinality(C)
    BY <1>1, <2>1, <2>2, GroupsCount
  <2> QED
    BY <2>3, <2>4, <2>5
<1>7. DOMAIN rows = Groups(items)
  OBVIOUS
<1>8. /\ ColumnTotal(rows, "total") = Cardinality(D) /\ ColumnTotal(rows, "open") = Cardinality(O)
      /\ ColumnTotal(rows, "closed") = Cardinality(C)
  BY <1>4, <1>6, <1>7 DEF ColumnTotal
<1>9. Cardinality(O) + Cardinality(C) = Cardinality(D)
  <2>1. O \cup C = D /\ O \cap C = {}
    BY <1>1, <1>2, StatusesAssumption
  <2>2. IsFiniteSet(O) /\ IsFiniteSet(C)
    BY <1>1, <1>2, FS_Subset
  <2>3. Cardinality(O \cup C) = Cardinality(O) + Cardinality(C) - Cardinality(O \cap C)
    BY <2>2, FS_Union
  <2>4. Cardinality(O \cap C) = 0 /\ Cardinality(O) \in Nat /\ Cardinality(C) \in Nat
    BY <2>1, <2>2, FS_EmptySet, FS_CardinalityType
  <2>5. Cardinality(D) = Cardinality(O) + Cardinality(C) - Cardinality(O \cap C)
    BY <2>1, <2>3
  <2> QED
    BY <2>4, <2>5
<1> QED
  BY <1>2, <1>8, <1>9 DEF Register, OpenReport

\* For every number of groups, teams and items, for any figures and any number
\* of changes while a page is made: the two totals of the sales dashboard agree
\* up to what was entered meanwhile, the percentages of the services and of the
\* models are the exact ones rounded and differ in ties only, the totals of
\* weeks are those of groups, and the departments' items add up to the register.
THEOREM FiguresAgreeAlways == Spec => []FiguresAgree
<1>1. FiguresInv /\ PagesInv => FiguresAgree
  BY TotalsNear, RatiosHold, GroupsSummed DEF FiguresInv, PagesInv, FiguresAgree
<1> QED
  BY <1>1, FiguresInvAlways, PagesInvAlways, PTL
=============================================================================
