----------------------- MODULE ActionCarryForward_proofs ----------------------
(***************************************************************************)
(* Proofs about ActionCarryForward for any users, items, forms, meetings,  *)
(* attempts and bounds.  The tables alone are not inductive: what a        *)
(* request holds in its open transaction must fit what is committed and    *)
(* what every other request holds, whichever of them commits first.        *)
(***************************************************************************)
EXTENDS ActionCarryForward, TableFacts

\* A carried row has its link, except for the one whose link comes next, and
\* every link its row.
CopiesTied(r) ==
    /\ r.pc \notin {"idle", "done"} => r.todo # <<>>
    /\ \A l \in r.tied : [ref |-> l.new, from |-> l.source] \in r.made
    /\ \A k, l \in r.tied : KeyOf(k) = KeyOf(l) => k = l
    /\ r.pc \in {"read", "check", "probe", "probed", "save", "link"} =>
          \A l \in r.tied : KeyOf(l) # <<Head(r.todo), r.target, r.scope>>
    /\ r.pc = "link" => /\ [ref |-> r.number, from |-> Head(r.todo)] \in r.made
                        /\ \A l \in r.tied : l.new # r.number
    /\ \A i \in r.made :
          /\ i.from # None
          /\ \/ r.pc = "link" /\ i.ref = r.number
             \/ \E l \in r.tied : /\ l.new = i.ref /\ l.source = i.from
                                  /\ \A k \in r.tied : k.new = i.ref => k = l

\* What a request keeps straight by itself: it holds the numbers of its rows
\* and the one it has probed, and its candidate is above its rows.
Local(r) ==
    /\ IsFiniteSet(r.made)
    /\ \A i, j \in r.made : i.ref = j.ref => i = j
    /\ r.held = NumbersOf(r.made) \cup (IF r.pc = "probed" THEN {r.number} ELSE {})
    /\ r.pc \in {"check", "probe", "probed", "save"} =>
          \A i \in r.made : i.ref < r.number
    /\ r.pc \in {"look", "link"} => r.kind = "carry"
    /\ r.kind # "carry" => r.tied = {} /\ \A i \in r.made : i.from = None
    /\ r.kind = "carry" => CopiesTied(r)

\* What it holds is not committed.
Fits(r) ==
    /\ r.held \cap (IF r.kind = "meeting" THEN meetings ELSE NumbersOf(items)) = {}
    /\ \A k \in r.tied, l \in links : KeyOf(k) = KeyOf(l) => k.target = NoMeeting

\* Two requests hold different numbers of a table, and different links.
Apart(r, s) ==
    /\ (r.kind = "meeting") = (s.kind = "meeting") => r.held \cap s.held = {}
    /\ \A k \in r.tied, l \in s.tied : KeyOf(k) = KeyOf(l) => k.target = NoMeeting

CarryInv ==
    /\ TypeOK /\ CopiesLinked /\ OneCopyPerMeeting
    /\ IsFiniteSet(items) /\ IsFiniteSet(meetings)
    /\ \A u \in Users : Local(req[u]) /\ Fits(req[u])
    /\ \A u, v \in Users : u # v => Apart(req[u], req[v])

-----------------------------------------------------------------------------
(* The operators.                                                           *)

LEMMA NoneIsNoSource == None \notin Sources /\ None \in Nat
  BY NumbersAssumption DEF None

LEMMA NoRequestWell ==
    /\ NoRequest \in Requests /\ Local(NoRequest)
    /\ NoRequest.held = {} /\ NoRequest.tied = {} /\ NoRequest.pc = "idle"
<1>1. NoRequest \in Requests
  BY NoneIsNoSource DEF NoRequest, Requests, Phases, Targets
<1>2. IsFiniteSet({}) /\ NumbersOf({}) = {}
  BY FS_EmptySet DEF NumbersOf
<1> QED
  BY <1>1, <1>2 DEF NoRequest, Local

\* The numbers of a finite table are finitely many.
LEMMA NumbersFinite ==
    ASSUME NEW rows \in SUBSET Items, IsFiniteSet(rows)
    PROVE  IsFiniteSet(NumbersOf(rows)) /\ NumbersOf(rows) \subseteq Nat
<1>1. NumbersOf(rows) \subseteq Nat
  BY DEF NumbersOf, Items
<1> DEFINE f == [i \in rows |-> i.ref]
<1>2. f \in Surjection(rows, NumbersOf(rows))
  BY DEF Surjection, NumbersOf
<1> QED
  BY <1>1, <1>2, FS_Surjection

\* An ordering of some of them is a sequence of sources.
LEMMA OrderingsTyped ==
    ASSUME NEW S \in SUBSET Sources, IsFiniteSet(S), NEW todo \in SetToSeqs(S)
    PROVE  todo \in Seq(Sources)
<1>1. Cardinality(S) \in Nat
  BY FS_CardinalityType
<1>2. todo \in [1..Cardinality(S) -> S]
  BY DEF SetToSeqs
<1>3. todo \in [1..Cardinality(S) -> Sources]
  BY <1>2
<1> QED
  BY <1>1, <1>3

\* A row that is inserted brings its number.
LEMMA NumbersGrow ==
    \A rows, row : NumbersOf(rows \cup {row}) = NumbersOf(rows) \cup {row.ref}
  BY DEF NumbersOf

\* The candidate is above every number the request can see.
LEMMA NextNumberAbove ==
    ASSUME CarryInv, NEW u \in Users
    PROVE  NextNumber(u) \in Nat /\ \A n \in Visible(u) : n < NextNumber(u)
<1> DEFINE S == Visible(u) \cup {0}
<1>1. req[u] \in Requests /\ IsFiniteSet(req[u].made)
  BY DEF CarryInv, TypeOK, Local
<1>2. IsFiniteSet(Committed(u)) /\ Committed(u) \subseteq Nat
  BY NumbersFinite DEF CarryInv, TypeOK, Committed
<1>3. IsFiniteSet(NumbersOf(req[u].made)) /\ NumbersOf(req[u].made) \subseteq Nat
  BY <1>1, NumbersFinite DEF Requests
<1>4. IsFiniteSet(Visible(u)) /\ Visible(u) \subseteq Nat
  BY <1>2, <1>3, FS_Union DEF Visible
<1>5. IsFiniteSet(S) /\ S \subseteq Nat /\ S # {}
  BY <1>4, FS_AddElement
<1>6. \E m \in S : \A x \in S : m >= x
  BY <1>5, LargestNumber
<1>7. Max(S) \in S /\ \A x \in S : Max(S) >= x
  BY <1>6 DEF Max
<1> QED
  BY <1>5, <1>7 DEF NextNumber

LEMMA ApartSymmetric ==
    ASSUME NEW r, NEW s, Apart(r, s)
    PROVE  Apart(s, r)
<1>1. ASSUME NEW k \in s.tied, NEW l \in r.tied, KeyOf(k) = KeyOf(l)
      PROVE  k.target = NoMeeting
  <2>1. l.target = NoMeeting
    BY <1>1 DEF Apart
  <2> QED
    BY <1>1, <2>1 DEF KeyOf
<1>2. (s.kind = "meeting") = (r.kind = "meeting") => s.held \cap r.held = {}
  BY DEF Apart
<1> QED
  BY <1>1, <1>2 DEF Apart

-----------------------------------------------------------------------------
(* What keeps the invariant.                                                *)

\* A request that changes only itself must fit the tables and the others.
LEMMA StepKeeps ==
    ASSUME CarryInv, NEW u \in Users, NEW r \in Requests,
           Local(r), Fits(r), \A v \in Users : v # u => Apart(r, req[v]),
           Step(u, r), UNCHANGED <<items, links, meetings>>
    PROVE  CarryInv'
<1>1. /\ req' \in [Users -> Requests]
      /\ req'[u] = r /\ \A v \in Users : v # u => req'[v] = req[v]
  BY DEF CarryInv, TypeOK, Step
<1>2. TypeOK' /\ CopiesLinked' /\ OneCopyPerMeeting' /\ IsFiniteSet(items)' /\ IsFiniteSet(meetings)'
  BY <1>1 DEF CarryInv, TypeOK, CopiesLinked, OneCopyPerMeeting
<1>3. \A v \in Users : Local(req'[v])
  BY <1>1 DEF CarryInv
<1>4. \A v \in Users : Fits(req[v])'
  BY <1>1 DEF CarryInv, Fits
<1>5. \A v, w \in Users : v # w => Apart(req'[v], req'[w])
  BY <1>1, ApartSymmetric DEF CarryInv
<1> QED
  BY <1>2, <1>3, <1>4, <1>5 DEF CarryInv

\* One that keeps what it holds in the database does fit.
LEMMA MoveKeeps ==
    ASSUME CarryInv, NEW u \in Users, NEW r \in Requests, Local(r),
           r.kind = req[u].kind, r.held = req[u].held, r.tied = req[u].tied,
           Step(u, r), UNCHANGED <<items, links, meetings>>
    PROVE  CarryInv'
<1>1. Fits(r) /\ \A v \in Users : v # u => Apart(r, req[v])
  BY DEF CarryInv, Fits, Apart
<1> QED
  BY <1>1, StepKeeps

\* So does one that holds nothing.
LEMMA EmptyKeeps ==
    ASSUME CarryInv, NEW u \in Users, NEW r \in Requests, Local(r),
           r.held = {}, r.tied = {},
           Step(u, r), UNCHANGED <<items, links, meetings>>
    PROVE  CarryInv'
<1>1. Fits(r) /\ \A v \in Users : v # u => Apart(r, req[v])
  BY DEF Fits, Apart
<1> QED
  BY <1>1, StepKeeps

LEMMA DropKeeps ==
    ASSUME CarryInv, NEW u \in Users, Drop(u)
    PROVE  CarryInv'
  BY NoRequestWell, EmptyKeeps DEF Drop

\* The next attempt keeps the candidate and the rows.
LEMMA AgainKeeps ==
    ASSUME CarryInv, NEW u \in Users, Again(u),
           req[u].pc \in {"read", "check", "probe", "save"}
    PROVE  CarryInv'
<1>1. CASE req[u].attempt < Attempts
  <2> DEFINE r == [req[u] EXCEPT !.pc = "read", !.attempt = @ + 1]
  <2>1. req[u] \in Requests /\ Local(req[u])
    BY DEF CarryInv, TypeOK
  <2>2. r \in Requests
    <3>1. req[u].attempt + 1 \in Nat /\ "read" \in Phases
      BY <2>1 DEF Requests, Phases
    <3> QED
      BY <2>1, <3>1 DEF Requests
  <2>3. /\ r.pc = "read" /\ r.kind = req[u].kind /\ r.todo = req[u].todo
        /\ r.target = req[u].target /\ r.scope = req[u].scope
        /\ r.made = req[u].made /\ r.tied = req[u].tied /\ r.held = req[u].held
    BY <2>1 DEF Requests
  <2>4. req[u].kind = "carry" => CopiesTied(r)
    BY <2>1, <2>3 DEF Local, CopiesTied
  <2>5. Local(r)
    BY <2>1, <2>3, <2>4 DEF Local
  <2>6. Step(u, r) /\ UNCHANGED <<items, links, meetings>>
    BY <1>1 DEF Again
  <2> QED
    BY <2>2, <2>3, <2>5, <2>6, MoveKeeps
<1>2. CASE ~ (req[u].attempt < Attempts)
  BY <1>2, DropKeeps DEF Again
<1> QED
  BY <1>1, <1>2

-----------------------------------------------------------------------------
(* The actions.                                                             *)

LEMMA Starts == Init => CarryInv
<1> SUFFICES ASSUME Init PROVE CarryInv
  OBVIOUS
<1>1. items \in SUBSET Items /\ \A i \in items : i.from = None
  BY NumbersAssumption DEF Init, Items
<1>2. \A i, j \in items : i.ref = j.ref => i = j
  BY DEF Init
<1>3. IsFiniteSet(items)
  <2> DEFINE f == [n \in Existing |-> [ref |-> n, from |-> None]]
  <2>1. f \in Surjection(Existing, items)
    BY DEF Init, Surjection
  <2> QED
    BY <2>1, FS_Surjection, NumbersAssumption
<1>4. IsFiniteSet(meetings) /\ meetings \in SUBSET Nat
  BY FS_Singleton DEF Init
<1>5. \A u \in Users : req[u] = NoRequest
  BY DEF Init
<1>6. TypeOK
  BY <1>1, <1>2, <1>4, NoRequestWell DEF Init, TypeOK
<1>7. CopiesLinked /\ OneCopyPerMeeting
  BY <1>1 DEF Init, CopiesLinked, OneCopyPerMeeting
<1>8. \A u \in Users : Local(req[u]) /\ Fits(req[u])
  BY <1>5, NoRequestWell DEF Fits
<1>9. \A u, v \in Users : Apart(req[u], req[v])
  BY <1>5, NoRequestWell DEF Apart
<1> QED
  BY <1>3, <1>4, <1>6, <1>7, <1>8, <1>9 DEF CarryInv

LEMMA StartMeetingKeeps ==
    ASSUME CarryInv, NEW u \in Users, StartMeeting(u)
    PROVE  CarryInv'
<1> DEFINE r == [NoRequest EXCEPT !.pc = "read", !.kind = "meeting"]
<1>1. r \in Requests
  BY NoRequestWell DEF Requests, Phases
<1>2. Local(r) /\ r.held = {} /\ r.tied = {}
  BY FS_EmptySet DEF NoRequest, Local, NumbersOf
<1> QED
  BY <1>1, <1>2, EmptyKeeps DEF StartMeeting

LEMMA StartCreateKeeps ==
    ASSUME CarryInv, NEW u \in Users, StartCreate(u)
    PROVE  CarryInv'
<1> DEFINE r == [NoRequest EXCEPT !.pc = "read", !.kind = "create"]
<1>1. r \in Requests
  BY NoRequestWell DEF Requests, Phases
<1>2. Local(r) /\ r.held = {} /\ r.tied = {}
  BY FS_EmptySet DEF NoRequest, Local, NumbersOf
<1> QED
  BY <1>1, <1>2, EmptyKeeps DEF StartCreate

\* A batch is an ordering of the sources its form selects.
LEMMA BatchesTyped ==
    ASSUME NEW form \in Forms, NEW todo \in Batches(form)
    PROVE  /\ todo \in Seq(Sources)
           /\ \A k \in DOMAIN todo : todo[k] \in Selected(form)
           /\ \A j, k \in DOMAIN todo : j < k => form.rank[todo[j]] <= form.rank[todo[k]]
<1>1. Selected(form) \subseteq Sources /\ IsFiniteSet(Selected(form))
  BY FormsAssumption, NumbersAssumption, FS_Subset DEF Selected
<1>2. todo \in SetToSeqs(Selected(form))
  BY DEF Batches
<1>3. todo \in Seq(Sources)
  BY <1>1, <1>2, OrderingsTyped
<1>4. \A k \in DOMAIN todo : todo[k] \in Selected(form)
  BY <1>2 DEF SetToSeqs
<1> QED
  BY <1>3, <1>4 DEF Batches

LEMMA StartCarryKeeps ==
    ASSUME CarryInv, NEW u \in Users, StartCarry(u)
    PROVE  CarryInv'
<1>1. /\ UNCHANGED <<items, links, meetings>>
      /\ \E form \in Forms : \E todo \in Batches(form) :
            Step(u, [NoRequest EXCEPT
                          !.pc = IF todo = <<>> THEN "done" ELSE "look",
                          !.kind = "carry", !.todo = todo,
                          !.target = form.target, !.scope = form.finished])
  BY DEF StartCarry
<1> PICK form \in Forms : \E todo \in Batches(form) :
         Step(u, [NoRequest EXCEPT
                       !.pc = IF todo = <<>> THEN "done" ELSE "look",
                       !.kind = "carry", !.todo = todo,
                       !.target = form.target, !.scope = form.finished])
  BY <1>1
<1> PICK todo \in Batches(form) :
         Step(u, [NoRequest EXCEPT
                       !.pc = IF todo = <<>> THEN "done" ELSE "look",
                       !.kind = "carry", !.todo = todo,
                       !.target = form.target, !.scope = form.finished])
  OBVIOUS
<1> DEFINE r == [NoRequest EXCEPT
                      !.pc = IF todo = <<>> THEN "done" ELSE "look",
                      !.kind = "carry", !.todo = todo,
                      !.target = form.target, !.scope = form.finished]
<1>2. todo \in Seq(Sources)
  BY BatchesTyped
<1>3. form.target \in Targets /\ form.finished \in BOOLEAN
  BY FormsAssumption DEF Targets
<1>4. r \in Requests
  BY <1>2, <1>3, NoRequestWell DEF Requests, Phases
<1>5. /\ r.pc = (IF todo = <<>> THEN "done" ELSE "look") /\ r.kind = "carry" /\ r.todo = todo
      /\ r.made = {} /\ r.tied = {} /\ r.held = {}
  BY DEF NoRequest
<1>6. CopiesTied(r)
  BY <1>5 DEF CopiesTied
<1>7. Local(r)
  BY <1>5, <1>6, FS_EmptySet DEF Local, NumbersOf
<1> QED
  BY <1>1, <1>4, <1>5, <1>7, EmptyKeeps DEF StartCarry

\* Going on to the next source: every row has its link by then.
LEMMA OnwardWell ==
    ASSUME NEW r \in Requests, r.todo # <<>>, r.kind = "carry", IsFiniteSet(r.made),
           r.held = NumbersOf(r.made),
           \A i, j \in r.made : i.ref = j.ref => i = j,
           \A l \in r.tied : [ref |-> l.new, from |-> l.source] \in r.made,
           \A k, l \in r.tied : KeyOf(k) = KeyOf(l) => k = l,
           \A i \in r.made : /\ i.from # None
                             /\ \E l \in r.tied : /\ l.new = i.ref /\ l.source = i.from
                                                  /\ \A k \in r.tied : k.new = i.ref => k = l
    PROVE  /\ Onward(r) \in Requests /\ Local(Onward(r))
           /\ Onward(r).kind = r.kind /\ Onward(r).held = r.held /\ Onward(r).tied = r.tied
<1>1. Tail(r.todo) \in Seq(Sources)
  BY DEF Requests
<1>2. Onward(r) \in Requests
  BY <1>1, NoneIsNoSource DEF Onward, Requests, Phases
<1>3. /\ Onward(r).pc = (IF Tail(r.todo) = <<>> THEN "done" ELSE "look")
      /\ Onward(r).todo = Tail(r.todo)
      /\ Onward(r).kind = r.kind /\ Onward(r).held = r.held /\ Onward(r).tied = r.tied
      /\ Onward(r).made = r.made
  BY DEF Onward, Requests
<1>4. CopiesTied(Onward(r))
  BY <1>3 DEF CopiesTied
<1>5. Local(Onward(r))
  BY <1>3, <1>4 DEF Local
<1> QED
  BY <1>2, <1>3, <1>5

\* While it looks, a request may go on.
LEMMA PassKeeps ==
    ASSUME CarryInv, NEW u \in Users, req[u].pc = "look", Step(u, Onward(req[u])),
           UNCHANGED <<items, links, meetings>>
    PROVE  CarryInv'
<1> DEFINE r == req[u]
<1>1. r \in Requests /\ Local(r)
  BY DEF CarryInv, TypeOK
<1>2. r.kind = "carry" /\ CopiesTied(r) /\ r.held = NumbersOf(r.made)
  BY <1>1 DEF Local
<1>3. /\ Onward(r) \in Requests /\ Local(Onward(r))
      /\ Onward(r).kind = r.kind /\ Onward(r).held = r.held /\ Onward(r).tied = r.tied
  BY <1>1, <1>2, OnwardWell DEF Local, CopiesTied
<1> QED
  BY <1>3, MoveKeeps

LEMMA LookKeeps ==
    ASSUME CarryInv, NEW u \in Users, Look(u)
    PROVE  CarryInv'
<1>1. CASE \E l \in links \cup req[u].tied : KeyOf(l) = Key(u)
  BY <1>1, PassKeeps DEF Look
<1>2. CASE ~ \E l \in links \cup req[u].tied : KeyOf(l) = Key(u)
  <2> DEFINE r == [req[u] EXCEPT !.pc = "read"]
  <2>1. req[u] \in Requests /\ Local(req[u]) /\ req[u].pc = "look"
    BY DEF CarryInv, TypeOK, Look
  <2>2. r \in Requests
    BY <2>1 DEF Requests, Phases
  <2>3. /\ r.pc = "read" /\ r.kind = req[u].kind /\ r.todo = req[u].todo
        /\ r.target = req[u].target /\ r.scope = req[u].scope
        /\ r.made = req[u].made /\ r.tied = req[u].tied /\ r.held = req[u].held
    BY <2>1 DEF Requests
  <2>4. CopiesTied(r)
    BY <1>2, <2>1, <2>3 DEF Local, CopiesTied, Key
  <2>5. Local(r)
    BY <2>1, <2>3, <2>4 DEF Local
  <2> QED
    BY <1>2, <2>2, <2>3, <2>5, MoveKeeps DEF Look
<1> QED
  BY <1>1, <1>2

LEMMA ReadKeeps ==
    ASSUME CarryInv, NEW u \in Users, Read(u)
    PROVE  CarryInv'
<1> DEFINE r == [req[u] EXCEPT !.pc = "check", !.number = NextNumber(u)]
<1>1. req[u] \in Requests /\ Local(req[u]) /\ req[u].pc = "read"
  BY DEF CarryInv, TypeOK, Read
<1>2. NextNumber(u) \in Nat /\ \A i \in req[u].made : i.ref < NextNumber(u)
  BY NextNumberAbove DEF Visible, NumbersOf
<1>3. r \in Requests
  BY <1>1, <1>2 DEF Requests, Phases
<1>4. /\ r.pc = "check" /\ r.kind = req[u].kind /\ r.todo = req[u].todo
      /\ r.target = req[u].target /\ r.scope = req[u].scope /\ r.number = NextNumber(u)
      /\ r.made = req[u].made /\ r.tied = req[u].tied /\ r.held = req[u].held
  BY <1>1 DEF Requests
<1>5. r.kind = "carry" => CopiesTied(r)
  BY <1>1, <1>4 DEF Local, CopiesTied
<1>6. Local(r)
  BY <1>1, <1>2, <1>4, <1>5 DEF Local
<1> QED
  BY <1>3, <1>4, <1>6, MoveKeeps DEF Read

LEMMA CheckKeeps ==
    ASSUME CarryInv, NEW u \in Users, Check(u)
    PROVE  CarryInv'
<1>1. CASE req[u].kind = "meeting" /\ req[u].number \in Committed(u)
  BY <1>1, AgainKeeps DEF Check
<1>2. CASE ~ (req[u].kind = "meeting" /\ req[u].number \in Committed(u))
  <2> DEFINE p == IF req[u].kind = "meeting" \/ req[u].number \in Committed(u)
                  THEN "save" ELSE "probe"
             r == [req[u] EXCEPT !.pc = p]
  <2>1. req[u] \in Requests /\ Local(req[u]) /\ req[u].pc = "check" /\ p \in {"save", "probe"}
    BY DEF CarryInv, TypeOK, Check
  <2>2. Step(u, r) /\ UNCHANGED <<items, links, meetings>>
    BY <1>2 DEF Check
  <2> HIDE DEF p
  <2>3. r \in Requests
    BY <2>1 DEF Requests, Phases
  <2>4. /\ r.pc \in {"save", "probe"} /\ r.kind = req[u].kind /\ r.todo = req[u].todo
        /\ r.target = req[u].target /\ r.scope = req[u].scope /\ r.number = req[u].number
        /\ r.made = req[u].made /\ r.tied = req[u].tied /\ r.held = req[u].held
    BY <2>1 DEF Requests
  <2>5. r.kind = "carry" => CopiesTied(r)
    BY <2>1, <2>4 DEF Local, CopiesTied
  <2>6. Local(r)
    BY <2>1, <2>4, <2>5 DEF Local
  <2> QED
    BY <2>2, <2>3, <2>4, <2>6, MoveKeeps
<1> QED
  BY <1>1, <1>2

\* Nobody the insert had to wait for, and nothing committed: the number is new.
LEMMA NumberIsNew ==
    ASSUME CarryInv, NEW u \in Users, Free(u),
           req[u].pc \in {"probe", "probed", "save"}, req[u].number \notin Committed(u),
           NEW r, r.kind = req[u].kind, r.tied = req[u].tied,
           r.held = req[u].held \cup {req[u].number}
    PROVE  Fits(r) /\ \A v \in Users : v # u => Apart(r, req[v])
<1>1. Fits(req[u]) /\ \A v \in Users : v # u => Apart(req[u], req[v])
  BY DEF CarryInv
<1>2. Fits(r)
  BY <1>1 DEF Fits, Committed
<1>3. ASSUME NEW v \in Users, v # u
      PROVE  Apart(r, req[v])
  <2>1. SameTable(u, v) => req[u].number \notin req[v].held
    BY <1>3 DEF Free, WaitsFor, WaitsByNumber
  <2>2. (r.kind = "meeting") = (req[v].kind = "meeting") => r.held \cap req[v].held = {}
    BY <1>1, <1>3, <2>1 DEF SameTable, Apart
  <2> QED
    BY <1>1, <1>3, <2>2 DEF Apart
<1> QED
  BY <1>2, <1>3

LEMMA ProbeKeeps ==
    ASSUME CarryInv, NEW u \in Users, Probe(u)
    PROVE  CarryInv'
<1>1. CASE req[u].number \in Committed(u)
  BY <1>1, AgainKeeps DEF Probe
<1>2. CASE req[u].number \notin Committed(u)
  <2> DEFINE r == [req[u] EXCEPT !.pc = "probed", !.held = @ \cup {req[u].number}]
  <2>1. req[u] \in Requests /\ Local(req[u]) /\ req[u].pc = "probe"
    BY DEF CarryInv, TypeOK, Probe
  <2>2. r \in Requests
    <3>1. req[u].held \cup {req[u].number} \in SUBSET Nat /\ "probed" \in Phases
      BY <2>1 DEF Requests, Phases
    <3> QED
      BY <2>1, <3>1 DEF Requests
  <2>3. /\ r.pc = "probed" /\ r.kind = req[u].kind /\ r.todo = req[u].todo
        /\ r.target = req[u].target /\ r.scope = req[u].scope /\ r.number = req[u].number
        /\ r.made = req[u].made /\ r.tied = req[u].tied
        /\ r.held = req[u].held \cup {req[u].number}
    BY <2>1 DEF Requests
  <2>4. r.kind = "carry" => CopiesTied(r)
    BY <2>1, <2>3 DEF Local, CopiesTied
  <2>5. Local(r)
    BY <2>1, <2>3, <2>4 DEF Local
  <2>6. Fits(r) /\ \A v \in Users : v # u => Apart(r, req[v])
    BY <1>2, <2>1, <2>3, NumberIsNew DEF Probe
  <2> QED
    BY <1>2, <2>2, <2>5, <2>6, StepKeeps DEF Probe
<1> QED
  BY <1>1, <1>2

LEMMA SaveKeeps ==
    ASSUME CarryInv, NEW u \in Users, Save(u)
    PROVE  CarryInv'
<1>1. CASE req[u].number \in Committed(u)
  BY <1>1, DropKeeps DEF Save
<1>2. CASE req[u].number \notin Committed(u)
  <2> DEFINE q == req[u]
             p == IF q.kind = "carry" THEN "link" ELSE "done"
             row == [ref |-> q.number, from |-> IF q.kind = "carry" THEN Head(q.todo) ELSE None]
             r == [q EXCEPT !.pc = p, !.held = @ \cup {q.number}, !.made = @ \cup {row}]
  <2>1. q \in Requests /\ Local(q) /\ q.pc \in {"probed", "save"} /\ Free(u)
    BY DEF CarryInv, TypeOK, Save
  <2>2. q.kind = "carry" => CopiesTied(q) /\ q.todo # <<>> /\ Head(q.todo) \in Sources
    BY <2>1 DEF Local, CopiesTied, Requests
  <2>3. row \in Items
    BY <2>1, <2>2 DEF Items, Requests
  <2>4. /\ r \in Requests
        /\ r.pc = p /\ r.kind = q.kind /\ r.todo = q.todo /\ r.number = q.number
        /\ r.target = q.target /\ r.scope = q.scope /\ r.tied = q.tied
        /\ r.made = q.made \cup {row} /\ r.held = q.held \cup {q.number}
    <3>1. q.held \cup {q.number} \in SUBSET Nat /\ q.made \cup {row} \in SUBSET Items /\ p \in Phases
      BY <2>1, <2>3 DEF Requests, Phases
    <3> QED
      BY <2>1, <3>1 DEF Requests
  <2>5. Step(u, r) /\ UNCHANGED <<items, links, meetings>>
    BY <1>2 DEF Save
  <2>6. \A i \in q.made : i.ref < row.ref
    BY <2>1 DEF Local
  <2>7. row.ref = q.number /\ \A i \in q.made : i.ref # q.number
    <3>1. \A i \in q.made : i.ref \in Nat /\ q.number \in Nat
      BY <2>1 DEF Requests, Items
    <3> QED
      BY <2>6, <3>1
  <2>8. /\ q.kind = "carry" => p = "link" /\ row.from = Head(q.todo)
        /\ q.kind # "carry" => p = "done" /\ row.from = None
    OBVIOUS
  <2>9. IsFiniteSet(r.made) /\ \A i, j \in r.made : i.ref = j.ref => i = j
    <3>1. IsFiniteSet(q.made) /\ \A i, j \in q.made : i.ref = j.ref => i = j
      BY <2>1 DEF Local
    <3> HIDE DEF row, r
    <3>2. IsFiniteSet(q.made \cup {row})
      BY <3>1, FS_AddElement
    <3> QED
      BY <2>4, <2>7, <3>1, <3>2
  <2>10. r.held = NumbersOf(r.made)
    <3>1. q.held \cup {q.number} = NumbersOf(q.made) \cup {q.number}
      BY <2>1 DEF Local
    <3> HIDE DEF row, r
    <3>2. NumbersOf(q.made \cup {row}) = NumbersOf(q.made) \cup {q.number}
      BY <2>7, NumbersGrow
    <3> QED
      BY <2>4, <3>1, <3>2
  <2>11. q.kind = "carry" => CopiesTied(r)
    <3> SUFFICES ASSUME q.kind = "carry" PROVE CopiesTied(r)
      OBVIOUS
    <3>1. r.pc = "link" /\ r.number = q.number /\ CopiesTied(q)
      BY <2>2, <2>4, <2>8
    <3>2. row = [ref |-> r.number, from |-> Head(r.todo)]
      BY <2>4, <2>8
    <3> HIDE DEF row, r
    <3>3. [ref |-> r.number, from |-> Head(r.todo)] \in r.made
      BY <2>4, <3>2
    <3>4. \A l \in r.tied : l.new # r.number
      <4> SUFFICES ASSUME NEW l \in r.tied PROVE l.new # r.number
        OBVIOUS
      <4>1. [ref |-> l.new, from |-> l.source] \in q.made
        BY <2>4, <3>1 DEF CopiesTied
      <4> QED
        BY <2>4, <2>7, <4>1
    <3>5. \A i \in r.made : /\ i.from # None
                            /\ \/ i.ref = r.number
                               \/ \E l \in r.tied : /\ l.new = i.ref /\ l.source = i.from
                                                    /\ \A k \in r.tied : k.new = i.ref => k = l
      <4>1. ASSUME NEW i \in q.made
            PROVE  /\ i.from # None
                   /\ \E l \in r.tied : /\ l.new = i.ref /\ l.source = i.from
                                        /\ \A k \in r.tied : k.new = i.ref => k = l
        BY <2>1, <2>4, <3>1 DEF CopiesTied
      <4>2. row.from # None /\ row.ref = r.number
        BY <2>2, <2>4, <2>7, <2>8, NoneIsNoSource
      <4> QED
        BY <2>4, <4>1, <4>2
    <3>6. \A l \in r.tied : [ref |-> l.new, from |-> l.source] \in r.made
      BY <2>4, <3>1 DEF CopiesTied
    <3>7. /\ \A k, l \in r.tied : KeyOf(k) = KeyOf(l) => k = l
          /\ \A l \in r.tied : KeyOf(l) # <<Head(r.todo), r.target, r.scope>>
          /\ r.todo # <<>>
      BY <2>1, <2>2, <2>4, <3>1 DEF CopiesTied
    <3> QED
      BY <3>1, <3>3, <3>4, <3>5, <3>6, <3>7 DEF CopiesTied
  <2>12. q.kind # "carry" => r.tied = {} /\ \A i \in r.made : i.from = None
    BY <2>1, <2>4, <2>8 DEF Local
  <2>13. Local(r)
    BY <2>4, <2>8, <2>9, <2>10, <2>11, <2>12 DEF Local
  <2>14. Fits(r) /\ \A v \in Users : v # u => Apart(r, req[v])
    BY <1>2, <2>1, <2>4, NumberIsNew
  <2> QED
    BY <2>4, <2>5, <2>13, <2>14, StepKeeps
<1> QED
  BY <1>1, <1>2

LEMMA LinkKeeps ==
    ASSUME CarryInv, NEW u \in Users, Link(u)
    PROVE  CarryInv'
<1>1. CASE Taken(u)
  BY <1>1, DropKeeps DEF Link
<1>2. CASE ~ Taken(u)
  <2> DEFINE q == req[u]
             tie == [source |-> Head(q.todo), target |-> q.target,
                     scope |-> q.scope, new |-> q.number]
             t == [q EXCEPT !.tied = @ \cup {tie}]
             r == Onward(t)
  <2>1. q \in Requests /\ Local(q) /\ q.pc = "link" /\ Free(u)
    BY DEF CarryInv, TypeOK, Link
  <2>2. q.kind = "carry" /\ CopiesTied(q) /\ q.todo # <<>> /\ Head(q.todo) \in Sources
    BY <2>1 DEF Local, CopiesTied, Requests
  <2>3. tie \in Links /\ KeyOf(tie) = Key(u) /\ KeyOf(tie) = <<Head(q.todo), q.target, q.scope>>
    BY <2>1, <2>2 DEF Links, Requests, KeyOf, Key
  <2>4. /\ t \in Requests
        /\ t.pc = "link" /\ t.kind = "carry" /\ t.todo = q.todo /\ t.number = q.number
        /\ t.target = q.target /\ t.scope = q.scope /\ t.tied = q.tied \cup {tie}
        /\ t.made = q.made /\ t.held = q.held
    BY <2>1, <2>2, <2>3 DEF Requests
  <2>5. Step(u, r) /\ UNCHANGED <<items, links, meetings>>
    BY <1>2 DEF Link
  <2>6. tie.new = q.number /\ tie.source = Head(q.todo) /\ tie.target = q.target
    OBVIOUS
  <2> HIDE DEF tie, t
  <2>7. \A l \in t.tied : [ref |-> l.new, from |-> l.source] \in t.made
    BY <2>1, <2>2, <2>4, <2>6 DEF CopiesTied
  <2>8. \A k, l \in t.tied : KeyOf(k) = KeyOf(l) => k = l
    BY <2>1, <2>2, <2>3, <2>4 DEF CopiesTied
  <2>9. ASSUME NEW i \in t.made
        PROVE  /\ i.from # None
               /\ \E l \in t.tied : /\ l.new = i.ref /\ l.source = i.from
                                    /\ \A k \in t.tied : k.new = i.ref => k = l
    <3>1. i \in q.made /\ i.from # None
      BY <2>2, <2>4, <2>9 DEF CopiesTied
    <3>2. CASE i.ref = q.number
      <4>1. [ref |-> q.number, from |-> Head(q.todo)] \in q.made /\ \A l \in q.tied : l.new # q.number
        BY <2>1, <2>2 DEF CopiesTied
      <4>2. i = [ref |-> q.number, from |-> Head(q.todo)]
        BY <2>1, <3>1, <3>2, <4>1 DEF Local
      <4>3. i.from = Head(q.todo)
        BY <4>2
      <4> QED
        BY <2>4, <2>6, <3>1, <3>2, <4>1, <4>3
    <3>3. CASE i.ref # q.number
      <4>1. PICK l \in q.tied : /\ l.new = i.ref /\ l.source = i.from
                                /\ \A k \in q.tied : k.new = i.ref => k = l
        BY <2>2, <3>1, <3>3 DEF CopiesTied
      <4> QED
        BY <2>4, <2>6, <3>1, <3>3, <4>1
    <3> QED
      BY <3>2, <3>3
  <2>10. /\ IsFiniteSet(t.made) /\ t.held = NumbersOf(t.made)
         /\ \A i, j \in t.made : i.ref = j.ref => i = j
    BY <2>1, <2>4 DEF Local
  <2>11. r \in Requests /\ Local(r) /\ r.kind = q.kind /\ r.held = q.held /\ r.tied = q.tied \cup {tie}
    BY <2>2, <2>4, <2>7, <2>8, <2>9, <2>10, OnwardWell
  <2>12. Fits(q) /\ \A v \in Users : v # u => Apart(q, req[v])
    BY DEF CarryInv
  <2> HIDE DEF r
  <2>13. Fits(r)
    <3>1. \A l \in links : KeyOf(tie) = KeyOf(l) => tie.target = NoMeeting
      BY <1>2, <2>3, <2>6 DEF Taken
    <3> QED
      BY <2>11, <2>12, <3>1 DEF Fits
  <2>14. ASSUME NEW v \in Users, v # u
         PROVE  Apart(r, req[v])
    <3>1. \A l \in req[v].tied : KeyOf(tie) = KeyOf(l) => tie.target = NoMeeting
      BY <2>1, <2>3, <2>6, <2>14 DEF Free, WaitsFor, WaitsByLink
    <3> QED
      BY <2>11, <2>12, <2>14, <3>1 DEF Apart
  <2> QED
    BY <2>5, <2>11, <2>13, <2>14, StepKeeps
<1> QED
  BY <1>1, <1>2

\* When a request commits, its rows and links fit those there are.
LEMMA CommitKeeps ==
    ASSUME CarryInv, NEW u \in Users, Commit(u)
    PROVE  CarryInv'
<1> DEFINE q == req[u]
<1>1. /\ q \in Requests /\ Local(q) /\ Fits(q) /\ q.pc = "done"
      /\ q.held = NumbersOf(q.made) /\ q.made \subseteq Items /\ q.tied \subseteq Links
  BY DEF CarryInv, TypeOK, Commit, Local, Requests
<1>2. /\ req' \in [Users -> Requests]
      /\ req'[u] = NoRequest /\ \A v \in Users : v # u => req'[v] = req[v]
  BY NoRequestWell DEF CarryInv, TypeOK, Commit, Step
<1>3. \A v \in Users : v # u => Apart(req[v], q) /\ Fits(req[v]) /\ Local(req[v])
  BY DEF CarryInv
<1>4. /\ \A v \in Users : Local(req'[v])
      /\ \A v, w \in Users : v # w => Apart(req'[v], req'[w])
  <2>1. \A r : Apart(r, NoRequest) /\ Apart(NoRequest, r)
    BY NoRequestWell DEF Apart
  <2> QED
    BY <1>2, <2>1, NoRequestWell DEF CarryInv
<1>5. CASE q.kind = "meeting"
  <2>1. meetings' = meetings \cup q.held /\ UNCHANGED <<items, links>>
    BY <1>1, <1>5 DEF Commit
  <2>2. IsFiniteSet(meetings)' /\ meetings' \in SUBSET Nat
    BY <1>1, <2>1, NumbersFinite, FS_Union DEF CarryInv, TypeOK, Local
  <2>3. TypeOK' /\ CopiesLinked' /\ OneCopyPerMeeting' /\ IsFiniteSet(items)'
    BY <1>2, <2>1, <2>2 DEF CarryInv, TypeOK, CopiesLinked, OneCopyPerMeeting
  <2>4. ASSUME NEW v \in Users, v # u
        PROVE  Fits(req[v])'
    <3>1. req[v].kind = "meeting" => req[v].held \cap q.held = {}
      BY <1>3, <1>5, <2>4 DEF Apart
    <3> QED
      BY <1>2, <1>3, <2>1, <2>4, <3>1 DEF Fits
  <2>5. Fits(req[u])'
    BY <1>2, NoRequestWell DEF Fits
  <2> QED
    BY <1>4, <2>2, <2>3, <2>4, <2>5 DEF CarryInv
<1>6. CASE q.kind # "meeting"
  <2>1. items' = items \cup q.made /\ links' = links \cup q.tied /\ UNCHANGED meetings
    BY <1>6 DEF Commit
  <2>2. /\ \A i \in items, j \in q.made : i.ref # j.ref
        /\ \A i \in items : i.ref \in NumbersOf(items)
    BY <1>1, <1>6 DEF Fits, NumbersOf
  <2>3. NumbersOf(items') = NumbersOf(items) \cup q.held
    BY <1>1, <2>1 DEF NumbersOf
  <2>4. /\ \A l \in links : [ref |-> l.new, from |-> l.source] \in items
        /\ \A l \in q.tied : [ref |-> l.new, from |-> l.source] \in q.made
    BY <1>1 DEF CarryInv, CopiesLinked, Local, CopiesTied, Requests
  <2>5. TypeOK'
    BY <1>1, <1>2, <2>1, <2>2 DEF CarryInv, TypeOK, Local
  <2>6. IsFiniteSet(items)' /\ IsFiniteSet(meetings)'
    BY <1>1, <2>1, FS_Union DEF CarryInv, Local
  <2>7. CopiesLinked'
    <3>1. ASSUME NEW i \in items, i.from # None
          PROVE  \E l \in links' : /\ l.new = i.ref /\ l.source = i.from
                                   /\ \A k \in links' : k.new = i.ref => k = l
      <4>1. PICK l \in links : /\ l.new = i.ref /\ l.source = i.from
                               /\ \A k \in links : k.new = i.ref => k = l
        BY <3>1 DEF CarryInv, CopiesLinked
      <4>2. \A k \in q.tied : k.new # i.ref
        BY <2>2, <2>4
      <4> QED
        BY <2>1, <4>1, <4>2
    <3>2. ASSUME NEW i \in q.made, i.from # None
          PROVE  \E l \in links' : /\ l.new = i.ref /\ l.source = i.from
                                   /\ \A k \in links' : k.new = i.ref => k = l
      <4>1. CopiesTied(q)
        BY <1>1, <3>2 DEF Local, Requests
      <4>2. PICK l \in q.tied : /\ l.new = i.ref /\ l.source = i.from
                                /\ \A k \in q.tied : k.new = i.ref => k = l
        BY <1>1, <4>1 DEF CopiesTied
      <4>3. \A k \in links : k.new # i.ref
        BY <2>2, <2>4
      <4> QED
        BY <2>1, <4>2, <4>3
    <3>3. \A l \in links' : [ref |-> l.new, from |-> l.source] \in items'
      BY <2>1, <2>4
    <3> QED
      BY <2>1, <3>1, <3>2, <3>3 DEF CopiesLinked
  <2>8. OneCopyPerMeeting'
    <3>1. \A k \in q.tied, l \in links : KeyOf(k) = KeyOf(l) => k.target = NoMeeting
      BY <1>1 DEF Fits
    <3>2. \A k, l \in q.tied : KeyOf(k) = KeyOf(l) => k = l
      BY <1>1 DEF Local, CopiesTied, Requests
    <3>3. \A k, l : KeyOf(k) = KeyOf(l) => k.target = l.target
      BY DEF KeyOf
    <3> QED
      BY <2>1, <3>1, <3>2, <3>3 DEF CarryInv, OneCopyPerMeeting
  <2>9. ASSUME NEW v \in Users, v # u
        PROVE  Fits(req[v])'
    <3>1. req[v].kind # "meeting" => req[v].held \cap q.held = {}
      BY <1>3, <1>6, <2>9 DEF Apart
    <3>2. \A k \in req[v].tied, l \in q.tied : KeyOf(k) = KeyOf(l) => k.target = NoMeeting
      BY <1>3, <2>9 DEF Apart
    <3> QED
      BY <1>2, <1>3, <2>1, <2>3, <2>9, <3>1, <3>2 DEF Fits
  <2>10. Fits(req[u])'
    BY <1>2, NoRequestWell DEF Fits
  <2> QED
    BY <1>4, <2>5, <2>6, <2>7, <2>8, <2>9, <2>10 DEF CarryInv
<1> QED
  BY <1>5, <1>6

\* A deleted copy takes its link with it, and no other.
LEMMA DeleteKeeps ==
    ASSUME CarryInv, NEW n \in Deletable, Delete(n)
    PROVE  CarryInv'
<1>1. /\ items' = {i \in items : i.ref # n} /\ links' = {l \in links : l.new # n}
      /\ UNCHANGED <<meetings, req>>
  BY DEF Delete
<1>2. TypeOK' /\ OneCopyPerMeeting'
  BY <1>1 DEF CarryInv, TypeOK, OneCopyPerMeeting
<1>3. IsFiniteSet(items)' /\ IsFiniteSet(meetings)'
  BY <1>1, FS_Subset DEF CarryInv
<1>4. CopiesLinked'
  <2>1. ASSUME NEW i \in items', i.from # None
        PROVE  \E l \in links' : /\ l.new = i.ref /\ l.source = i.from
                                 /\ \A k \in links' : k.new = i.ref => k = l
    <3>1. PICK l \in links : /\ l.new = i.ref /\ l.source = i.from
                             /\ \A k \in links : k.new = i.ref => k = l
      BY <1>1, <2>1 DEF CarryInv, CopiesLinked
    <3> QED
      BY <1>1, <3>1
  <2>2. ASSUME NEW l \in links'
        PROVE  [ref |-> l.new, from |-> l.source] \in items'
    <3>1. [ref |-> l.new, from |-> l.source] \in items /\ l.new # n
      BY <1>1 DEF CarryInv, CopiesLinked
    <3> QED
      BY <1>1, <3>1
  <2> QED
    BY <2>1, <2>2 DEF CopiesLinked
<1>5. NumbersOf(items') \subseteq NumbersOf(items)
  BY <1>1 DEF NumbersOf
<1>6. \A u \in Users : Fits(req[u])'
  BY <1>1, <1>5 DEF CarryInv, Fits
<1>7. /\ \A u \in Users : Local(req'[u])
      /\ \A u, v \in Users : u # v => Apart(req'[u], req'[v])
  BY <1>1 DEF CarryInv
<1> QED
  BY <1>2, <1>3, <1>4, <1>6, <1>7 DEF CarryInv

LEMMA StutterKeeps == CarryInv /\ UNCHANGED vars => CarryInv'
  BY DEF vars, CarryInv, TypeOK, CopiesLinked, OneCopyPerMeeting, Fits

LEMMA NextKeeps == CarryInv /\ [Next]_vars => CarryInv'
<1> SUFFICES ASSUME CarryInv, Next PROVE CarryInv'
  BY StutterKeeps
<1>1. ASSUME NEW u \in Users, StartMeeting(u) \/ StartCreate(u) \/ StartCarry(u)
      PROVE  CarryInv'
  BY <1>1, StartMeetingKeeps, StartCreateKeeps, StartCarryKeeps
<1>2. ASSUME NEW u \in Users, Work(u)
      PROVE  CarryInv'
  BY <1>2, LookKeeps, ReadKeeps, CheckKeeps, ProbeKeeps, SaveKeeps, LinkKeeps,
     CommitKeeps, DropKeeps DEF Work, Victim
<1>3. ASSUME NEW u \in Users, Skip(u) \/ Rollback(u)
      PROVE  CarryInv'
  BY <1>3, PassKeeps, DropKeeps DEF Skip, Rollback
<1> QED
  BY <1>1, <1>2, <1>3, DeleteKeeps DEF Next

LEMMA CarryInvariant == Spec => []CarryInv
  BY Starts, NextKeeps, PTL DEF Spec

-----------------------------------------------------------------------------
(* The theorems.                                                            *)

\* No two action items share a reference, whatever is created, carried and
\* deleted at the same time (and every variable has its type).
THEOREM ReferencesUnique == Spec => []TypeOK
<1>1. CarryInv => TypeOK
  BY DEF CarryInv
<1> QED
  BY <1>1, CarryInvariant, PTL

\* The number that generate_action_reference has probed stays free for the
\* request: its row is neither refused nor kept waiting.
THEOREM ProbeReservesAlways == Spec => []ProbeReserves
<1>1. CarryInv => ProbeReserves
  <2> SUFFICES ASSUME CarryInv, NEW u \in Users, req[u].pc = "probed"
               PROVE  req[u].number \notin Committed(u) /\ Free(u)
    BY DEF ProbeReserves
  <2>1. req[u].number \in req[u].held /\ Fits(req[u])
    BY DEF CarryInv, Local
  <2>2. req[u].number \notin Committed(u)
    BY <2>1 DEF Fits, Committed
  <2>3. ASSUME NEW v \in Users, WaitsFor(u, v)
        PROVE  FALSE
    <3>1. v # u /\ SameTable(u, v) /\ req[u].number \in req[v].held
      BY <2>3 DEF WaitsFor, WaitsByNumber, WaitsByLink
    <3>2. req[u].held \cap req[v].held = {}
      BY <3>1 DEF CarryInv, Apart, SameTable
    <3> QED
      BY <2>1, <3>1, <3>2
  <2> QED
    BY <2>2, <2>3 DEF Free
<1> QED
  BY <1>1, CarryInvariant, PTL

\* Two requests that wait for each other's numbers alone never block each
\* other: each number a request waits for is above those it holds.
THEOREM CirclesNeedLinksAlways == Spec => []CirclesNeedLinks
<1>1. CarryInv => CirclesNeedLinks
  <2> SUFFICES ASSUME CarryInv, NEW u \in Users, NEW v \in Users,
                      WaitsByNumber(u, v), WaitsByNumber(v, u)
               PROVE  FALSE
    BY DEF CirclesNeedLinks, WaitsFor, WaitsByLink
  <2>1. /\ u # v /\ SameTable(u, v)
        /\ req[u].number \in req[v].held /\ req[v].number \in req[u].held
    BY DEF WaitsByNumber
  <2>2. req[u].held \cap req[v].held = {}
    BY <2>1 DEF CarryInv, Apart, SameTable
  <2>3. ASSUME NEW w \in Users, req[w].pc \in {"probe", "probed", "save"}
        PROVE  \A n \in req[w].held : n <= req[w].number /\ n \in Nat /\ req[w].number \in Nat
    <3>1. /\ \A i \in req[w].made : i.ref < req[w].number /\ i.ref \in Nat
          /\ req[w].number \in Nat
      BY <2>3 DEF CarryInv, TypeOK, Requests, Items, Local
    <3>2. req[w].held \subseteq NumbersOf(req[w].made) \cup {req[w].number}
      BY DEF CarryInv, Local
    <3> QED
      BY <3>1, <3>2 DEF NumbersOf
  <2>4. req[u].number = req[v].number
    BY <2>1, <2>3 DEF WaitsByNumber
  <2> QED
    BY <2>1, <2>2, <2>4
<1> QED
  BY <1>1, CarryInvariant, PTL

\* A committed copy has exactly one link, from its source, and every link its copy.
THEOREM CopiesLinkedAlways == Spec => []CopiesLinked
<1>1. CarryInv => CopiesLinked
  BY DEF CarryInv
<1> QED
  BY <1>1, CarryInvariant, PTL

\* No item is carried twice into one meeting with the same flags.
THEOREM OneCopyPerMeetingAlways == Spec => []OneCopyPerMeeting
<1>1. CarryInv => OneCopyPerMeeting
  BY DEF CarryInv
<1> QED
  BY <1>1, CarryInvariant, PTL

\* The links tell what was copied from what, once per meeting and flags.
THEOREM CopiesMatchLinksAlways == Spec => []CopiesMatchLinks
<1>1. CopiesLinked /\ OneCopyPerMeeting => CopiesMatchLinks
  BY DEF CopiesMatchLinks
<1> QED
  BY <1>1, CopiesLinkedAlways, OneCopyPerMeetingAlways, PTL

-----------------------------------------------------------------------------
(* Requests as single steps.  What CarryInv says of a request leaves open   *)
(* which form its batch came from and in which order it is worked off.      *)

\* The batch is what the form selected, in the order of its ranks: the rows made
\* so far come from sources not after those to come, numbered in that order.
Follows(r, form) ==
    /\ r.target = form.target /\ r.scope = form.finished
    /\ \A l \in r.tied : l.target = form.target /\ l.scope = form.finished
    /\ \A i \in r.made : i.from \in Selected(form)
    /\ \A k \in DOMAIN r.todo : r.todo[k] \in Selected(form)
    /\ \A j, k \in DOMAIN r.todo : j < k => form.rank[r.todo[j]] <= form.rank[r.todo[k]]
    /\ \A i \in r.made, k \in DOMAIN r.todo : form.rank[i.from] <= form.rank[r.todo[k]]
    /\ \A i, j \in r.made : form.rank[i.from] < form.rank[j.from] => i.ref < j.ref

BatchWell(r) ==
    /\ r.kind = "carry" => \E form \in Forms : Follows(r, form)
    /\ r.kind # "carry" => IF r.pc = "done" THEN \E row \in Items : r.made = {row}
                           ELSE r.made = {}

BatchInv == \A u \in Users : BatchWell(req[u])

LEMMA NoRequestBatch == BatchWell(NoRequest)
  BY DEF NoRequest, BatchWell

\* The step of one request concerns nobody else.
LEMMA BatchStep ==
    ASSUME CarryInv, BatchInv, NEW u \in Users, NEW r, BatchWell(r), Step(u, r)
    PROVE  BatchInv'
  BY DEF CarryInv, TypeOK, BatchInv, Step

\* A request that moves on without writing a row.
LEMMA BatchMove ==
    ASSUME NEW q, NEW r, BatchWell(q), q.pc # "done", r.pc # "done",
           r.kind = q.kind, r.target = q.target, r.scope = q.scope,
           r.todo = q.todo, r.made = q.made, r.tied = q.tied
    PROVE  BatchWell(r)
<1>1. \A form \in Forms : Follows(q, form) => Follows(r, form)
  BY DEF Follows
<1> QED
  BY <1>1 DEF BatchWell

\* Dropping the first of the sources to come.
LEMMA BatchOnward ==
    ASSUME NEW r \in Requests, r.kind = "carry", r.todo # <<>>, BatchWell(r)
    PROVE  BatchWell(Onward(r))
<1>1. /\ Onward(r).todo = Tail(r.todo) /\ Onward(r).kind = r.kind
      /\ Onward(r).target = r.target /\ Onward(r).scope = r.scope
      /\ Onward(r).made = r.made /\ Onward(r).tied = r.tied
  BY DEF Onward, Requests
<1>2. PICK form \in Forms : Follows(r, form)
  BY DEF BatchWell
<1>3. /\ Len(r.todo) \in Nat /\ DOMAIN r.todo = 1..Len(r.todo)
      /\ DOMAIN Tail(r.todo) = 1..(Len(r.todo) - 1)
      /\ \A k \in DOMAIN Tail(r.todo) : Tail(r.todo)[k] = r.todo[k + 1]
  BY DEF Requests
<1>4. \A k \in DOMAIN Tail(r.todo) : k + 1 \in DOMAIN r.todo
  BY <1>3
<1>5. \A k \in DOMAIN Tail(r.todo) : Tail(r.todo)[k] \in Selected(form)
  BY <1>2, <1>3, <1>4 DEF Follows
<1>6. ASSUME NEW j \in DOMAIN Tail(r.todo), NEW k \in DOMAIN Tail(r.todo), j < k
      PROVE  form.rank[Tail(r.todo)[j]] <= form.rank[Tail(r.todo)[k]]
  <2>1. j + 1 < k + 1 /\ j + 1 \in DOMAIN r.todo /\ k + 1 \in DOMAIN r.todo
    BY <1>3, <1>4, <1>6
  <2>2. form.rank[r.todo[j + 1]] <= form.rank[r.todo[k + 1]]
    BY <1>2, <2>1 DEF Follows
  <2> QED
    BY <1>3, <2>2
<1>7. \A i \in r.made, k \in DOMAIN Tail(r.todo) : form.rank[i.from] <= form.rank[Tail(r.todo)[k]]
  BY <1>2, <1>3, <1>4 DEF Follows
<1> PICK t : t = Tail(r.todo)
  OBVIOUS
<1>8. Follows(Onward(r), form)
  BY <1>1, <1>2, <1>5, <1>6, <1>7 DEF Follows
<1> QED
  BY <1>1, <1>8 DEF BatchWell

LEMMA DropBatch ==
    ASSUME CarryInv, BatchInv, NEW u \in Users, Drop(u)
    PROVE  BatchInv'
  BY NoRequestBatch, BatchStep DEF Drop

LEMMA AgainBatch ==
    ASSUME CarryInv, BatchInv, NEW u \in Users, Again(u), req[u].pc # "done"
    PROVE  BatchInv'
<1>1. CASE req[u].attempt < Attempts
  <2> DEFINE r == [req[u] EXCEPT !.pc = "read", !.attempt = @ + 1]
  <2>1. req[u] \in Requests /\ BatchWell(req[u]) /\ Step(u, r)
    BY <1>1 DEF CarryInv, TypeOK, BatchInv, Again
  <2>2. /\ r.pc = "read" /\ r.kind = req[u].kind /\ r.todo = req[u].todo
        /\ r.target = req[u].target /\ r.scope = req[u].scope
        /\ r.made = req[u].made /\ r.tied = req[u].tied
    BY <2>1 DEF Requests
  <2>3. BatchWell(r)
    BY <2>1, <2>2, BatchMove
  <2> QED
    BY <2>1, <2>3, BatchStep
<1>2. CASE ~ (req[u].attempt < Attempts)
  BY <1>2, DropBatch DEF Again
<1> QED
  BY <1>1, <1>2

LEMMA StartsBatch ==
    ASSUME CarryInv, BatchInv, NEW u \in Users,
           StartMeeting(u) \/ StartCreate(u) \/ StartCarry(u)
    PROVE  BatchInv'
<1>1. CASE StartMeeting(u)
  <2> DEFINE r == [NoRequest EXCEPT !.pc = "read", !.kind = "meeting"]
  <2>1. BatchWell(r)
    BY DEF NoRequest, BatchWell
  <2> QED
    BY <1>1, <2>1, BatchStep DEF StartMeeting
<1>2. CASE StartCreate(u)
  <2> DEFINE r == [NoRequest EXCEPT !.pc = "read", !.kind = "create"]
  <2>1. BatchWell(r)
    BY DEF NoRequest, BatchWell
  <2> QED
    BY <1>2, <2>1, BatchStep DEF StartCreate
<1>3. CASE StartCarry(u)
  <2> PICK form \in Forms : \E todo \in Batches(form) :
           Step(u, [NoRequest EXCEPT
                         !.pc = IF todo = <<>> THEN "done" ELSE "look",
                         !.kind = "carry", !.todo = todo,
                         !.target = form.target, !.scope = form.finished])
    BY <1>3 DEF StartCarry
  <2>1. PICK todo \in Batches(form) :
           Step(u, [NoRequest EXCEPT
                         !.pc = IF todo = <<>> THEN "done" ELSE "look",
                         !.kind = "carry", !.todo = todo,
                         !.target = form.target, !.scope = form.finished])
    OBVIOUS
  <2> DEFINE r == [NoRequest EXCEPT
                        !.pc = IF todo = <<>> THEN "done" ELSE "look",
                        !.kind = "carry", !.todo = todo,
                        !.target = form.target, !.scope = form.finished]
  <2>2. /\ r.kind = "carry" /\ r.todo = todo /\ r.target = form.target
        /\ r.scope = form.finished /\ r.made = {} /\ r.tied = {}
    BY DEF NoRequest
  <2>3. /\ \A k \in DOMAIN todo : todo[k] \in Selected(form)
        /\ \A j, k \in DOMAIN todo : j < k => form.rank[todo[j]] <= form.rank[todo[k]]
    BY BatchesTyped
  <2> HIDE DEF r
  <2>4. Follows(r, form)
    BY <2>2, <2>3 DEF Follows
  <2>5. BatchWell(r)
    BY <2>2, <2>4 DEF BatchWell
  <2>6. Step(u, r)
    BY <2>1 DEF r
  <2> QED
    BY <2>5, <2>6, BatchStep
<1> QED
  BY <1>1, <1>2, <1>3

LEMMA PassBatch ==
    ASSUME CarryInv, BatchInv, NEW u \in Users, req[u].pc = "look", Step(u, Onward(req[u]))
    PROVE  BatchInv'
<1>1. req[u] \in Requests /\ Local(req[u]) /\ BatchWell(req[u])
  BY DEF CarryInv, TypeOK, BatchInv
<1>2. req[u].kind = "carry" /\ req[u].todo # <<>>
  BY <1>1 DEF Local, CopiesTied
<1> QED
  BY <1>1, <1>2, BatchOnward, BatchStep

\* A request that only reads.
LEMMA ReadingBatch ==
    ASSUME CarryInv, BatchInv, NEW u \in Users,
           Look(u) \/ Read(u) \/ Check(u) \/ Probe(u)
    PROVE  BatchInv'
<1> DEFINE q == req[u]
<1>1. q \in Requests /\ BatchWell(q)
  BY DEF CarryInv, TypeOK, BatchInv
<1>2. CASE Look(u)
  <2>1. CASE \E l \in links \cup q.tied : KeyOf(l) = Key(u)
    BY <1>2, <2>1, PassBatch DEF Look
  <2>2. CASE ~ \E l \in links \cup q.tied : KeyOf(l) = Key(u)
    <3> DEFINE r == [q EXCEPT !.pc = "read"]
    <3>1. Step(u, r) /\ q.pc = "look"
      BY <1>2, <2>2 DEF Look
    <3>2. /\ r.pc = "read" /\ r.kind = q.kind /\ r.todo = q.todo /\ r.target = q.target
          /\ r.scope = q.scope /\ r.made = q.made /\ r.tied = q.tied
      BY <1>1 DEF Requests
    <3>3. BatchWell(r)
      BY <1>1, <3>1, <3>2, BatchMove
    <3> QED
      BY <3>1, <3>3, BatchStep
  <2> QED
    BY <2>1, <2>2
<1>3. CASE Read(u)
  <2> DEFINE r == [q EXCEPT !.pc = "check", !.number = NextNumber(u)]
  <2>1. Step(u, r) /\ q.pc = "read"
    BY <1>3 DEF Read
  <2>2. /\ r.pc = "check" /\ r.kind = q.kind /\ r.todo = q.todo /\ r.target = q.target
        /\ r.scope = q.scope /\ r.made = q.made /\ r.tied = q.tied
    BY <1>1 DEF Requests
  <2>3. BatchWell(r)
    BY <1>1, <2>1, <2>2, BatchMove
  <2> QED
    BY <2>1, <2>3, BatchStep
<1>4. CASE Check(u)
  <2>1. CASE q.kind = "meeting" /\ q.number \in Committed(u)
    BY <1>4, <2>1, AgainBatch DEF Check
  <2>2. CASE ~ (q.kind = "meeting" /\ q.number \in Committed(u))
    <3> DEFINE p == IF q.kind = "meeting" \/ q.number \in Committed(u) THEN "save" ELSE "probe"
               r == [q EXCEPT !.pc = p]
    <3>1. Step(u, r) /\ q.pc = "check"
      BY <1>4, <2>2 DEF Check
    <3>2. p \in {"save", "probe"}
      OBVIOUS
    <3> HIDE DEF p
    <3>3. /\ r.pc = p /\ r.kind = q.kind /\ r.todo = q.todo /\ r.target = q.target
          /\ r.scope = q.scope /\ r.made = q.made /\ r.tied = q.tied
      BY <1>1 DEF Requests
    <3>4. BatchWell(r)
      BY <1>1, <3>1, <3>2, <3>3, BatchMove
    <3> QED
      BY <3>1, <3>4, BatchStep
  <2> QED
    BY <2>1, <2>2
<1>5. CASE Probe(u)
  <2>1. CASE q.number \in Committed(u)
    BY <1>5, <2>1, AgainBatch DEF Probe
  <2>2. CASE q.number \notin Committed(u)
    <3> DEFINE r == [q EXCEPT !.pc = "probed", !.held = @ \cup {q.number}]
    <3>1. Step(u, r) /\ q.pc = "probe"
      BY <1>5, <2>2 DEF Probe
    <3>2. /\ r.pc = "probed" /\ r.kind = q.kind /\ r.todo = q.todo /\ r.target = q.target
          /\ r.scope = q.scope /\ r.made = q.made /\ r.tied = q.tied
      BY <1>1 DEF Requests
    <3>3. BatchWell(r)
      BY <1>1, <3>1, <3>2, BatchMove
    <3> QED
      BY <3>1, <3>3, BatchStep
  <2> QED
    BY <2>1, <2>2
<1> QED
  BY <1>2, <1>3, <1>4, <1>5

\* The row of the next source has the largest number of the batch.
LEMMA SaveBatch ==
    ASSUME CarryInv, BatchInv, NEW u \in Users, Save(u)
    PROVE  BatchInv'
<1>1. CASE req[u].number \in Committed(u)
  BY <1>1, DropBatch DEF Save
<1>2. CASE req[u].number \notin Committed(u)
  <2> DEFINE q == req[u]
             p == IF q.kind = "carry" THEN "link" ELSE "done"
             row == [ref |-> q.number, from |-> IF q.kind = "carry" THEN Head(q.todo) ELSE None]
             r == [q EXCEPT !.pc = p, !.held = @ \cup {q.number}, !.made = @ \cup {row}]
  <2>1. q \in Requests /\ Local(q) /\ BatchWell(q) /\ q.pc \in {"probed", "save"} /\ Step(u, r)
    BY <1>2 DEF CarryInv, TypeOK, BatchInv, Save
  <2>2. q.kind = "carry" => q.todo # <<>> /\ Head(q.todo) \in Sources
    BY <2>1 DEF Local, CopiesTied, Requests
  <2>3. row \in Items
    BY <2>1, <2>2, NoneIsNoSource DEF Items, Requests
  <2>4. /\ r.pc = p /\ r.kind = q.kind /\ r.todo = q.todo /\ r.target = q.target
        /\ r.scope = q.scope /\ r.made = q.made \cup {row} /\ r.tied = q.tied
    BY <2>1 DEF Requests
  <2>5. /\ q.kind = "carry" => row.from = Head(q.todo)
        /\ q.kind # "carry" => p = "done"
    OBVIOUS
  <2>6. \A i \in q.made : i.ref < row.ref /\ i.ref \in Nat
    BY <2>1 DEF Local, Requests, Items
  <2>7. row.ref \in Nat
    BY <2>3 DEF Items
  <2> HIDE DEF p, row, r
  <2>8. CASE q.kind # "carry"
    <3>1. q.made = {}
      BY <2>1, <2>8 DEF BatchWell
    <3>2. BatchWell(r)
      BY <2>3, <2>4, <2>5, <2>8, <3>1 DEF BatchWell
    <3> QED
      BY <2>1, <3>2, BatchStep
  <2>9. CASE q.kind = "carry"
    <3> PICK form \in Forms : Follows(q, form)
      BY <2>1, <2>9 DEF BatchWell
    <3>1. q.todo \in Seq(Sources) /\ q.todo # <<>>
      BY <2>1, <2>2, <2>9 DEF Requests
    <3>2. 1 \in DOMAIN q.todo /\ Head(q.todo) = q.todo[1] /\ DOMAIN q.todo \subseteq Nat
      <4>1. Len(q.todo) \in Nat /\ Len(q.todo) # 0 /\ DOMAIN q.todo = 1..Len(q.todo)
        BY <3>1, EmptySeq
      <4> QED
        BY <3>1, <4>1
    <3>3. row.from = q.todo[1] /\ row.from \in Selected(form)
      BY <2>5, <2>9, <3>2 DEF Follows
    <3>4. \A s \in Selected(form) : form.rank[s] \in Nat
      BY FormsAssumption DEF Selected
    <3>5. \A k \in DOMAIN q.todo : form.rank[row.from] <= form.rank[q.todo[k]]
      <4> SUFFICES ASSUME NEW k \in DOMAIN q.todo PROVE form.rank[row.from] <= form.rank[q.todo[k]]
        OBVIOUS
      <4>1. CASE k = 1
        BY <3>3, <3>4, <4>1
      <4>2. CASE k # 1
        <5>1. 1 < k
          BY <3>1, <4>2
        <5> QED
          BY <3>2, <3>3, <5>1 DEF Follows
      <4> QED
        BY <4>1, <4>2
    <3>6. \A i \in q.made : form.rank[i.from] <= form.rank[row.from]
      BY <3>2, <3>3 DEF Follows
    <3>7. \A i \in q.made : i.from \in Selected(form) /\ form.rank[i.from] \in Nat
      BY <3>4 DEF Follows
    <3>8. \A i \in r.made : i.from \in Selected(form)
      BY <2>4, <3>3, <3>7
    <3>9. \A i \in r.made, k \in DOMAIN q.todo : form.rank[i.from] <= form.rank[q.todo[k]]
      BY <2>4, <3>5 DEF Follows
    <3>10. ASSUME NEW i \in r.made, NEW j \in r.made, form.rank[i.from] < form.rank[j.from]
           PROVE  i.ref < j.ref
      <4>1. CASE i \in q.made /\ j \in q.made
        BY <3>10, <4>1 DEF Follows
      <4>2. CASE i \in q.made /\ j = row
        BY <2>6, <4>2
      <4>3. CASE i = row
        <5>1. form.rank[row.from] \in Nat
          BY <3>3, <3>4
        <5>2. form.rank[j.from] <= form.rank[row.from] /\ form.rank[j.from] \in Nat
          BY <2>4, <3>6, <3>7, <5>1
        <5> QED
          BY <3>10, <4>3, <5>1, <5>2
      <4> QED
        BY <2>4, <4>1, <4>2, <4>3
    <3>11. Follows(r, form)
      BY <2>4, <3>8, <3>9, <3>10 DEF Follows
    <3>12. BatchWell(r)
      BY <2>4, <2>9, <3>11 DEF BatchWell
    <3> QED
      BY <2>1, <3>12, BatchStep
  <2> QED
    BY <2>8, <2>9
<1> QED
  BY <1>1, <1>2

LEMMA LinkBatch ==
    ASSUME CarryInv, BatchInv, NEW u \in Users, Link(u)
    PROVE  BatchInv'
<1>1. CASE Taken(u)
  BY <1>1, DropBatch DEF Link
<1>2. CASE ~ Taken(u)
  <2> DEFINE q == req[u]
             tie == [source |-> Head(q.todo), target |-> q.target,
                     scope |-> q.scope, new |-> q.number]
             t == [q EXCEPT !.tied = @ \cup {tie}]
  <2>1. q \in Requests /\ Local(q) /\ BatchWell(q) /\ q.pc = "link" /\ Step(u, Onward(t))
    BY <1>2 DEF CarryInv, TypeOK, BatchInv, Link
  <2>2. q.kind = "carry" /\ q.todo # <<>> /\ Head(q.todo) \in Sources
    BY <2>1 DEF Local, CopiesTied, Requests
  <2>3. tie \in Links /\ tie.target = q.target /\ tie.scope = q.scope
    BY <2>1, <2>2 DEF Links, Requests
  <2>4. /\ t \in Requests
        /\ t.kind = "carry" /\ t.todo = q.todo /\ t.target = q.target /\ t.scope = q.scope
        /\ t.made = q.made /\ t.tied = q.tied \cup {tie}
    BY <2>1, <2>2, <2>3 DEF Requests
  <2> HIDE DEF tie, t
  <2> PICK form \in Forms : Follows(q, form)
    BY <2>1, <2>2 DEF BatchWell
  <2>5. Follows(t, form)
    BY <2>3, <2>4 DEF Follows
  <2>6. BatchWell(t)
    BY <2>4, <2>5 DEF BatchWell
  <2>7. BatchWell(Onward(t))
    BY <2>2, <2>4, <2>6, BatchOnward
  <2> QED
    BY <2>1, <2>7, BatchStep
<1> QED
  BY <1>1, <1>2

LEMMA BatchNext == CarryInv /\ BatchInv /\ [Next]_vars => BatchInv'
<1> SUFFICES ASSUME CarryInv, BatchInv, [Next]_vars PROVE BatchInv'
  OBVIOUS
<1>1. CASE UNCHANGED vars
  BY <1>1 DEF vars, BatchInv
<1>2. ASSUME NEW u \in Users, StartMeeting(u) \/ StartCreate(u) \/ StartCarry(u)
      PROVE  BatchInv'
  BY <1>2, StartsBatch
<1>3. ASSUME NEW u \in Users, Work(u)
      PROVE  BatchInv'
  <2>1. CASE Commit(u)
    BY <2>1, NoRequestBatch, BatchStep DEF Commit
  <2> QED
    BY <1>3, <2>1, ReadingBatch, SaveBatch, LinkBatch, DropBatch DEF Work, Victim
<1>4. ASSUME NEW u \in Users, Skip(u) \/ Rollback(u)
      PROVE  BatchInv'
  BY <1>4, PassBatch, DropBatch DEF Skip, Rollback
<1>5. ASSUME NEW n \in Deletable, Delete(n)
      PROVE  BatchInv'
  BY <1>5 DEF Delete, BatchInv
<1> QED
  BY <1>1, <1>2, <1>3, <1>4, <1>5 DEF Next

LEMMA BatchInvariant == Spec => []BatchInv
<1>1. Init => BatchInv
  BY NoRequestBatch DEF Init, BatchInv
<1> QED
  BY <1>1, BatchNext, CarryInvariant, PTL DEF Spec

\* The batch of a request that commits, seen as one step of the ledger.
LEMMA BatchIsCarry ==
    ASSUME CarryInv, BatchInv, NEW u \in Users, Commit(u), req[u].kind = "carry"
    PROVE  \E form \in Forms : Ledger!Carry(form)
<1> DEFINE q == req[u]
<1>1. /\ q \in Requests /\ Local(q) /\ Fits(q) /\ BatchWell(q) /\ q.pc = "done"
      /\ q.made \subseteq Items /\ q.tied \subseteq Links
  BY DEF CarryInv, TypeOK, BatchInv, Commit, Requests
<1>2. /\ items' = items \cup q.made /\ links' = links \cup q.tied /\ UNCHANGED meetings
      /\ items \subseteq Items
  BY DEF Commit, CarryInv, TypeOK
<1> PICK form \in Forms : Follows(q, form)
  BY <1>1 DEF BatchWell
<1> PICK made : made = q.made
  OBVIOUS
<1> PICK tied : tied = q.tied
  OBVIOUS
\* Every row has its link and every link its row.
<1>3. /\ \A l \in tied : [ref |-> l.new, from |-> l.source] \in made
      /\ \A k, l \in tied : KeyOf(k) = KeyOf(l) => k = l
      /\ \A i \in made : \E l \in tied : l.new = i.ref /\ l.source = i.from
  BY <1>1 DEF Local, CopiesTied
<1>4. \A l \in tied : l.target = form.target /\ l.scope = form.finished
  BY DEF Follows
\* So no source has two rows.
<1>5. \A i, j \in made : i.from = j.from => i = j
  <2> SUFFICES ASSUME NEW i \in made, NEW j \in made, i.from = j.from PROVE i = j
    OBVIOUS
  <2> PICK k \in tied : k.new = i.ref /\ k.source = i.from
    BY <1>3
  <2> PICK l \in tied : l.new = j.ref /\ l.source = j.from
    BY <1>3
  <2>1. KeyOf(k) = KeyOf(l)
    BY <1>4 DEF KeyOf
  <2>2. i.ref = j.ref
    BY <1>3, <2>1
  <2> QED
    BY <1>1, <2>2 DEF Local
<1> DEFINE S == {i.from : i \in made}
           number == [s \in S |-> (CHOOSE i \in made : i.from = s).ref]
<1>6. \A i \in made : i.from \in S /\ number[i.from] = i.ref
  <2> SUFFICES ASSUME NEW i \in made PROVE number[i.from] = i.ref
    OBVIOUS
  <2>1. (CHOOSE j \in made : j.from = i.from) = i
    BY <1>5
  <2> QED
    BY <2>1
<1>7. \A s \in S : \E i \in made : i.from = s /\ number[s] = i.ref
  BY <1>6
<1>8. DOMAIN number = S /\ number = [s \in S |-> number[s]]
  OBVIOUS
<1> HIDE DEF S, number
<1>9. ASSUME NEW s \in S
      PROVE  s \in Selected(form) /\ Ledger!Uncarried(form, s)
  <2> PICK i \in made : i.from = s
    BY <1>7
  <2> PICK k \in tied : k.source = s
    BY <1>3
  <2>1. \A l \in links : KeyOf(k) = KeyOf(l) => form.target = NoMeeting
    BY <1>1, <1>4 DEF Fits
  <2>2. KeyOf(k) = <<s, form.target, form.finished>>
    BY <1>4 DEF KeyOf
  <2>3. Ledger!Uncarried(form, s)
    BY <2>1, <2>2 DEF Ledger!Uncarried, KeyOf
  <2> QED
    BY <2>3 DEF Follows
<1>10. S \in SUBSET {s \in Ledger!Selected(form) : Ledger!Uncarried(form, s)}
  BY <1>9 DEF Selected, Ledger!Selected
<1>11. \A s \in S : number[s] \in Ledger!Fresh
  <2> SUFFICES ASSUME NEW s \in S PROVE number[s] \in Ledger!Fresh
    OBVIOUS
  <2> PICK i \in made : i.from = s /\ number[s] = i.ref
    BY <1>7
  <2>1. q.held = NumbersOf(made) /\ q.held \cap NumbersOf(items) = {}
    BY <1>1 DEF Local, Fits
  <2>2. number[s] \in NumbersOf(made)
    BY DEF NumbersOf
  <2>3. number[s] \in Ledger!NumbersOf(items')
    BY <1>2 DEF Ledger!NumbersOf
  <2>4. Ledger!NumbersOf(items) = NumbersOf(items)
    BY DEF Ledger!NumbersOf, NumbersOf
  <2> QED
    BY <2>1, <2>2, <2>3, <2>4 DEF Ledger!Fresh
<1>12. number \in [S -> Ledger!Fresh]
  BY <1>8, <1>11
<1>13. \A s, t \in S : number[s] = number[t] => s = t
  <2> SUFFICES ASSUME NEW s \in S, NEW t \in S, number[s] = number[t] PROVE s = t
    OBVIOUS
  <2> PICK i \in made : i.from = s /\ number[s] = i.ref
    BY <1>7
  <2> PICK j \in made : j.from = t /\ number[t] = j.ref
    BY <1>7
  <2> QED
    BY <1>1 DEF Local
<1>14. \A s, t \in S : form.rank[s] < form.rank[t] => number[s] < number[t]
  <2> SUFFICES ASSUME NEW s \in S, NEW t \in S, form.rank[s] < form.rank[t]
               PROVE  number[s] < number[t]
    OBVIOUS
  <2> PICK i \in made : i.from = s /\ number[s] = i.ref
    BY <1>7
  <2> PICK j \in made : j.from = t /\ number[t] = j.ref
    BY <1>7
  <2> QED
    BY DEF Follows
<1>15. made = {[ref |-> number[s], from |-> s] : s \in S}
  <2>1. \A i \in made : i = [ref |-> i.ref, from |-> i.from]
    BY <1>1 DEF Items
  <2>2. \A i \in made : i = [ref |-> number[i.from], from |-> i.from] /\ i.from \in S
    BY <1>6, <2>1
  <2>3. ASSUME NEW s \in S PROVE [ref |-> number[s], from |-> s] \in made
    BY <1>7, <2>1
  <2> QED
    BY <2>2, <2>3
<1>16. tied = {[source |-> s, target |-> form.target, scope |-> form.finished,
                new |-> number[s]] : s \in S}
  <2>1. \A l \in tied : l = [source |-> l.source, target |-> l.target,
                             scope |-> l.scope, new |-> l.new]
    BY <1>1 DEF Links
  <2>2. ASSUME NEW l \in tied PROVE l.source \in S /\ l.new = number[l.source]
    <3>1. [ref |-> l.new, from |-> l.source] \in made
      BY <1>3
    <3> PICK i : i = [ref |-> l.new, from |-> l.source]
      OBVIOUS
    <3>2. i \in made /\ i.from = l.source /\ i.ref = l.new
      BY <3>1
    <3> QED
      BY <1>6, <3>2
  <2>3. \A l \in tied : l = [source |-> l.source, target |-> form.target,
                             scope |-> form.finished, new |-> number[l.source]]
    BY <1>4, <2>1, <2>2
  <2>4. ASSUME NEW s \in S
        PROVE  [source |-> s, target |-> form.target, scope |-> form.finished,
                new |-> number[s]] \in tied
    <3> PICK i \in made : i.from = s
      BY <1>7
    <3> PICK l \in tied : l.source = s
      BY <1>3
    <3> QED
      BY <2>3
  <2> QED
    BY <2>2, <2>3, <2>4
<1>17. /\ items' = items \cup {[ref |-> number[s], from |-> s] : s \in S}
       /\ links' = links \cup {[source |-> s, target |-> form.target,
                                scope |-> form.finished, new |-> number[s]] : s \in S}
       /\ meetings' = meetings
  BY <1>2, <1>15, <1>16
<1>18. Ledger!Carry(form)
  BY <1>10, <1>12, <1>13, <1>14, <1>17 DEF Ledger!Carry
<1> QED
  BY <1>18

\* A single row, of an item or of a meeting.
LEMMA RowIsCreated ==
    ASSUME CarryInv, BatchInv, NEW u \in Users, Commit(u), req[u].kind # "carry"
    PROVE  Ledger!Create \/ Ledger!NewMeeting
<1> DEFINE q == req[u]
<1>1. /\ q \in Requests /\ Local(q) /\ Fits(q) /\ BatchWell(q) /\ q.pc = "done"
  BY DEF CarryInv, TypeOK, BatchInv, Commit
<1> PICK row \in Items : q.made = {row}
  BY <1>1 DEF BatchWell
<1>2. /\ q.tied = {} /\ row.from = None /\ q.held = {row.ref} /\ NumbersOf({row}) = {row.ref}
  BY <1>1 DEF Local, NumbersOf
<1>3. row = [ref |-> row.ref, from |-> 0]
  BY <1>2 DEF Items, None
<1>4. CASE q.kind = "meeting"
  <2>1. meetings' = meetings \cup {row.ref} /\ row.ref \notin meetings /\ UNCHANGED <<items, links>>
    BY <1>1, <1>2, <1>4 DEF Commit, Fits
  <2> QED
    BY <2>1 DEF Ledger!NewMeeting
<1>5. CASE q.kind # "meeting"
  <2>1. /\ items' = items \cup {row} /\ links' = links /\ meetings' = meetings
        /\ row.ref \notin NumbersOf(items)
    BY <1>1, <1>2, <1>5 DEF Commit, Fits
  <2>2. row.ref \in Ledger!Fresh
    BY <2>1 DEF Ledger!Fresh, Ledger!NumbersOf, NumbersOf
  <2>3. items' = items \cup {[ref |-> row.ref, from |-> 0]}
    BY <1>3, <2>1
  <2> QED
    BY <2>1, <2>2, <2>3 DEF Ledger!Create
<1> QED
  BY <1>4, <1>5

LEMMA LedgerStep ==
    CarryInv /\ BatchInv /\ [Next]_vars => [Ledger!Next]_(<<items, links, meetings>>)
<1> SUFFICES ASSUME CarryInv, BatchInv, [Next]_vars
             PROVE  Ledger!Next \/ UNCHANGED <<items, links, meetings>>
  OBVIOUS
<1>1. ASSUME NEW u \in Users, Commit(u) PROVE Ledger!Next
  BY <1>1, BatchIsCarry, RowIsCreated DEF Ledger!Next
<1>2. ASSUME NEW n \in Deletable, Delete(n) PROVE Ledger!Next
  BY <1>2 DEF Delete, Ledger!Delete, Ledger!Next
<1>3. ASSUME NEW u \in Users, Drop(u) \/ Again(u) PROVE UNCHANGED <<items, links, meetings>>
  BY <1>3 DEF Drop, Again
<1>4. ASSUME NEW u \in Users,
             \/ StartMeeting(u) \/ StartCreate(u) \/ StartCarry(u) \/ Look(u) \/ Read(u) \/ Skip(u)
             \/ Check(u) \/ Probe(u) \/ Save(u) \/ Link(u) \/ Victim(u) \/ Rollback(u)
      PROVE  UNCHANGED <<items, links, meetings>>
  BY <1>3, <1>4 DEF StartMeeting, StartCreate, StartCarry, Look, Read, Skip, Check, Probe, Save,
                    Link, Victim, Rollback
<1>5. CASE UNCHANGED vars
  BY <1>5 DEF vars
<1> QED
  BY <1>1, <1>2, <1>4, <1>5 DEF Next, Work

\* The requests implement the ledger: seen from the tables, an item, a meeting
\* or a whole batch with its links appears at once, under new numbers, from
\* sources the form selected and not yet carried there, in the form's order.
THEOREM RequestsImplementLedger == Spec => ImplementsLedger
<1>1. Init => Ledger!Init
  BY DEF Init, Ledger!Init, None
<1> QED
  BY <1>1, LedgerStep, CarryInvariant, BatchInvariant, PTL
  DEF Spec, ImplementsLedger, Ledger!Spec
=============================================================================
