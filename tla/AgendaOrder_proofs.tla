------------------------- MODULE AgendaOrder_proofs --------------------------
(* Theorems about AgendaOrder, for every set of users, typed orders, width  *)
(* of the column, batches and bound.                                        *)
EXTENDS AgendaOrder, TableFacts, TLAPS

\* A nonempty set of bounded naturals has a maximum.
LEMMA MaxInSet ==
    ASSUME NEW S, S \subseteq Nat, S # {}, NEW n \in Nat, \A x \in S : x <= n
    PROVE  Max(S) \in S
<1> DEFINE T == {k \in Nat : n - k \in S}
<1>1. \A w \in S : n - w \in T
  <2> TAKE w \in S
  <2>1. w \in Nat /\ w <= n
    OBVIOUS
  <2>2. n - w \in Nat /\ n - (n - w) = w
    BY <2>1
  <2>3. QED
    BY <2>2
<1>2. PICK y \in T : \A z \in T : <<z, y>> \notin OpToRel(<, Nat)
  BY <1>1, NatLessThanWellFounded, WFMin
<1>3. \A z \in T : ~ (z < y)
  BY <1>2 DEF OpToRel
<1>4. PICK x \in S : x = n - y
  OBVIOUS
<1>6. \A w \in S : x >= w
  <2> TAKE w \in S
  <2>1. ~ (n - w < y)
    BY <1>1, <1>3
  <2>2. w \in Nat /\ x \in Nat /\ y \in Nat
    OBVIOUS
  <2>3. QED
    BY <2>1, <2>2, <1>4
<1>7. QED
  BY <1>6 DEF Max

-----------------------------------------------------------------------------
(* What a request is about.                                                 *)

\* An edit names an item that was made; a reordering lists items once each,
\* and finds only listed ones and loads only those, nothing before it looks.
PostsMeant ==
    \A u \in Users :
        /\ pc[u] # "idle" /\ post[u].op = "update" =>
              Len(post[u].list) = 1 /\ post[u].list[1] \in 1..made
        /\ pc[u] # "idle" /\ post[u].op = "reorder" => IsInjective(post[u].list)
        /\ pc[u] \in {"idle", "composing"} => found[u] = {}
        /\ pc[u] # "posted" => loaded[u] = {}
        /\ found[u] \subseteq ToSet(post[u].list) /\ loaded[u] \subseteq found[u]

OrdersInv == TypeOK /\ PostsMeant

\* Writing rows that fit keeps the orders apart and inside the column.
LEMMA PutFitting ==
    ASSUME NEW rows, NEW new, Fits(rows, new), IsInjective(rows), IsInjective(new),
           \A i \in DOMAIN rows : rows[i] \in 0..MaxOrder
    PROVE  /\ IsInjective(Put(rows, new))
           /\ \A i \in DOMAIN Put(rows, new) : Put(rows, new)[i] \in 0..MaxOrder
           /\ DOMAIN Put(rows, new) = DOMAIN rows \cup DOMAIN new
  BY DEF Fits, Put, IsInjective

\* The order the code appends at is a natural number.
LEMMA NextOrderNat ==
    ASSUME TypeOK
    PROVE  NextOrder(agenda) \in Nat
<1>1. CASE DOMAIN agenda = {}
  <2>1. agenda = NoItems
    BY <1>1 DEF TypeOK, NoItems
  <2>2. QED
    BY <2>1 DEF NextOrder
<1>2. CASE DOMAIN agenda # {}
  <2>1. Range(agenda) \subseteq Nat /\ Range(agenda) # {} /\ \A x \in Range(agenda) : x <= MaxOrder
    BY <1>2, OrdersAssumption DEF TypeOK, Range
  <2>2. Max(Range(agenda)) \in Nat
    BY <2>1, MaxInSet, OrdersAssumption
  <2>3. agenda # NoItems
    BY <1>2 DEF NoItems
  <2>4. QED
    BY <2>2, <2>3 DEF NextOrder
<1>3. QED
  BY <1>1, <1>2

\* A permutation of the items is a list of items, each once.
LEMMA PermutationsList ==
    ASSUME TypeOK, NEW s \in SetToSeqs(DOMAIN agenda)
    PROVE  s \in Seq(Nat) /\ IsInjective(s)
<1>1. IsFiniteSet(DOMAIN agenda) /\ DOMAIN agenda \subseteq Nat
  <2>1. made \in Nat /\ DOMAIN agenda \subseteq 1..made
    BY DEF TypeOK
  <2>2. IsFiniteSet(1..made)
    BY <2>1, FS_Interval
  <2>3. QED
    BY <2>1, <2>2, FS_Subset
<1>2. Cardinality(DOMAIN agenda) \in Nat
  BY <1>1, FS_CardinalityType
<1>3. s \in [1..Cardinality(DOMAIN agenda) -> DOMAIN agenda]
  BY DEF SetToSeqs
<1>4. IsInjective(s)
  BY <1>3 DEF SetToSeqs, IsInjective
<1>5. s \in [1..Cardinality(DOMAIN agenda) -> Nat]
  BY <1>1, <1>3
<1>6. QED
  BY <1>2, <1>4, <1>5

-----------------------------------------------------------------------------
(* The invariant.                                                           *)

LEMMA Starts == Init => OrdersInv
<1> SUFFICES ASSUME Init PROVE OrdersInv
  OBVIOUS
<1>1. TypeOK
  <2>1. agenda \in [DOMAIN agenda -> 0..MaxOrder] /\ DOMAIN agenda = {} /\ IsInjective(agenda)
    BY DEF Init, NoItems, IsInjective
  <2>2. NoPost \in Posts
    BY DEF NoPost, Posts, Ops
  <2>3. QED
    BY <2>1, <2>2 DEF Init, TypeOK, Phases
<1>2. PostsMeant
  BY DEF Init, PostsMeant, ToSet, NoPost
<1>3. QED
  BY <1>1, <1>2 DEF OrdersInv

\* What the users keep in mind is well formed.
RequestsWell ==
    /\ pc \in [Users -> Phases]
    /\ post \in [Users -> Posts]
    /\ found \in [Users -> SUBSET (1..made)]
    /\ loaded \in [Users -> SUBSET (1..made)]
    /\ first \in [Users -> Nat]

\* The end of a request leaves the others alone.
LEMMA EndKeeps ==
    ASSUME OrdersInv, NEW u \in Users, End(u), made' \in Nat, made' >= made
    PROVE  RequestsWell' /\ PostsMeant'
<1>1. NoPost \in Posts /\ Len(NoPost.list) = 0
  BY DEF NoPost, Posts, Ops
<1>2. 1..made \subseteq 1..made'
  BY DEF OrdersInv, TypeOK
<1>3. RequestsWell'
  BY <1>1, <1>2 DEF RequestsWell, OrdersInv, TypeOK, End, Phases
<1>4. PostsMeant'
  <2> SUFFICES ASSUME NEW v \in Users
               PROVE  /\ pc'[v] # "idle" /\ post'[v].op = "update" =>
                            Len(post'[v].list) = 1 /\ post'[v].list[1] \in 1..made'
                      /\ pc'[v] # "idle" /\ post'[v].op = "reorder" => IsInjective(post'[v].list)
                      /\ pc'[v] \in {"idle", "composing"} => found'[v] = {}
                      /\ pc'[v] # "posted" => loaded'[v] = {}
                      /\ found'[v] \subseteq ToSet(post'[v].list) /\ loaded'[v] \subseteq found'[v]
    BY DEF PostsMeant
  <2>1. CASE v = u
    BY <2>1 DEF End, OrdersInv, TypeOK
  <2>2. CASE v # u
    <3>1. pc'[v] = pc[v] /\ post'[v] = post[v] /\ found'[v] = found[v] /\ loaded'[v] = loaded[v]
      BY <2>2 DEF End
    <3>2. QED
      BY <3>1, <1>2 DEF OrdersInv, PostsMeant
  <2>3. QED
    BY <2>1, <2>2
<1>5. QED
  BY <1>3, <1>4

\* The agenda and its orders.
AgendaWell ==
    /\ made \in Nat /\ DOMAIN agenda \subseteq 1..made
    /\ agenda \in [DOMAIN agenda -> 0..MaxOrder] /\ IsInjective(agenda)

\* Composing a request of a legal shape.
LEMMA ComposeKeeps ==
    ASSUME OrdersInv, NEW u \in Users, NEW op \in Ops, NEW list \in Seq(Nat), NEW n \in Nat,
           Compose(u, op, list, n), pc[u] = "idle", UNCHANGED <<agenda, made, found, loaded, first>>,
           op = "update" => Len(list) = 1 /\ list[1] \in 1..made,
           op = "reorder" => IsInjective(list)
    PROVE  OrdersInv'
<1>1. [op |-> op, list |-> list, n |-> n] \in Posts
  BY DEF Posts
<1>2. TypeOK'
  BY <1>1 DEF OrdersInv, TypeOK, Compose, Phases
<1>3. ASSUME NEW v \in Users
      PROVE  /\ pc'[v] # "idle" /\ post'[v].op = "update" =>
                   Len(post'[v].list) = 1 /\ post'[v].list[1] \in 1..made'
             /\ pc'[v] # "idle" /\ post'[v].op = "reorder" => IsInjective(post'[v].list)
             /\ pc'[v] \in {"idle", "composing"} => found'[v] = {}
             /\ pc'[v] # "posted" => loaded'[v] = {}
             /\ found'[v] \subseteq ToSet(post'[v].list) /\ loaded'[v] \subseteq found'[v]
  <2>1. CASE v = u
    BY <2>1 DEF OrdersInv, TypeOK, PostsMeant, Compose
  <2>2. CASE v # u
    BY <2>2 DEF OrdersInv, TypeOK, PostsMeant, Compose
  <2>3. QED
    BY <2>1, <2>2
<1>4. PostsMeant'
  BY <1>3 DEF PostsMeant
<1>5. QED
  BY <1>2, <1>4 DEF OrdersInv

\* What may be composed has a legal shape.
LEMMA OpenKeeps ==
    ASSUME OrdersInv, NEW u \in Users, Open(u)
    PROVE  OrdersInv'
<1> USE DEF Ops
<1>1. pc[u] = "idle" /\ UNCHANGED <<agenda, made, found, loaded, first>>
  BY DEF Open
<1>2. <<>> \in Seq(Nat) /\ 0 \in Nat
  OBVIOUS
<1>3. ASSUME NEW i \in DOMAIN agenda
      PROVE  <<i>> \in Seq(Nat) /\ Len(<<i>>) = 1 /\ <<i>>[1] \in 1..made /\ agenda[i] \in Nat
  BY OrdersAssumption DEF OrdersInv, TypeOK
<1>4. Typed \subseteq Nat /\ Batches \subseteq Nat
  BY OrdersAssumption, BoundsAssumption
<1>5. CASE \E n \in Typed \cup {NextOrder(agenda)} : Compose(u, "create", <<>>, n)
  BY <1>1, <1>2, <1>4, <1>5, NextOrderNat, ComposeKeeps DEF OrdersInv
<1>6. CASE \E k \in Batches : Compose(u, "carry", <<>>, k)
  BY <1>1, <1>2, <1>4, <1>6, ComposeKeeps
<1>7. CASE \E i \in DOMAIN agenda, n \in Nat : Compose(u, "update", <<i>>, n)
  BY <1>1, <1>3, <1>7, ComposeKeeps
<1>8. CASE \E i \in DOMAIN agenda : Compose(u, "delete", <<i>>, 0)
  BY <1>1, <1>2, <1>3, <1>8, ComposeKeeps
<1>9. CASE \E s \in SetToSeqs(DOMAIN agenda) : Compose(u, "reorder", s, 0)
  BY <1>1, <1>2, <1>9, PermutationsList, ComposeKeeps DEF OrdersInv
<1>10. QED
  <2>1. ASSUME NEW i \in DOMAIN agenda, NEW n \in Typed \cup {agenda[i]}
        PROVE  n \in Nat
    BY <1>3, <1>4
  <2>2. QED
    BY <1>5, <1>6, <1>7, <1>8, <1>9, <2>1 DEF Open

\* A request that looks finds items it is about.
LEMMA ReadKeeps ==
    ASSUME OrdersInv, NEW u \in Users, Read(u)
    PROVE  OrdersInv'
<1>1. NextOrder(agenda) \in Nat
  BY NextOrderNat DEF OrdersInv
<1>2. TypeOK'
  BY <1>1 DEF Read, OrdersInv, TypeOK, Phases
<1>3. ASSUME NEW v \in Users
      PROVE  /\ pc'[v] # "idle" /\ post'[v].op = "update" =>
                   Len(post'[v].list) = 1 /\ post'[v].list[1] \in 1..made'
             /\ pc'[v] # "idle" /\ post'[v].op = "reorder" => IsInjective(post'[v].list)
             /\ pc'[v] \in {"idle", "composing"} => found'[v] = {}
             /\ pc'[v] # "posted" => loaded'[v] = {}
             /\ found'[v] \subseteq ToSet(post'[v].list) /\ loaded'[v] \subseteq found'[v]
  <2>1. CASE v = u
    BY <2>1 DEF Read, OrdersInv, TypeOK, PostsMeant
  <2>2. CASE v # u
    BY <2>2 DEF Read, OrdersInv, TypeOK, PostsMeant
  <2>3. QED
    BY <2>1, <2>2
<1>4. PostsMeant'
  BY <1>3 DEF PostsMeant
<1>5. QED
  BY <1>2, <1>4 DEF OrdersInv

\* It loads what it found, less what was deleted meanwhile.
LEMMA LoadKeeps ==
    ASSUME OrdersInv, NEW u \in Users, Load(u)
    PROVE  OrdersInv'
<1>1. TypeOK'
  BY DEF Load, OrdersInv, TypeOK, Phases
<1>2. ASSUME NEW v \in Users
      PROVE  /\ pc'[v] # "idle" /\ post'[v].op = "update" =>
                   Len(post'[v].list) = 1 /\ post'[v].list[1] \in 1..made'
             /\ pc'[v] # "idle" /\ post'[v].op = "reorder" => IsInjective(post'[v].list)
             /\ pc'[v] \in {"idle", "composing"} => found'[v] = {}
             /\ pc'[v] # "posted" => loaded'[v] = {}
             /\ found'[v] \subseteq ToSet(post'[v].list) /\ loaded'[v] \subseteq found'[v]
  <2>1. CASE v = u
    BY <2>1 DEF Load, OrdersInv, TypeOK, PostsMeant
  <2>2. CASE v # u
    BY <2>2 DEF Load, OrdersInv, TypeOK, PostsMeant
  <2>3. QED
    BY <2>1, <2>2
<1>3. PostsMeant'
  BY <1>2 DEF PostsMeant
<1>4. QED
  BY <1>1, <1>3 DEF OrdersInv

\* The rows a request writes are the items it makes, or the one it edits, at
\* different orders.
LEMMA NewRowsApart ==
    ASSUME OrdersInv, NEW u \in Users, Ready(u), post[u].op \in {"create", "update", "carry"}
    PROVE  /\ IsInjective(NewRows(u))
           /\ DOMAIN NewRows(u) \subseteq
                 1..(IF post[u].op = "create" THEN made + 1
                     ELSE IF post[u].op = "carry" THEN made + post[u].n ELSE made)
<1>1. made \in Nat /\ post[u].n \in Nat /\ first[u] \in Nat
  BY DEF OrdersInv, TypeOK, Posts
<1>2. CASE post[u].op = "create"
  <2>1. NewRows(u) = [i \in {made + 1} |-> post[u].n]
    BY <1>2 DEF NewRows
  <2>2. QED
    BY <1>1, <1>2, <2>1 DEF IsInjective
<1>3. CASE post[u].op = "update"
  <2>1. NewRows(u) = [i \in {post[u].list[1]} |-> post[u].n]
    BY <1>3 DEF NewRows
  <2>2. post[u].list[1] \in 1..made
    BY <1>3 DEF OrdersInv, PostsMeant, Ready
  <2>3. QED
    BY <1>1, <1>3, <2>1, <2>2 DEF IsInjective
<1>4. CASE post[u].op = "carry"
  <2>1. NewRows(u) = [i \in made + 1..made + post[u].n |-> first[u] + i - made - 1]
    BY <1>4 DEF NewRows
  <2>2. QED
    BY <1>1, <1>4, <2>1 DEF IsInjective
<1>5. QED
  BY <1>2, <1>3, <1>4

\* Rows that fit keep the agenda well formed.
LEMMA PutKeeps ==
    ASSUME TypeOK, NEW m \in Nat, made <= m, NEW new, Fits(agenda, new), IsInjective(new),
           DOMAIN new \subseteq 1..m, agenda' = Put(agenda, new), made' = m
    PROVE  AgendaWell'
<1>1. /\ IsInjective(Put(agenda, new))
      /\ \A i \in DOMAIN Put(agenda, new) : Put(agenda, new)[i] \in 0..MaxOrder
      /\ DOMAIN Put(agenda, new) = DOMAIN agenda \cup DOMAIN new
  BY PutFitting DEF TypeOK
<1>2. DOMAIN agenda \cup DOMAIN new \subseteq 1..m
  BY DEF TypeOK
<1>3. agenda' \in [DOMAIN agenda' -> 0..MaxOrder]
  BY <1>1 DEF Put
<1>4. QED
  BY <1>1, <1>2, <1>3 DEF AgendaWell

LEMMA SaveKeeps ==
    ASSUME OrdersInv, NEW u \in Users, Save(u)
    PROVE  OrdersInv'
<1>1. made \in Nat /\ post[u].n \in Nat
  BY DEF OrdersInv, TypeOK, Posts
<1>2. made' \in Nat /\ made <= made' /\ DOMAIN NewRows(u) \subseteq 1..made' /\ IsInjective(NewRows(u))
  BY <1>1, NewRowsApart DEF Save
<1>3. AgendaWell'
  <2>1. PICK m : m = made'
    OBVIOUS
  <2>2. m \in Nat /\ made <= m /\ DOMAIN NewRows(u) \subseteq 1..m
    BY <1>2, <2>1
  <2>3. PICK new : new = NewRows(u)
    OBVIOUS
  <2>4. QED
    BY <1>2, <2>1, <2>2, <2>3, PutKeeps DEF Save, OrdersInv
<1>4. RequestsWell' /\ PostsMeant'
  BY <1>1, <1>2, EndKeeps DEF Save
<1>5. QED
  BY <1>3, <1>4 DEF AgendaWell, RequestsWell, OrdersInv, TypeOK

LEMMA DeleteKeeps ==
    ASSUME OrdersInv, NEW u \in Users, Delete(u)
    PROVE  OrdersInv'
<1>1. AgendaWell'
  BY DEF Delete, Restrict, OrdersInv, TypeOK, AgendaWell, IsInjective
<1>2. RequestsWell' /\ PostsMeant'
  BY EndKeeps DEF Delete, OrdersInv, TypeOK
<1>3. QED
  BY <1>1, <1>2 DEF AgendaWell, RequestsWell, OrdersInv, TypeOK

-----------------------------------------------------------------------------
(* Reordering.                                                              *)

\* The places are those of the posted list, each item at one of its own.
LEMMA PositionsRight ==
    ASSUME OrdersInv, NEW u \in Users, pc[u] = "posted", post[u].op = "reorder"
    PROVE  /\ DOMAIN Positions(u) = found[u]
           /\ \A i \in found[u] : Positions(u)[i] \in 0..Len(post[u].list) - 1
           /\ IsInjective(Positions(u))
           /\ \A k \in DOMAIN post[u].list :
                 post[u].list[k] \in found[u] => Positions(u)[post[u].list[k]] = k - 1
<1>1. PICK L : L = post[u].list
  OBVIOUS
<1>2. L \in Seq(Nat) /\ IsInjective(L) /\ found[u] \subseteq ToSet(L)
  BY <1>1 DEF OrdersInv, TypeOK, Posts, PostsMeant
<1>3. Positions(u) = [i \in found[u] |-> (CHOOSE k \in DOMAIN L : L[k] = i) - 1]
  BY <1>1 DEF Positions
<1>4. ASSUME NEW i \in found[u]
      PROVE  \E k \in 1..Len(L) : L[k] = i /\ Positions(u)[i] = k - 1
  <2>1. \E k \in DOMAIN L : L[k] = i
    BY <1>2 DEF ToSet
  <2> DEFINE k == CHOOSE x \in DOMAIN L : L[x] = i
  <2>2. k \in DOMAIN L /\ L[k] = i
    BY <2>1
  <2>3. Positions(u)[i] = k - 1
    BY <1>3
  <2>4. DOMAIN L = 1..Len(L)
    BY <1>2
  <2>5. QED
    BY <2>2, <2>3, <2>4
<1>5. \A i \in found[u] : Positions(u)[i] \in 0..Len(L) - 1
  BY <1>2, <1>4
<1>6. IsInjective(Positions(u))
  BY <1>2, <1>3, <1>4 DEF IsInjective
<1>7. \A k \in DOMAIN L : L[k] \in found[u] => Positions(u)[L[k]] = k - 1
  BY <1>2, <1>4 DEF IsInjective
<1>8. QED
  BY <1>1, <1>3, <1>5, <1>6, <1>7

LEMMA SafeOffsetInt ==
    ASSUME OrdersInv, NEW u \in Users
    PROVE  Cardinality(found[u]) \in Nat /\ SafeOffset(u) = MaxOrder - Cardinality(found[u])
<1>1. made \in Nat /\ found[u] \subseteq 1..made
  BY DEF OrdersInv, TypeOK
<1>2. IsFiniteSet(1..made)
  BY <1>1, FS_Interval
<1>3. QED
  BY <1>1, <1>2, FS_Subset, FS_CardinalityType DEF SafeOffset

\* Both phases give the items they move orders of their own.
LEMMA PhasesApart ==
    ASSUME OrdersInv, NEW u \in Users, pc[u] = "posted", post[u].op = "reorder"
    PROVE  /\ DOMAIN Parked(u) = loaded[u] \cap DOMAIN agenda
           /\ DOMAIN Placed(u) = loaded[u] \cap DOMAIN agenda
           /\ \A i \in loaded[u] \cap DOMAIN agenda :
                 Parked(u)[i] = SafeOffset(u) + Positions(u)[i] /\ Placed(u)[i] = Positions(u)[i]
           /\ IsInjective(Parked(u)) /\ IsInjective(Placed(u))
<1>1. \A i, j \in found[u] :
         Positions(u)[i] \in Int /\ (Positions(u)[i] = Positions(u)[j] => i = j)
  BY PositionsRight DEF IsInjective
<1>2. SafeOffset(u) \in Int
  BY SafeOffsetInt, OrdersAssumption
<1>3. loaded[u] \subseteq found[u]
  BY DEF OrdersInv, PostsMeant
<1>4. /\ Parked(u) = [i \in loaded[u] \cap DOMAIN agenda |-> SafeOffset(u) + Positions(u)[i]]
      /\ Placed(u) = [i \in loaded[u] \cap DOMAIN agenda |-> Positions(u)[i]]
  BY DEF Parked, Placed
<1>5. IsInjective(Parked(u))
  BY <1>1, <1>2, <1>3, <1>4 DEF IsInjective
<1>6. IsInjective(Placed(u))
  BY <1>1, <1>3, <1>4 DEF IsInjective
<1>7. QED
  BY <1>4, <1>5, <1>6

LEMMA ReorderKeeps ==
    ASSUME OrdersInv, NEW u \in Users, Reorder(u)
    PROVE  OrdersInv'
<1>1. pc[u] = "posted" /\ post[u].op = "reorder" /\ made' = made /\ made \in Nat
  BY DEF Reorder, OrdersInv, TypeOK
<1>2. PICK mid : mid = Put(agenda, Parked(u))
  OBVIOUS
<1>3. /\ IsInjective(mid) /\ DOMAIN mid = DOMAIN agenda
      /\ \A i \in DOMAIN mid : mid[i] \in 0..MaxOrder
  <2>1. PICK park : park = Parked(u)
    OBVIOUS
  <2>2. IsInjective(park) /\ DOMAIN park \subseteq DOMAIN agenda
    BY <1>1, <2>1, PhasesApart
  <2>3. Fits(agenda, park)
    BY <2>1 DEF Reorder, ReorderFits
  <2>4. IsInjective(agenda) /\ \A i \in DOMAIN agenda : agenda[i] \in 0..MaxOrder
    BY DEF OrdersInv, TypeOK
  <2>5. QED
    BY <1>2, <2>1, <2>2, <2>3, <2>4, PutFitting
<1>4. PICK new : new = Placed(u)
  OBVIOUS
<1>5. IsInjective(new) /\ DOMAIN new \subseteq DOMAIN agenda /\ Fits(mid, new)
  BY <1>1, <1>2, <1>4, PhasesApart DEF Reorder, ReorderFits
<1>6. /\ IsInjective(Put(mid, new)) /\ DOMAIN Put(mid, new) = DOMAIN agenda
      /\ \A i \in DOMAIN Put(mid, new) : Put(mid, new)[i] \in 0..MaxOrder
  BY <1>3, <1>5, PutFitting
<1>7. Put(agenda, new) = Put(mid, new)
  <2>1. \A i \in DOMAIN agenda : i \notin DOMAIN new => mid[i] = agenda[i]
    BY <1>1, <1>2, <1>4, PhasesApart DEF Put
  <2>2. QED
    BY <1>3, <1>5, <2>1 DEF Put
<1>8. AgendaWell'
  <2>1. agenda' = Put(mid, new)
    BY <1>4, <1>7 DEF Reorder
  <2>2. agenda' \in [DOMAIN agenda' -> 0..MaxOrder]
    BY <1>6, <2>1 DEF Put
  <2>3. QED
    BY <1>1, <1>6, <2>1, <2>2 DEF AgendaWell, OrdersInv, TypeOK
<1>9. RequestsWell' /\ PostsMeant'
  BY <1>1, EndKeeps DEF Reorder
<1>10. QED
  BY <1>8, <1>9 DEF AgendaWell, RequestsWell, OrdersInv, TypeOK

-----------------------------------------------------------------------------
LEMMA Steps == OrdersInv /\ [Next]_vars => OrdersInv'
<1> SUFFICES ASSUME OrdersInv, [Next]_vars PROVE OrdersInv'
  OBVIOUS
<1>1. ASSUME NEW u \in Users, Open(u) PROVE OrdersInv'
  BY <1>1, OpenKeeps
<1>2. ASSUME NEW u \in Users, Read(u) \/ Load(u) PROVE OrdersInv'
  BY <1>2, ReadKeeps, LoadKeeps
<1>3. ASSUME NEW u \in Users, Abandon(u) \/ Fail(u) PROVE OrdersInv'
  <2>1. End(u) /\ made' = made /\ agenda' = agenda /\ made \in Nat
    BY <1>3 DEF Abandon, Fail, OrdersInv, TypeOK
  <2>2. RequestsWell' /\ PostsMeant'
    BY <2>1, EndKeeps
  <2>3. QED
    BY <2>1, <2>2 DEF RequestsWell, OrdersInv, TypeOK
<1>4. ASSUME NEW u \in Users, Save(u) PROVE OrdersInv'
  BY <1>4, SaveKeeps
<1>5. ASSUME NEW u \in Users, Delete(u) PROVE OrdersInv'
  BY <1>5, DeleteKeeps
<1>6. ASSUME NEW u \in Users, Reorder(u) PROVE OrdersInv'
  BY <1>6, ReorderKeeps
<1>7. CASE UNCHANGED vars
  BY <1>7 DEF vars, OrdersInv, TypeOK, PostsMeant
<1>8. QED
  BY <1>1, <1>2, <1>3, <1>4, <1>5, <1>6, <1>7 DEF Next

LEMMA Invariance == Spec => []OrdersInv
  BY Starts, Steps, PTL DEF Spec

\* Type correctness: whatever is created, edited on stale copies, carried
\* forward and reordered, no two items ever share an order.
THEOREM TypeCorrect == Spec => []TypeOK
<1>1. OrdersInv => TypeOK
  BY DEF OrdersInv
<1>2. QED
  BY <1>1, Invariance, PTL

\* The two phases of a reordering of all the items never clash, for any
\* number of items, any gaps and any permutation.
THEOREM ReorderingFits == Spec => []ReorderAlwaysFits
<1>1. ASSUME OrdersInv, NEW u \in Users, pc[u] = "posted", post[u].op = "reorder", RoomToPark(u),
             DOMAIN agenda \subseteq loaded[u], Len(post[u].list) <= Cardinality(found[u]) + 1
      PROVE  ReorderFits(u)
  <2> DEFINE len == Len(post[u].list)
             base == SafeOffset(u)
  <2>1. len \in Nat /\ base \in Int /\ base + len - 1 <= MaxOrder /\ len <= base
    <3>1. post[u].list \in Seq(Nat)
      BY <1>1 DEF OrdersInv, TypeOK, Posts
    <3>2. QED
      BY <1>1, <3>1, SafeOffsetInt, OrdersAssumption DEF RoomToPark
  <2>2. loaded[u] \cap DOMAIN agenda = DOMAIN agenda
    BY <1>1
  <2>3. \A i \in DOMAIN agenda : Positions(u)[i] \in 0..len - 1
    <3>1. loaded[u] \subseteq found[u]
      BY <1>1 DEF OrdersInv, PostsMeant
    <3>2. QED
      BY <1>1, <3>1, PositionsRight
  <2>4. \A i \in DOMAIN agenda : agenda[i] \in 0..MaxOrder /\ agenda[i] < base
    BY <1>1, SafeOffsetInt DEF OrdersInv, TypeOK, RoomToPark
  <2>5. /\ DOMAIN Parked(u) = DOMAIN agenda /\ DOMAIN Placed(u) = DOMAIN agenda
        /\ \A i \in DOMAIN agenda :
              Parked(u)[i] = base + Positions(u)[i] /\ Placed(u)[i] = Positions(u)[i]
    BY <1>1, <2>2, PhasesApart
  <2>6. Fits(agenda, Parked(u))
    <3> HIDE DEF len, base
    <3> QED
      BY <2>1, <2>3, <2>4, <2>5, OrdersAssumption DEF Fits
  <2>7. Put(agenda, Parked(u)) = [i \in DOMAIN agenda |-> Parked(u)[i]]
    BY <2>5 DEF Put
  <2>8. Fits(Put(agenda, Parked(u)), Placed(u))
    <3> HIDE DEF len, base
    <3> QED
      BY <2>1, <2>3, <2>5, <2>7, OrdersAssumption DEF Fits
  <2>9. QED
    BY <2>6, <2>8 DEF ReorderFits
<1>2. OrdersInv => ReorderAlwaysFits
  BY <1>1 DEF ReorderAlwaysFits
<1>3. QED
  BY <1>2, Invariance, PTL

\* However stale the posted list, a reordering puts the items its request
\* loaded in the posted order and touches no other.
THEOREM ReorderingPlaces == Spec => ReorderedAsPosted
<1>1. ASSUME OrdersInv, [Next]_vars, NEW u \in Users, pc[u] = "posted", post[u].op = "reorder",
             pc'[u] = "idle", agenda' # agenda
      PROVE  Reorder(u)
  <2>1. ASSUME NEW v \in Users, Open(v) \/ Read(v) \/ Load(v) \/ Abandon(v) \/ Fail(v) PROVE FALSE
    BY <1>1, <2>1 DEF Open, Read, Load, Abandon, Fail
  <2>2. ASSUME NEW v \in Users, Save(v) \/ Delete(v) PROVE FALSE
    <3>1. v # u
      BY <1>1, <2>2 DEF Save, Delete
    <3>2. pc'[u] = pc[u]
      <4>1. End(v)
        BY <2>2 DEF Save, Delete
      <4>2. QED
        BY <1>1, <3>1, <4>1 DEF End, OrdersInv, TypeOK
    <3>3. QED
      BY <1>1, <3>2
  <2>3. ASSUME NEW v \in Users, v # u, Reorder(v) PROVE FALSE
    <3>1. pc'[u] = pc[u]
      BY <1>1, <2>3 DEF Reorder, End, OrdersInv, TypeOK
    <3>2. QED
      BY <1>1, <3>1
  <2>4. QED
    BY <1>1, <2>1, <2>2, <2>3 DEF Next, vars
<1>2. ASSUME OrdersInv, NEW u \in Users, Reorder(u)
      PROVE  /\ DOMAIN agenda' = DOMAIN agenda
             /\ \A j, k \in DOMAIN post[u].list :
                   j < k /\ {post[u].list[j], post[u].list[k]} \subseteq loaded[u] \cap DOMAIN agenda
                      => agenda'[post[u].list[j]] < agenda'[post[u].list[k]]
             /\ \A i \in DOMAIN agenda \ loaded[u] : agenda'[i] = agenda[i]
  <2>1. pc[u] = "posted" /\ post[u].op = "reorder" /\ agenda' = Put(agenda, Placed(u))
    BY <1>2 DEF Reorder
  <2>2. DOMAIN Placed(u) = loaded[u] \cap DOMAIN agenda
    BY <1>2, <2>1, PhasesApart
  <2>3. DOMAIN agenda' = DOMAIN agenda /\ \A i \in DOMAIN agenda \ loaded[u] : agenda'[i] = agenda[i]
    BY <2>1, <2>2 DEF Put
  <2>4. \A i \in loaded[u] \cap DOMAIN agenda : agenda'[i] = Positions(u)[i]
    BY <1>2, <2>1, <2>2, PhasesApart DEF Put
  <2>5. PICK L : L = post[u].list
    OBVIOUS
  <2>6. DOMAIN L \subseteq Int /\ \A k \in DOMAIN L : L[k] \in found[u] => Positions(u)[L[k]] = k - 1
    <3>1. L \in Seq(Nat)
      BY <1>2, <2>5 DEF OrdersInv, TypeOK, Posts
    <3>2. QED
      BY <1>2, <2>1, <2>5, <3>1, PositionsRight
  <2>7. \A j, k \in DOMAIN L :
           j < k /\ {L[j], L[k]} \subseteq loaded[u] \cap DOMAIN agenda => agenda'[L[j]] < agenda'[L[k]]
    <3>1. loaded[u] \subseteq found[u]
      BY <1>2 DEF OrdersInv, PostsMeant
    <3>2. QED
      BY <2>4, <2>6, <3>1
  <2>8. QED
    BY <2>3, <2>5, <2>7
<1>3. OrdersInv /\ [Next]_vars => [\A u \in Users :
          LET L == post[u].list
          IN  pc[u] = "posted" /\ post[u].op = "reorder" /\ pc'[u] = "idle" /\ agenda' # agenda =>
                /\ DOMAIN agenda' = DOMAIN agenda
                /\ \A j, k \in DOMAIN L :
                      j < k /\ {L[j], L[k]} \subseteq loaded[u] \cap DOMAIN agenda
                         => agenda'[L[j]] < agenda'[L[k]]
                /\ \A i \in DOMAIN agenda \ loaded[u] : agenda'[i] = agenda[i]]_vars
  BY <1>1, <1>2
<1>4. QED
  BY <1>3, Invariance, PTL DEF Spec, ReorderedAsPosted

-----------------------------------------------------------------------------
(* The list that the orders make.                                           *)

\* The items before item i, and the items in their order.
Below(rows, i) == {j \in DOMAIN rows : rows[j] < rows[i]}

ListOf(rows) ==
    [k \in 1..Cardinality(DOMAIN rows) |->
        CHOOSE i \in DOMAIN rows : Cardinality(Below(rows, i)) = k - 1]

Ordered(rows) ==
    /\ IsFiniteSet(DOMAIN rows) /\ IsInjective(rows)
    /\ \A i \in DOMAIN rows : rows[i] \in Nat

\* An item has fewer items before it than there are, and more than those that
\* stand before it have.
LEMMA BelowCounted ==
    ASSUME NEW rows, Ordered(rows), NEW i \in DOMAIN rows
    PROVE  /\ Cardinality(DOMAIN rows) \in Nat
           /\ Below(rows, i) \in SUBSET DOMAIN rows
           /\ Cardinality(Below(rows, i)) \in 0..Cardinality(DOMAIN rows) - 1
<1>1. Below(rows, i) \in SUBSET DOMAIN rows /\ i \notin Below(rows, i)
  BY DEF Below, Ordered
<1>2. IsFiniteSet(Below(rows, i)) /\ IsFiniteSet(DOMAIN rows)
      /\ Cardinality(Below(rows, i)) <= Cardinality(DOMAIN rows)
      /\ (Cardinality(DOMAIN rows) = Cardinality(Below(rows, i)) => DOMAIN rows = Below(rows, i))
  BY <1>1, FS_Subset DEF Ordered
<1>3. Cardinality(Below(rows, i)) \in Nat /\ Cardinality(DOMAIN rows) \in Nat
  BY <1>2, FS_CardinalityType
<1>4. Cardinality(DOMAIN rows) # Cardinality(Below(rows, i))
  BY <1>1, <1>2
<1> QED
  BY <1>1, <1>2, <1>3, <1>4

LEMMA BelowGrows ==
    ASSUME NEW rows, Ordered(rows), NEW i \in DOMAIN rows, NEW j \in DOMAIN rows, rows[i] < rows[j]
    PROVE  Cardinality(Below(rows, i)) < Cardinality(Below(rows, j))
<1>1. /\ Below(rows, i) \in SUBSET Below(rows, j)
      /\ i \in Below(rows, j) /\ i \notin Below(rows, i)
  BY DEF Below, Ordered
<1>2. IsFiniteSet(Below(rows, j))
  <2>1. Below(rows, j) \in SUBSET DOMAIN rows
    BY DEF Below
  <2> QED
    BY <2>1, FS_Subset DEF Ordered
<1>3. /\ IsFiniteSet(Below(rows, i)) /\ Cardinality(Below(rows, i)) <= Cardinality(Below(rows, j))
      /\ (Cardinality(Below(rows, j)) = Cardinality(Below(rows, i)) => Below(rows, j) = Below(rows, i))
  BY <1>1, <1>2, FS_Subset
<1>4. Cardinality(Below(rows, i)) \in Nat /\ Cardinality(Below(rows, j)) \in Nat
  BY <1>2, <1>3, FS_CardinalityType
<1>5. Cardinality(Below(rows, j)) # Cardinality(Below(rows, i))
  BY <1>1, <1>3
<1> QED
  BY <1>3, <1>4, <1>5

\* The place of an item is how many stand before it: no two have the same
\* place, and so every place is taken.
LEMMA Places ==
    ASSUME NEW rows, Ordered(rows)
    PROVE  /\ Cardinality(DOMAIN rows) \in Nat
           /\ ListOf(rows) \in Seq(DOMAIN rows) /\ Len(ListOf(rows)) = Cardinality(DOMAIN rows)
           /\ ToSet(ListOf(rows)) = DOMAIN rows
           /\ \A k \in 1..Len(ListOf(rows)) :
                 ListOf(rows)[k] \in DOMAIN rows /\ Cardinality(Below(rows, ListOf(rows)[k])) = k - 1
           /\ \A i \in DOMAIN rows : ListOf(rows)[Cardinality(Below(rows, i)) + 1] = i
<1>1. PICK D, n : D = DOMAIN rows /\ n = Cardinality(DOMAIN rows)
  OBVIOUS
<1>2. IsFiniteSet(D) /\ n \in Nat
  BY <1>1, FS_CardinalityType DEF Ordered
<1>3. PICK f : f = [i \in D |-> Cardinality(Below(rows, i)) + 1]
  OBVIOUS
<1>4. \A i \in D : Cardinality(Below(rows, i)) \in 0..n - 1
  BY <1>1, BelowCounted
<1>5. \A i, j \in D : rows[i] < rows[j] => Cardinality(Below(rows, i)) < Cardinality(Below(rows, j))
  BY <1>1, BelowGrows
<1>6. f \in [D -> 1..n] /\ \A i \in D : f[i] = Cardinality(Below(rows, i)) + 1
  BY <1>2, <1>3, <1>4
<1>7. \A i, j \in D : f[i] = f[j] => i = j
  <2> TAKE i, j \in D
  <2>1. rows[i] \in Nat /\ rows[j] \in Nat /\ (rows[i] = rows[j] => i = j)
    BY <1>1 DEF Ordered, IsInjective
  <2>2. Cardinality(Below(rows, i)) \in Nat /\ Cardinality(Below(rows, j)) \in Nat
    BY <1>2, <1>4
  <2> QED
    BY <1>5, <1>6, <2>1, <2>2
<1>8. f \in Injection(D, 1..n)
  BY <1>6, <1>7 DEF Injection, IsInjective
<1>9. f \in Surjection(D, 1..n)
  <2>1. IsFiniteSet(1..n) /\ Cardinality(1..n) = n
    BY <1>2, FS_Interval
  <2> QED
    BY <1>1, <1>8, <2>1, FS_Injection
<1>10. \A k \in 1..n : \E i \in D : Cardinality(Below(rows, i)) = k - 1
  <2> TAKE k \in 1..n
  <2>1. PICK i \in D : f[i] = k
    BY <1>9 DEF Surjection
  <2>2. Cardinality(Below(rows, i)) \in Nat
    BY <1>2, <1>4
  <2> QED
    BY <1>6, <2>1, <2>2
<1>11. PICK s : s = ListOf(rows)
  OBVIOUS
<1>12. s = [k \in 1..n |-> CHOOSE i \in D : Cardinality(Below(rows, i)) = k - 1]
  BY <1>1, <1>11 DEF ListOf
<1>13. \A k \in 1..n : s[k] \in D /\ Cardinality(Below(rows, s[k])) = k - 1
  BY <1>10, <1>12
<1>14. s \in [1..n -> D]
  BY <1>12, <1>13
<1>15. s \in Seq(D) /\ Len(s) = n /\ DOMAIN s = 1..n
  BY <1>2, <1>14
<1>16. \A i \in D : f[i] \in 1..n /\ s[f[i]] = i
  <2> TAKE i \in D
  <2>1. f[i] \in 1..n /\ s[f[i]] \in D
    BY <1>6, <1>13
  <2>2. f[s[f[i]]] = f[i]
    BY <1>2, <1>6, <1>13, <2>1
  <2> QED
    BY <1>7, <2>1, <2>2
<1>17. ToSet(s) = D
  BY <1>13, <1>15, <1>16 DEF ToSet
<1> QED
  BY <1>1, <1>2, <1>6, <1>11, <1>13, <1>15, <1>16, <1>17

\* A sequence without a block of it.
LEMMA WithoutBlock ==
    ASSUME NEW S, NEW s \in Seq(S), NEW t \in Seq(S), NEW k \in Nat, NEW at \in 0..Len(s),
           Len(t) = Len(s) + k,
           \A p \in 1..at : t[p] = s[p], \A p \in at + 1..Len(s) : t[p + k] = s[p]
    PROVE  SubSeq(t, 1, at) \o SubSeq(t, at + k + 1, Len(t)) = s
<1>1. Len(s) \in Nat /\ Len(t) \in Nat /\ \A p \in 1..Len(t) : t[p] \in S
  BY LenProperties
<1>2. PICK a, b : a = SubSeq(t, 1, at) /\ b = SubSeq(t, at + k + 1, Len(t))
  OBVIOUS
<1>3. a \in Seq(S) /\ Len(a) = at /\ \A p \in 1..at : a[p] = t[p]
  <2>1. \A p \in 1..at : t[p] \in S
    BY <1>1
  <2>2. /\ SubSeq(t, 1, at) \in Seq(S) /\ Len(SubSeq(t, 1, at)) = IF 1 <= at THEN at - 1 + 1 ELSE 0
        /\ \A p \in 1..at - 1 + 1 : SubSeq(t, 1, at)[p] = t[1 + p - 1]
    BY <1>1, <2>1, SubSeqProperties
  <2> QED
    BY <1>1, <1>2, <2>2
<1>4. b \in Seq(S) /\ Len(b) = Len(s) - at /\ \A p \in 1..Len(s) - at : b[p] = t[at + k + p]
  <2>1. PICK lo, hi : lo = at + k + 1 /\ hi = Len(t)
    OBVIOUS
  <2>2. lo \in Int /\ hi \in Int /\ \A p \in lo..hi : t[p] \in S
    BY <1>1, <2>1
  <2>3. /\ SubSeq(t, lo, hi) \in Seq(S) /\ Len(SubSeq(t, lo, hi)) = IF lo <= hi THEN hi - lo + 1 ELSE 0
        /\ \A p \in 1..hi - lo + 1 : SubSeq(t, lo, hi)[p] = t[lo + p - 1]
    BY <2>2, SubSeqProperties
  <2>4. hi - lo + 1 = Len(s) - at /\ (IF lo <= hi THEN hi - lo + 1 ELSE 0) = Len(s) - at
    BY <1>1, <2>1
  <2>5. \A p \in 1..Len(s) - at : lo + p - 1 = at + k + p
    BY <1>1, <2>1
  <2> QED
    BY <1>2, <2>1, <2>3, <2>4, <2>5
<1>5. /\ a \o b \in Seq(S) /\ Len(a \o b) = Len(a) + Len(b)
      /\ \A p \in 1..Len(a) + Len(b) : (a \o b)[p] = IF p <= Len(a) THEN a[p] ELSE b[p - Len(a)]
  BY <1>3, <1>4, ConcatProperties
<1>6. Len(a \o b) = Len(s) /\ \A p \in 1..Len(s) : (a \o b)[p] = s[p]
  <2>1. Len(a) + Len(b) = Len(s)
    BY <1>1, <1>3, <1>4
  <2>2. ASSUME NEW p \in 1..Len(s) PROVE (a \o b)[p] = s[p]
    <3>1. CASE p <= at
      BY <1>1, <1>3, <1>5, <2>1, <3>1
    <3>2. CASE p > at
      <4>1. p - at \in 1..Len(s) - at /\ p \in at + 1..Len(s) /\ at + k + (p - at) = p + k
        BY <1>1, <3>2
      <4> QED
        BY <1>1, <1>3, <1>4, <1>5, <2>1, <3>2, <4>1
    <3>3. p <= at \/ p > at
      BY <1>1
    <3> QED
      BY <3>1, <3>2, <3>3
  <2> QED
    BY <1>5, <2>1, <2>2
<1> QED
  BY <1>2, <1>5, <1>6, SeqEqual

\* Items whose orders lie together come into the list as one block.
Spliced(old, new, k) ==
    \E at \in 0..Len(old) :
        Len(new) = Len(old) + k /\ SubSeq(new, 1, at) \o SubSeq(new, at + k + 1, Len(new)) = old

LEMMA BlockSpliced ==
    ASSUME NEW small, NEW big, Ordered(small), Ordered(big),
           NEW N, N # {}, N \cap DOMAIN small = {}, DOMAIN big = DOMAIN small \cup N,
           \A i \in DOMAIN small : big[i] = small[i],
           \A i \in DOMAIN small :
              (\A j \in N : big[i] < big[j]) \/ (\A j \in N : big[j] < big[i])
    PROVE  /\ IsFiniteSet(N) /\ Cardinality(N) \in Nat \ {0}
           /\ Spliced(ListOf(small), ListOf(big), Cardinality(N))
<1>1. PICK D, k : D = DOMAIN small /\ k = Cardinality(N)
  OBVIOUS
<1>2. /\ IsFiniteSet(D) /\ IsFiniteSet(N) /\ k \in Nat \ {0}
      /\ Cardinality(DOMAIN big) = Cardinality(D) + k /\ Cardinality(D) \in Nat
  <2>1. IsFiniteSet(D) /\ IsFiniteSet(N)
    <3>1. N \in SUBSET DOMAIN big /\ IsFiniteSet(DOMAIN big)
      BY DEF Ordered
    <3> QED
      BY <1>1, <3>1, FS_Subset DEF Ordered
  <2>2. k \in Nat /\ Cardinality(D) \in Nat /\ k # 0
    BY <1>1, <2>1, FS_CardinalityType, FS_EmptySet
  <2>3. Cardinality(D \cup N) = Cardinality(D) + Cardinality(N) - Cardinality(D \cap N)
    BY <2>1, FS_Union
  <2>4. D \cap N = {} /\ Cardinality({}) = 0
    BY <1>1, FS_EmptySet
  <2> QED
    BY <1>1, <2>1, <2>2, <2>3, <2>4
<1>3. PICK A : A = {i \in D : \A j \in N : big[i] < big[j]}
  OBVIOUS
<1>4. PICK at : at = Cardinality(A)
  OBVIOUS
<1>5. IsFiniteSet(A) /\ at \in Nat /\ at <= Cardinality(D)
  <2>1. A \in SUBSET D
    BY <1>3
  <2> QED
    BY <1>2, <1>4, <2>1, FS_Subset, FS_CardinalityType
<1>6. \A i \in D : small[i] \in Nat /\ big[i] \in Nat
  BY <1>1 DEF Ordered
<1>7. \A j \in N : big[j] \in Nat
  BY DEF Ordered
<1>8. ASSUME NEW i \in A
      PROVE  /\ Cardinality(Below(small, i)) < at
             /\ Cardinality(Below(big, i)) = Cardinality(Below(small, i))
  <2>1. Below(big, i) = Below(small, i)
    BY <1>1, <1>3, <1>6, <1>7 DEF Below
  <2>2. Below(small, i) \in SUBSET A /\ i \notin Below(small, i)
    BY <1>1, <1>3, <1>6, <1>7 DEF Below
  <2>3. /\ Cardinality(Below(small, i)) <= Cardinality(A)
        /\ (Cardinality(A) = Cardinality(Below(small, i)) => A = Below(small, i))
        /\ IsFiniteSet(Below(small, i))
    BY <1>5, <2>2, FS_Subset
  <2>4. Cardinality(Below(small, i)) \in Nat
    BY <2>3, FS_CardinalityType
  <2>5. Cardinality(A) # Cardinality(Below(small, i))
    BY <2>2, <2>3
  <2> QED
    BY <1>4, <1>5, <2>1, <2>3, <2>4, <2>5
<1>9. ASSUME NEW i \in D \ A
      PROVE  /\ Cardinality(Below(small, i)) >= at
             /\ Cardinality(Below(big, i)) = Cardinality(Below(small, i)) + k
  <2>1. \A j \in N : big[j] < big[i]
    BY <1>1, <1>3
  <2>2. A \in SUBSET Below(small, i)
    BY <1>1, <1>3, <1>6, <1>7, <2>1 DEF Below
  <2>3. Below(big, i) = Below(small, i) \cup N /\ Below(small, i) \cap N = {}
    BY <1>1, <1>6, <1>7, <2>1 DEF Below
  <2>4. IsFiniteSet(Below(small, i))
    <3>1. Below(small, i) \in SUBSET D
      BY <1>1 DEF Below
    <3> QED
      BY <1>2, <3>1, FS_Subset
  <2>5. Cardinality(A) <= Cardinality(Below(small, i)) /\ Cardinality(Below(small, i)) \in Nat
    BY <2>2, <2>4, FS_Subset, FS_CardinalityType
  <2>6. Cardinality(Below(small, i) \cup N)
          = Cardinality(Below(small, i)) + Cardinality(N) - Cardinality(Below(small, i) \cap N)
    BY <1>2, <2>4, FS_Union
  <2>7. Cardinality({}) = 0
    BY FS_EmptySet
  <2> QED
    BY <1>1, <1>2, <1>4, <1>5, <2>3, <2>5, <2>6, <2>7
<1>10. PICK s, t : s = ListOf(small) /\ t = ListOf(big)
  OBVIOUS
<1>11. /\ s \in Seq(D) /\ Len(s) = Cardinality(D)
       /\ \A p \in 1..Len(s) : s[p] \in D /\ Cardinality(Below(small, s[p])) = p - 1
  BY <1>1, <1>10, Places
<1>12. /\ t \in Seq(DOMAIN big) /\ Len(t) = Cardinality(D) + k
       /\ \A i \in DOMAIN big : t[Cardinality(Below(big, i)) + 1] = i
  BY <1>2, <1>10, Places
<1>13. ASSUME NEW p \in 1..at PROVE t[p] = s[p]
  <2>1. p \in 1..Len(s) /\ p - 1 < at
    BY <1>2, <1>5, <1>11
  <2>2. PICK i \in D : i = s[p] /\ Cardinality(Below(small, i)) = p - 1
    BY <1>11, <2>1
  <2>3. i \in A
    BY <1>5, <1>9, <2>1, <2>2
  <2>4. Cardinality(Below(big, i)) + 1 = p
    BY <1>8, <2>2, <2>3
  <2> QED
    BY <1>1, <1>12, <2>2, <2>4
<1>14. ASSUME NEW p \in at + 1..Len(s) PROVE t[p + k] = s[p]
  <2>1. p \in 1..Len(s) /\ ~ (p - 1 < at)
    BY <1>2, <1>5, <1>11
  <2>2. PICK i \in D : i = s[p] /\ Cardinality(Below(small, i)) = p - 1
    BY <1>11, <2>1
  <2>3. i \in D \ A
    BY <1>8, <2>1, <2>2
  <2>4. Cardinality(Below(big, i)) + 1 = p + k
    BY <1>2, <1>9, <2>1, <2>2, <2>3
  <2> QED
    BY <1>1, <1>12, <2>2, <2>4
<1>15. /\ at \in 0..Len(s) /\ k \in Nat /\ Len(t) = Len(s) + k
       /\ s \in Seq(DOMAIN big)
  BY <1>1, <1>2, <1>5, <1>11, <1>12
<1>16. SubSeq(t, 1, at) \o SubSeq(t, at + k + 1, Len(t)) = s
  BY <1>12, <1>13, <1>14, <1>15, WithoutBlock
<1> QED
  BY <1>1, <1>2, <1>10, <1>15, <1>16 DEF Spliced

-----------------------------------------------------------------------------
(* The agenda implements the list.                                          *)

LEMMA AgendaOrdered == OrdersInv => Ordered(agenda) /\ Listed = ListOf(agenda)
<1> SUFFICES ASSUME OrdersInv PROVE Ordered(agenda) /\ Listed = ListOf(agenda)
  OBVIOUS
<1>1. made \in Nat /\ DOMAIN agenda \in SUBSET (1..made)
  BY DEF OrdersInv, TypeOK
<1>2. IsFiniteSet(DOMAIN agenda)
  <2>1. IsFiniteSet(1..made)
    BY <1>1, FS_Interval
  <2> QED
    BY <1>1, <2>1, FS_Subset
<1>3. IsInjective(agenda) /\ \A i \in DOMAIN agenda : agenda[i] \in Nat
  BY OrdersAssumption DEF OrdersInv, TypeOK
<1>4. Listed = ListOf(agenda)
  BY DEF Listed, ListOf, Below
<1> QED
  BY <1>2, <1>3, <1>4 DEF Ordered

\* The same items in other places are the list in another order.
LEMMA SameItems ==
    ASSUME NEW rows, NEW moved, Ordered(rows), Ordered(moved), DOMAIN moved = DOMAIN rows
    PROVE  List!Permute(ListOf(rows), ListOf(moved))
<1>1. PICK s, t : s = ListOf(rows) /\ t = ListOf(moved)
  OBVIOUS
<1>2. Len(t) = Len(s) /\ ToSet(t) = ToSet(s)
  <2>1. Len(s) = Cardinality(DOMAIN rows) /\ ToSet(s) = DOMAIN rows
    BY <1>1, Places
  <2>2. Len(t) = Cardinality(DOMAIN moved) /\ ToSet(t) = DOMAIN moved
    BY <1>1, Places
  <2> QED
    BY <2>1, <2>2
<1> QED
  BY <1>1, <1>2 DEF List!Permute, List!ToSet, ToSet

\* Rows at neighbouring orders, none of which was in use, come in as a block.
LEMMA BlockComesIn ==
    ASSUME NEW rows, NEW new, Ordered(rows), Ordered(Put(rows, new)), Fits(rows, new),
           DOMAIN new # {}, DOMAIN new \cap DOMAIN rows = {},
           \A i \in DOMAIN new : new[i] \in Nat,
           \A i, j \in DOMAIN new, n \in Nat :
              new[i] <= n /\ n <= new[j] => \E k \in DOMAIN new : new[k] = n
    PROVE  List!Insert(ListOf(rows), ListOf(Put(rows, new)))
<1>1. PICK big, N : big = Put(rows, new) /\ N = DOMAIN new
  OBVIOUS
<1>2. /\ DOMAIN big = DOMAIN rows \cup N /\ N \cap DOMAIN rows = {} /\ N # {}
      /\ \A i \in DOMAIN rows : big[i] = rows[i]
      /\ \A j \in N : big[j] = new[j]
  BY <1>1 DEF Put
<1>3. ASSUME NEW i \in DOMAIN rows
      PROVE  (\A j \in N : big[i] < big[j]) \/ (\A j \in N : big[j] < big[i])
  <2>1. big[i] \in Nat /\ big[i] = rows[i] /\ \A j \in N : big[j] \in Nat /\ big[j] = new[j]
    BY <1>1, <1>2 DEF Ordered
  <2>2. \A k \in N : new[k] # rows[i]
    BY <1>1, <1>2 DEF Fits
  <2>3. SUFFICES ASSUME NEW j \in N, NEW l \in N, ~ (big[i] < big[j]), ~ (big[l] < big[i])
                 PROVE  FALSE
    OBVIOUS
  <2>4. new[j] <= rows[i] /\ rows[i] <= new[l] /\ rows[i] \in Nat
    BY <2>1, <2>3
  <2> QED
    BY <1>1, <2>2, <2>4
<1>4. Ordered(big)
  BY <1>1
<1>5. /\ Cardinality(N) \in Nat \ {0}
      /\ Spliced(ListOf(rows), ListOf(big), Cardinality(N))
  BY <1>2, <1>3, <1>4, BlockSpliced
<1>6. PICK s, t, k : s = ListOf(rows) /\ t = ListOf(big) /\ k = Cardinality(N)
  OBVIOUS
<1>7. Len(s) \in Nat
  BY <1>6, Places
<1>8. PICK at \in 0..Len(s) :
         Len(t) = Len(s) + k /\ SubSeq(t, 1, at) \o SubSeq(t, at + k + 1, Len(t)) = s
  BY <1>5, <1>6 DEF Spliced
<1>9. k = Len(t) - Len(s) /\ k > 0
  BY <1>5, <1>6, <1>7, <1>8
<1>10. List!Insert(s, t)
  BY <1>8, <1>9 DEF List!Insert
<1> QED
  BY <1>1, <1>6, <1>10

\* A save writes new items at orders next to each other, or moves one.
LEMMA SaveLists ==
    ASSUME OrdersInv, OrdersInv', NEW u \in Users, Save(u), Ordered(agenda), Ordered(agenda')
    PROVE  \/ List!Permute(ListOf(agenda), ListOf(agenda'))
           \/ List!Insert(ListOf(agenda), ListOf(agenda'))
<1>1. PICK new : new = NewRows(u)
  OBVIOUS
<1>2. agenda' = Put(agenda, new) /\ Fits(agenda, new) /\ post[u].op \in {"create", "update", "carry"}
  BY <1>1 DEF Save
<1>3. made \in Nat /\ post[u].n \in Nat /\ first[u] \in Nat /\ DOMAIN agenda \subseteq 1..made
  BY DEF OrdersInv, TypeOK, Posts
<1>4. CASE DOMAIN new \subseteq DOMAIN agenda
  <2>1. DOMAIN agenda' = DOMAIN agenda
    BY <1>2, <1>4 DEF Put
  <2> QED
    BY <2>1, SameItems
<1>5. CASE ~ (DOMAIN new \subseteq DOMAIN agenda)
  <2>1. /\ DOMAIN new # {} /\ DOMAIN new \cap DOMAIN agenda = {}
        /\ \A i \in DOMAIN new : new[i] \in Nat
        /\ \A i, j \in DOMAIN new, n \in Nat :
              new[i] <= n /\ n <= new[j] => \E k \in DOMAIN new : new[k] = n
    <3>1. CASE post[u].op \in {"create", "update"}
      <4>1. PICK i : new = [j \in {i} |-> post[u].n] /\ (post[u].op = "create" => i = made + 1)
        BY <1>1, <3>1 DEF NewRows
      <4>2. DOMAIN new = {i} /\ new[i] = post[u].n
        BY <4>1
      <4>3. i \notin DOMAIN agenda
        BY <1>5, <4>2
      <4>4. \A n \in Nat : new[i] <= n /\ n <= new[i] => new[i] = n
        BY <1>3, <4>2
      <4> QED
        BY <1>3, <4>2, <4>3, <4>4
    <3>2. CASE post[u].op = "carry"
      <4>1. new = [i \in made + 1..made + post[u].n |-> first[u] + i - made - 1]
        BY <1>1, <3>2 DEF NewRows
      <4>2. PICK m, f, c : m = made /\ f = first[u] /\ c = post[u].n
        OBVIOUS
      <4>3. /\ DOMAIN new = m + 1..m + c /\ m \in Nat /\ f \in Nat /\ c \in Nat
            /\ \A i \in m + 1..m + c : new[i] = f + i - m - 1
        BY <1>3, <4>1, <4>2
      <4>4. DOMAIN new # {} /\ DOMAIN new \cap DOMAIN agenda = {}
        BY <1>3, <1>5, <4>2, <4>3
      <4>5. \A i \in DOMAIN new : new[i] \in Nat
        BY <4>3
      <4>6. ASSUME NEW i \in DOMAIN new, NEW j \in DOMAIN new, NEW n \in Nat, new[i] <= n, n <= new[j]
            PROVE  \E k \in DOMAIN new : new[k] = n
        <5>1. n - f + m + 1 \in m + 1..m + c /\ f + (n - f + m + 1) - m - 1 = n
          BY <4>3, <4>6
        <5>2. n - f + m + 1 \in DOMAIN new /\ new[n - f + m + 1] = n
          BY <4>3, <5>1
        <5> QED
          BY <5>2
      <4> QED
        BY <4>4, <4>5, <4>6
    <3> QED
      BY <1>2, <3>1, <3>2
  <2>2. PICK rows : rows = agenda
    OBVIOUS
  <2>3. Ordered(rows) /\ Ordered(Put(rows, new)) /\ Fits(rows, new)
    BY <1>2, <2>2
  <2>4. List!Insert(ListOf(rows), ListOf(Put(rows, new)))
    BY <2>1, <2>2, <2>3, BlockComesIn
  <2> QED
    BY <1>2, <2>2, <2>4
<1> QED
  BY <1>4, <1>5

\* A deletion takes one item out, or finds it gone.
LEMMA DeleteLists ==
    ASSUME NEW u \in Users, Delete(u), Ordered(agenda), Ordered(agenda')
    PROVE  \/ List!Permute(ListOf(agenda), ListOf(agenda'))
           \/ List!Withdraw(ListOf(agenda), ListOf(agenda'))
<1>1. PICK x, small, big : x = post[u].list[1] /\ small = agenda' /\ big = agenda
  OBVIOUS
<1>2. small = [i \in DOMAIN big \ {x} |-> big[i]] /\ Ordered(small) /\ Ordered(big)
  BY <1>1 DEF Delete, Restrict
<1>3. DOMAIN small = DOMAIN big \ {x} /\ \A i \in DOMAIN small : small[i] = big[i]
  BY <1>2
<1>4. CASE x \notin DOMAIN big
  <2>1. DOMAIN small = DOMAIN big
    BY <1>3, <1>4
  <2> QED
    BY <1>1, <1>2, <2>1, SameItems
<1>5. CASE x \in DOMAIN big
  <2>1. PICK N : N = {x}
    OBVIOUS
  <2>2. /\ N # {} /\ N \cap DOMAIN small = {} /\ DOMAIN big = DOMAIN small \cup N
        /\ \A i \in DOMAIN small : big[i] = small[i]
    BY <1>3, <1>5, <2>1
  <2>3. \A i \in DOMAIN small :
           (\A j \in N : big[i] < big[j]) \/ (\A j \in N : big[j] < big[i])
    BY <1>2, <1>3, <1>5, <2>1 DEF Ordered, IsInjective
  <2>4. Spliced(ListOf(small), ListOf(big), Cardinality(N)) /\ Cardinality(N) = 1
    BY <1>2, <2>1, <2>2, <2>3, BlockSpliced, FS_Singleton
  <2>5. PICK s, t : s = ListOf(small) /\ t = ListOf(big)
    OBVIOUS
  <2>6. Len(s) \in Nat /\ t \in Seq(DOMAIN big)
    BY <1>2, <2>5, Places
  <2>7. PICK at \in 0..Len(s) :
           Len(t) = Len(s) + 1 /\ SubSeq(t, 1, at) \o SubSeq(t, at + 1 + 1, Len(t)) = s
    BY <2>4, <2>5 DEF Spliced
  <2>8. PICK p : p = at + 1
    OBVIOUS
  <2>9. p \in DOMAIN t /\ at = p - 1 /\ at + 1 + 1 = p + 1
    BY <2>6, <2>7, <2>8
  <2>10. s = RemoveAt(t, p)
    BY <2>7, <2>9 DEF RemoveAt
  <2>11. List!Withdraw(t, s)
    BY <2>9, <2>10 DEF List!Withdraw, RemoveAt, List!RemoveAt
  <2> QED
    BY <1>1, <2>5, <2>11
<1> QED
  BY <1>4, <1>5

LEMMA ReorderLists ==
    ASSUME OrdersInv, NEW u \in Users, Reorder(u), Ordered(agenda), Ordered(agenda')
    PROVE  List!Permute(ListOf(agenda), ListOf(agenda'))
<1>1. DOMAIN Placed(u) \subseteq DOMAIN agenda
  BY PhasesApart DEF Reorder
<1>2. DOMAIN agenda' = DOMAIN agenda
  BY <1>1 DEF Reorder, Put
<1> QED
  BY <1>2, SameItems

\* To its readers the agenda is a list: whatever orders are typed, suggested,
\* appended or left over, new items come in as one block, an item leaves, or
\* the items change places.
THEOREM OrdersImplementList == Spec => ImplementsList
<1>1. Init => List!Init
  <2> SUFFICES ASSUME Init PROVE List!Init
    OBVIOUS
  <2>1. DOMAIN agenda = {}
    BY DEF Init, NoItems
  <2>2. Cardinality(DOMAIN agenda) = 0
    BY <2>1, FS_EmptySet
  <2>3. Listed = <<>>
    BY <2>2 DEF Listed
  <2> QED
    BY <2>3 DEF List!Init
<1>2. OrdersInv /\ [Next]_vars => [List!Next]_Listed
  <2> SUFFICES ASSUME OrdersInv, [Next]_vars PROVE [List!Next]_Listed
    OBVIOUS
  <2>1. OrdersInv'
    BY Steps
  <2>2. Ordered(agenda) /\ Ordered(agenda') /\ Listed = ListOf(agenda) /\ Listed' = ListOf(agenda')
    <3>1. (Ordered(agenda) /\ Listed = ListOf(agenda))'
      BY <2>1, AgendaOrdered, PTL
    <3>2. Ordered(agenda)' <=> Ordered(agenda')
      BY DEF Ordered
    <3>3. ListOf(agenda)' = ListOf(agenda')
      BY DEF ListOf, Below
    <3> QED
      BY <3>1, <3>2, <3>3, AgendaOrdered
  <2>3. CASE UNCHANGED agenda
    BY <2>2, <2>3
  <2>4. ASSUME NEW u \in Users, Save(u) PROVE List!Next
    BY <2>1, <2>2, <2>4, SaveLists DEF List!Next
  <2>5. ASSUME NEW u \in Users, Delete(u) PROVE List!Next
    BY <2>2, <2>5, DeleteLists DEF List!Next
  <2>6. ASSUME NEW u \in Users, Reorder(u) PROVE List!Next
    BY <2>2, <2>6, ReorderLists DEF List!Next
  <2>7. \/ UNCHANGED agenda
        \/ \E u \in Users : Save(u) \/ Delete(u) \/ Reorder(u)
    BY DEF Next, vars, Open, Read, Load, Abandon, Fail
  <2> QED
    BY <2>3, <2>4, <2>5, <2>6, <2>7
<1> QED
  BY <1>1, <1>2, Invariance, PTL DEF Spec, ImplementsList, List!Spec
=============================================================================
