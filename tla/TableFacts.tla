---------------------------- MODULE TableFacts -------------------------------
(***************************************************************************)
(* What the proofs about tables share: appending a row to a table kept as  *)
(* a sequence, the numbers a finite table holds, and their sums.           *)
(*                                                                         *)
(* A sum over a set is a fold, which takes the elements one by one in an   *)
(* order CHOOSE fixes.  Facts about it are proved by induction on the set. *)
(***************************************************************************)
EXTENDS Integers, Functions, SequenceTheorems, FiniteSetTheorems, WellFoundedInduction, TLAPS

\* The rows of a sequence that has just grown.
LEMMA AppendRows ==
    ASSUME NEW S, NEW s \in Seq(S), NEW e \in S, NEW t, t = Append(s, e)
    PROVE  /\ t \in Seq(S) /\ Len(t) = Len(s) + 1
           /\ DOMAIN t = 1..Len(s) + 1 /\ DOMAIN s = 1..Len(s)
           /\ t[Len(s) + 1] = e
           /\ \A i \in DOMAIN s : i \in DOMAIN t /\ t[i] = s[i]
           /\ \A i \in DOMAIN t : \/ i = Len(s) + 1 /\ t[i] = e
                                  \/ i \in DOMAIN s /\ t[i] = s[i]
<1>1. t \in Seq(S) /\ Len(t) = Len(s) + 1 /\ Len(s) \in Nat
  OBVIOUS
<1> QED
  BY <1>1

\* Lengths next to one.
LEMMA SmallNaturals ==
    \A n \in Nat : /\ n # 0 /\ n <= 1 => n = 1
                   /\ n # 0 /\ n # 1 => n - 1 \in 1..n - 1 /\ n - 1 + 1 = n
  OBVIOUS

\* The numbers in a finite table are bounded.
LEMMA FiniteBound ==
    ASSUME NEW S, IsFiniteSet(S), S \subseteq Nat
    PROVE  \E n \in Nat : \A x \in S : x <= n
<1> DEFINE Unbounded == {T \in FiniteSubsetsOf(S) : \A n \in Nat : \E x \in T : ~ (x <= n)}
<1>1. SUFFICES ASSUME Unbounded # {} PROVE FALSE
  <2>1. S \in FiniteSubsetsOf(S) /\ S \notin Unbounded
    BY <1>1 DEF FiniteSubsetsOf
  <2> QED
    BY <2>1
<1>2. PICK T \in Unbounded : \A U \in Unbounded : <<U, T>> \notin StrictSubsetOrdering(S)
  BY <1>1, FS_StrictSubsetOrderingWellFounded, WFMin
<1>3. PICK x \in T : TRUE
  OBVIOUS
<1> DEFINE U == T \ {x}
<1>4. U \in FiniteSubsetsOf(S) /\ U \subseteq T /\ U # T
  BY <1>3, FS_RemoveElement DEF FiniteSubsetsOf
<1>5. <<U, T>> \in StrictSubsetOrdering(S)
  BY <1>2, <1>4 DEF StrictSubsetOrdering, FiniteSubsetsOf
<1>6. PICK n \in Nat : \A y \in U : y <= n
  BY <1>2, <1>4, <1>5
<1>7. PICK m \in Nat : n <= m /\ x <= m
  <2>1. x \in Nat
    BY <1>3 DEF FiniteSubsetsOf
  <2> QED
    BY <2>1
<1>8. \A y \in T : y <= m
  <2> SUFFICES ASSUME NEW y \in T PROVE y <= m
    OBVIOUS
  <2>1. y \in Nat
    BY DEF FiniteSubsetsOf
  <2> QED
    BY <1>6, <1>7, <2>1
<1> QED
  BY <1>2, <1>8

\* The least of a nonempty set of numbers.
LEMMA LeastNumber ==
    ASSUME NEW S, S \subseteq Nat, S # {}
    PROVE  \E m \in S : \A x \in S : m <= x
<1>1. PICK m \in S : \A x \in S : <<x, m>> \notin OpToRel(<, Nat)
  BY NatLessThanWellFounded, WFMin
<1>2. \A x \in S : ~ (x < m)
  BY <1>1 DEF OpToRel
<1> QED
  BY <1>2

\* The largest number of a nonempty finite table.
LEMMA LargestNumber ==
    ASSUME NEW S, IsFiniteSet(S), S \subseteq Nat, S # {}
    PROVE  \E m \in S : \A x \in S : m >= x
<1>1. PICK n \in Nat : \A x \in S : x <= n
  BY FiniteBound
<1> DEFINE Bounds == {k \in Nat : \A x \in S : x <= k}
<1>2. PICK k \in Bounds : \A b \in Bounds : k <= b
  BY <1>1, LeastNumber
<1>3. CASE k \in S
  BY <1>2, <1>3
<1>4. CASE k \notin S
  <2>1. \A x \in S : x <= k - 1 /\ k - 1 \in Nat
    BY <1>2, <1>4
  <2>2. k - 1 \in Bounds
    BY <2>1
  <2> QED
    BY <1>2, <2>2
<1> QED
  BY <1>3, <1>4

-----------------------------------------------------------------------------
(* Sums over finite sets.                                                   *)

\* What holds of a set when it holds of its proper subsets holds of every
\* finite set: induction on sets, with the property given as a set of sets.
LEMMA GrowingSets ==
    ASSUME NEW S, IsFiniteSet(S), NEW Good,
           \A T \in SUBSET S : (\A U \in SUBSET T : U # T => U \in Good) => T \in Good
    PROVE  S \in Good
<1> DEFINE Bad == {T \in FiniteSubsetsOf(S) : T \notin Good}
<1>1. SUFFICES ASSUME S \notin Good PROVE FALSE
  OBVIOUS
<1>2. S \in Bad
  <2>1. S \in FiniteSubsetsOf(S)
    BY DEF FiniteSubsetsOf
  <2> QED
    BY <1>1, <2>1
<1>3. PICK T \in Bad : \A U \in Bad : <<U, T>> \notin StrictSubsetOrdering(S)
  <2>1. IsWellFoundedOn(StrictSubsetOrdering(S), FiniteSubsetsOf(S))
    BY FS_StrictSubsetOrderingWellFounded
  <2>2. PICK B : B = Bad
    OBVIOUS
  <2>3. B \subseteq FiniteSubsetsOf(S) /\ B # {}
    BY <1>2, <2>2
  <2>4. \E T \in B : \A U \in B : ~ (<<U, T>> \in StrictSubsetOrdering(S))
    <3> HIDE DEF Bad
    <3> QED BY <2>1, <2>3, WFMin
  <2> QED
    BY <2>2, <2>4
<1>4. T \in SUBSET S /\ IsFiniteSet(T) /\ T \notin Good /\ T \in FiniteSubsetsOf(S)
  BY <1>3 DEF FiniteSubsetsOf
<1>5. ASSUME NEW U \in SUBSET T, U # T PROVE U \in Good
  <2>1. IsFiniteSet(U)
    BY <1>4, FS_Subset
  <2>2. U \in FiniteSubsetsOf(S)
    BY <1>4, <2>1 DEF FiniteSubsetsOf
  <2>3. <<U, T>> \in StrictSubsetOrdering(S)
    BY <1>4, <1>5, <2>2 DEF StrictSubsetOrdering, FiniteSubsetsOf
  <2> QED
    BY <1>3, <2>2, <2>3
<1> QED
  BY <1>4, <1>5

\* A table of the sums of f over the subsets of S.
SumTable(g, f, S) ==
    g = [s \in SUBSET S |-> IF s = {} THEN 0
                            ELSE LET x == CHOOSE x \in s : TRUE IN f[x] + g[s \ {x}]]

First(s) == CHOOSE x \in s : TRUE

LEMMA FirstIn == \A s : s # {} => First(s) \in s
  BY DEF First

LEMMA SumUnfolded ==
    ASSUME NEW f, NEW S
    PROVE SumFunctionOnSet(f, S) = (CHOOSE g : SumTable(g, f, S))[S]
  BY DEF SumFunctionOnSet, FoldFunctionOnSet, MapThenFoldSet, SumTable

LEMMA SumTableRow ==
    ASSUME NEW f, NEW S, NEW g, SumTable(g, f, S), NEW s \in SUBSET S
    PROVE  g[s] = IF s = {} THEN 0 ELSE f[First(s)] + g[s \ {First(s)}]
<1>1. g = [t \in SUBSET S |-> IF t = {} THEN 0 ELSE f[First(t)] + g[t \ {First(t)}]]
  BY DEF SumTable, First
<1> QED
  BY <1>1

\* Two tables of the sums of one function agree where both have rows.
LEMMA SumTablesAgree ==
    ASSUME NEW f, NEW S, NEW V, IsFiniteSet(S), S \subseteq V,
           NEW g, SumTable(g, f, S), NEW h, SumTable(h, f, V)
    PROVE  g[S] = h[S]
<1> DEFINE Same == {T \in SUBSET S : g[T] = h[T]}
<1>1. ASSUME NEW T \in SUBSET S, \A U \in SUBSET T : U # T => U \in Same
      PROVE  T \in Same
  <2>1. /\ g[T] = IF T = {} THEN 0 ELSE f[First(T)] + g[T \ {First(T)}]
        /\ h[T] = IF T = {} THEN 0 ELSE f[First(T)] + h[T \ {First(T)}]
    BY SumTableRow
  <2>2. T # {} => T \ {First(T)} \in Same
    BY <1>1, FirstIn
  <2> QED
    BY <2>1, <2>2
<1>2. S \in Same
  <2> HIDE DEF Same
  <2> QED
    BY <1>1, GrowingSets
<1> QED
  BY <1>2

LEMMA SumTableExists ==
    ASSUME NEW f, NEW S, IsFiniteSet(S)
    PROVE  \E g : SumTable(g, f, S)
<1> DEFINE Sol(T) == CHOOSE g : SumTable(g, f, T)
           Summed == {T \in SUBSET S : \E g : SumTable(g, f, T)}
<1>1. \A T \in Summed : SumTable(Sol(T), f, T)
  OBVIOUS
<1>2. ASSUME NEW T \in SUBSET S, \A U \in SUBSET T : U # T => U \in Summed
      PROVE  T \in Summed
  <2> DEFINE g == [s \in SUBSET T |->
                      IF s = {} THEN 0 ELSE f[First(s)] + Sol(s \ {First(s)})[s \ {First(s)}]]
  <2>1. ASSUME NEW s \in SUBSET T, s # T PROVE g[s] = Sol(s)[s]
    <3>1. SumTable(Sol(s), f, s)
      BY <1>1, <1>2, <2>1
    <3>2. Sol(s)[s] = IF s = {} THEN 0 ELSE f[First(s)] + Sol(s)[s \ {First(s)}]
      <4> HIDE DEF Sol
      <4> QED BY <3>1, SumTableRow
    <3>3. s # {} => Sol(s)[s \ {First(s)}] = Sol(s \ {First(s)})[s \ {First(s)}]
      <4> SUFFICES ASSUME s # {} PROVE Sol(s)[s \ {First(s)}] = Sol(s \ {First(s)})[s \ {First(s)}]
        OBVIOUS
      <4>1. First(s) \in s
        BY FirstIn
      <4>2. PICK r : r = s \ {First(s)}
        OBVIOUS
      <4>3. r \in SUBSET T /\ r # T /\ r \subseteq s
        BY <4>1, <4>2
      <4>4. SumTable(Sol(r), f, r)
        BY <1>1, <1>2, <4>3
      <4>5. IsFiniteSet(r)
        BY <4>3, FS_Subset
      <4> HIDE DEF Sol
      <4> QED BY <3>1, <4>2, <4>3, <4>4, <4>5, SumTablesAgree
    <3> QED
      BY <2>1, <3>2, <3>3
  <2>2. \A s \in SUBSET T : s # {} => g[s \ {First(s)}] = Sol(s \ {First(s)})[s \ {First(s)}]
    <3> HIDE DEF Sol, g
    <3> QED BY <2>1, FirstIn
  <2>3. g = [s \in SUBSET T |-> IF s = {} THEN 0 ELSE f[First(s)] + g[s \ {First(s)}]]
    <3> HIDE DEF Sol
    <3> QED BY <2>2
  <2>4. SumTable(g, f, T)
    <3> HIDE DEF g
    <3> QED BY <2>3 DEF SumTable, First
  <2> QED
    BY <2>4
<1>3. S \in Summed
  <2> HIDE DEF Summed
  <2> QED
    BY <1>2, GrowingSets
<1> QED
  BY <1>3

\* A sum over a finite set, of which one element is put aside.
LEMMA SumFirst ==
    ASSUME NEW f, NEW S, IsFiniteSet(S)
    PROVE  SumFunctionOnSet(f, S) =
              IF S = {} THEN 0 ELSE f[First(S)] + SumFunctionOnSet(f, S \ {First(S)})
<1>1. \A T \in SUBSET S : \E g : SumTable(g, f, T) /\ SumFunctionOnSet(f, T) = g[T]
  <2> SUFFICES ASSUME NEW T \in SUBSET S PROVE \E g : SumTable(g, f, T) /\ SumFunctionOnSet(f, T) = g[T]
    OBVIOUS
  <2>1. IsFiniteSet(T)
    BY FS_Subset
  <2>2. \E g : SumTable(g, f, T)
    BY <2>1, SumTableExists
  <2>3. SumTable(CHOOSE g : SumTable(g, f, T), f, T)
    BY <2>2
  <2>4. PICK h : h = (CHOOSE g : SumTable(g, f, T))
    OBVIOUS
  <2> QED
    BY <2>3, <2>4, SumUnfolded
<1>2. PICK g : SumTable(g, f, S) /\ SumFunctionOnSet(f, S) = g[S]
  BY <1>1
<1>3. g[S] = IF S = {} THEN 0 ELSE f[First(S)] + g[S \ {First(S)}]
  <2>1. S \in SUBSET S /\ SumTable(g, f, S)
    BY <1>2
  <2>2. \A s \in SUBSET S : g[s] = IF s = {} THEN 0 ELSE f[First(s)] + g[s \ {First(s)}]
    BY <2>1, SumTableRow
  <2> QED
    BY <2>1, <2>2
<1>4. S # {} => g[S \ {First(S)}] = SumFunctionOnSet(f, S \ {First(S)})
  <2>1. PICK T : T = S \ {First(S)} /\ T \in SUBSET S
    OBVIOUS
  <2>2. PICK h : SumTable(h, f, T) /\ SumFunctionOnSet(f, T) = h[T]
    BY <1>1, <2>1
  <2>3. IsFiniteSet(T)
    BY <2>1, FS_Subset
  <2>4. h[T] = g[T]
    BY <1>2, <2>1, <2>2, <2>3, SumTablesAgree
  <2> QED
    BY <2>1, <2>2, <2>4
<1> QED
  BY <1>2, <1>3, <1>4

LEMMA SumTyped ==
    ASSUME NEW f, NEW S, IsFiniteSet(S), \A x \in S : f[x] \in Int
    PROVE  SumFunctionOnSet(f, S) \in Int
<1> DEFINE Typed == {T \in SUBSET S : SumFunctionOnSet(f, T) \in Int}
<1>1. ASSUME NEW T \in SUBSET S, \A U \in SUBSET T : U # T => U \in Typed
      PROVE  T \in Typed
  <2>1. IsFiniteSet(T)
    BY FS_Subset
  <2>2. SumFunctionOnSet(f, T) =
           IF T = {} THEN 0 ELSE f[First(T)] + SumFunctionOnSet(f, T \ {First(T)})
    BY <2>1, SumFirst
  <2>3. T # {} => f[First(T)] \in Int /\ T \ {First(T)} \in Typed
    BY <1>1, FirstIn
  <2> QED
    BY <2>2, <2>3
<1>2. S \in Typed
  <2> HIDE DEF Typed
  <2> QED
    BY <1>1, GrowingSets
<1> QED
  BY <1>2

LEMMA SumEmpty == \A f : SumFunctionOnSet(f, {}) = 0
  BY SumFirst, FS_EmptySet

\* The element put aside may be any.
LEMMA SumStep ==
    ASSUME NEW f, NEW S, IsFiniteSet(S), \A x \in S : f[x] \in Int, NEW e \in S
    PROVE  /\ SumFunctionOnSet(f, S) = f[e] + SumFunctionOnSet(f, S \ {e})
           /\ SumFunctionOnSet(f, S \ {e}) \in Int /\ SumFunctionOnSet(f, S) \in Int
<1> DEFINE Split == {T \in SUBSET S :
                        \A x \in T : SumFunctionOnSet(f, T) = f[x] + SumFunctionOnSet(f, T \ {x})}
<1>1. \A T \in SUBSET S : IsFiniteSet(T) /\ SumFunctionOnSet(f, T) \in Int
  <2> SUFFICES ASSUME NEW T \in SUBSET S PROVE IsFiniteSet(T) /\ SumFunctionOnSet(f, T) \in Int
    OBVIOUS
  <2>1. IsFiniteSet(T)
    BY FS_Subset
  <2> QED
    BY <2>1, SumTyped
<1>2. ASSUME NEW T \in SUBSET S, \A U \in SUBSET T : U # T => U \in Split
      PROVE  T \in Split
  <2> SUFFICES ASSUME NEW x \in T
               PROVE  SumFunctionOnSet(f, T) = f[x] + SumFunctionOnSet(f, T \ {x})
    OBVIOUS
  <2>1. PICK y \in T : SumFunctionOnSet(f, T) = f[y] + SumFunctionOnSet(f, T \ {y}) /\ y = First(T)
    BY <1>1, FirstIn, SumFirst
  <2>2. CASE x = y
    BY <2>1, <2>2
  <2>3. CASE x # y
    <3>1. PICK R : R = T \ {x, y} /\ R = (T \ {x}) \ {y} /\ R = (T \ {y}) \ {x} /\ R \in SUBSET S
      OBVIOUS
    <3>2. T \ {x} \in Split /\ T \ {y} \in Split /\ y \in T \ {x} /\ x \in T \ {y}
      BY <1>2, <2>3
    <3>3. SumFunctionOnSet(f, T \ {y}) = f[x] + SumFunctionOnSet(f, R)
      BY <3>1, <3>2
    <3>4. SumFunctionOnSet(f, T \ {x}) = f[y] + SumFunctionOnSet(f, R)
      BY <3>1, <3>2
    <3>5. f[x] \in Int /\ f[y] \in Int /\ SumFunctionOnSet(f, R) \in Int
      BY <1>1, <3>1
    <3> QED
      BY <2>1, <3>3, <3>4, <3>5
  <2> QED
    BY <2>2, <2>3
<1>3. S \in Split
  <2> HIDE DEF Split
  <2> QED
    BY <1>2, GrowingSets
<1> QED
  BY <1>1, <1>3

\* Functions that agree on a set have the same sum over it.
LEMMA SumSame ==
    ASSUME NEW f, NEW g, NEW S, IsFiniteSet(S), \A x \in S : f[x] = g[x]
    PROVE  SumFunctionOnSet(f, S) = SumFunctionOnSet(g, S)
<1> DEFINE Same == {T \in SUBSET S : SumFunctionOnSet(f, T) = SumFunctionOnSet(g, T)}
<1>1. ASSUME NEW T \in SUBSET S, \A U \in SUBSET T : U # T => U \in Same
      PROVE  T \in Same
  <2>1. IsFiniteSet(T)
    BY FS_Subset
  <2>2. /\ SumFunctionOnSet(f, T) =
              IF T = {} THEN 0 ELSE f[First(T)] + SumFunctionOnSet(f, T \ {First(T)})
        /\ SumFunctionOnSet(g, T) =
              IF T = {} THEN 0 ELSE g[First(T)] + SumFunctionOnSet(g, T \ {First(T)})
    BY <2>1, SumFirst
  <2>3. T # {} => f[First(T)] = g[First(T)] /\ T \ {First(T)} \in Same
    BY <1>1, FirstIn
  <2> QED
    BY <2>2, <2>3
<1>2. S \in Same
  <2> HIDE DEF Same
  <2> QED
    BY <1>1, GrowingSets
<1> QED
  BY <1>2

\* Nothing but zeros.
LEMMA SumZero ==
    ASSUME NEW f, NEW S, IsFiniteSet(S), \A x \in S : f[x] = 0
    PROVE  SumFunctionOnSet(f, S) = 0
<1> DEFINE Zero == {T \in SUBSET S : SumFunctionOnSet(f, T) = 0}
<1>1. ASSUME NEW T \in SUBSET S, \A U \in SUBSET T : U # T => U \in Zero
      PROVE  T \in Zero
  <2>1. IsFiniteSet(T)
    BY FS_Subset
  <2>2. SumFunctionOnSet(f, T) =
           IF T = {} THEN 0 ELSE f[First(T)] + SumFunctionOnSet(f, T \ {First(T)})
    BY <2>1, SumFirst
  <2>3. T # {} => f[First(T)] = 0 /\ T \ {First(T)} \in Zero
    BY <1>1, FirstIn
  <2> QED
    BY <2>2, <2>3
<1>2. S \in Zero
  <2> HIDE DEF Zero
  <2> QED
    BY <1>1, GrowingSets
<1> QED
  BY <1>2

\* The sum of sums.
LEMMA SumPlus ==
    ASSUME NEW f, NEW g, NEW h, NEW S, IsFiniteSet(S),
           \A x \in S : f[x] \in Int /\ g[x] \in Int /\ h[x] = f[x] + g[x]
    PROVE  SumFunctionOnSet(h, S) = SumFunctionOnSet(f, S) + SumFunctionOnSet(g, S)
<1> DEFINE Added == {T \in SUBSET S :
                        SumFunctionOnSet(h, T) = SumFunctionOnSet(f, T) + SumFunctionOnSet(g, T)}
<1>1. ASSUME NEW T \in SUBSET S, \A U \in SUBSET T : U # T => U \in Added
      PROVE  T \in Added
  <2>1. IsFiniteSet(T)
    BY FS_Subset
  <2>2. CASE T = {}
    BY <2>2, SumEmpty
  <2>3. CASE T # {}
    <3>1. PICK x \in T : TRUE
      BY <2>3
    <3>2. PICK U : U = T \ {x} /\ U \in Added
      <4>1. T \ {x} \in SUBSET T /\ T \ {x} # T
        BY <3>1
      <4>2. T \ {x} \in Added
        <5> HIDE DEF Added
        <5> QED BY <1>1, <4>1
      <4> HIDE DEF Added
      <4> QED
        BY <4>2
    <3>3. /\ SumFunctionOnSet(f, T) = f[x] + SumFunctionOnSet(f, U) /\ SumFunctionOnSet(f, U) \in Int
          /\ SumFunctionOnSet(g, T) = g[x] + SumFunctionOnSet(g, U) /\ SumFunctionOnSet(g, U) \in Int
      <4>1. (\A y \in T : f[y] \in Int) /\ (\A y \in T : g[y] \in Int) /\ U = T \ {x}
        BY <3>2
      <4> HIDE DEF Added
      <4> QED
        BY <2>1, <3>1, <4>1, SumStep
    <3>4. \A z \in T : h[z] \in Int
      OBVIOUS
    <3>5. SumFunctionOnSet(h, T) = h[x] + SumFunctionOnSet(h, U)
      BY <2>1, <3>1, <3>2, <3>4, SumStep
    <3> QED
      BY <3>1, <3>2, <3>3, <3>5
  <2> QED
    BY <2>2, <2>3
<1>2. S \in Added
  <2> HIDE DEF Added
  <2> QED
    BY <1>1, GrowingSets
<1> QED
  BY <1>2

\* Sums of what is never more, and of what is always less.
LEMMA SumAtMost ==
    ASSUME NEW f, NEW g, NEW S, IsFiniteSet(S),
           \A x \in S : f[x] \in Int /\ g[x] \in Int /\ f[x] <= g[x]
    PROVE  /\ SumFunctionOnSet(f, S) <= SumFunctionOnSet(g, S)
           /\ S # {} /\ (\A x \in S : f[x] < g[x]) => SumFunctionOnSet(f, S) < SumFunctionOnSet(g, S)
<1> DEFINE Less == {T \in SUBSET S : SumFunctionOnSet(f, T) <= SumFunctionOnSet(g, T)}
<1>1. ASSUME NEW T \in SUBSET S, NEW x \in T
      PROVE  /\ SumFunctionOnSet(f, T) = f[x] + SumFunctionOnSet(f, T \ {x}) /\ SumFunctionOnSet(f, T \ {x}) \in Int
             /\ SumFunctionOnSet(g, T) = g[x] + SumFunctionOnSet(g, T \ {x}) /\ SumFunctionOnSet(g, T \ {x}) \in Int
  <2>1. IsFiniteSet(T)
    BY FS_Subset
  <2> QED
    BY <2>1, SumStep
<1>2. ASSUME NEW T \in SUBSET S, \A U \in SUBSET T : U # T => U \in Less
      PROVE  T \in Less
  <2>1. CASE T = {}
    BY <2>1, SumEmpty
  <2>2. CASE T # {}
    <3>1. PICK x \in T : TRUE
      BY <2>2
    <3>2. SumFunctionOnSet(f, T \ {x}) <= SumFunctionOnSet(g, T \ {x})
      BY <1>2, <3>1
    <3> QED
      BY <1>1, <3>1, <3>2
  <2> QED
    BY <2>1, <2>2
<1>3. \A T \in SUBSET S : T \in Less
  <2> SUFFICES ASSUME NEW T \in SUBSET S PROVE T \in Less
    OBVIOUS
  <2>1. IsFiniteSet(T)
    BY FS_Subset
  <2>2. \A V \in SUBSET T : (\A U \in SUBSET V : U # V => U \in Less) => V \in Less
    BY <1>2
  <2> HIDE DEF Less
  <2> QED
    BY <2>1, <2>2, GrowingSets
<1>4. ASSUME S # {}, \A x \in S : f[x] < g[x]
      PROVE  SumFunctionOnSet(f, S) < SumFunctionOnSet(g, S)
  <2>1. PICK x \in S : f[x] < g[x]
    BY <1>4
  <2>2. SumFunctionOnSet(f, S \ {x}) <= SumFunctionOnSet(g, S \ {x})
    BY <1>3
  <2> QED
    BY <1>1, <2>1, <2>2
<1> QED
  BY <1>3, <1>4

\* The sum over two sets that have nothing in common.
LEMMA SumUnion ==
    ASSUME NEW f, NEW S, NEW T, IsFiniteSet(S), IsFiniteSet(T), S \cap T = {},
           \A x \in S \cup T : f[x] \in Int
    PROVE  SumFunctionOnSet(f, S \cup T) = SumFunctionOnSet(f, S) + SumFunctionOnSet(f, T)
<1> DEFINE Joined == {U \in SUBSET S :
                         SumFunctionOnSet(f, U \cup T) = SumFunctionOnSet(f, U) + SumFunctionOnSet(f, T)}
<1>1. ASSUME NEW U \in SUBSET S, \A V \in SUBSET U : V # U => V \in Joined
      PROVE  U \in Joined
  <2>1. IsFiniteSet(U) /\ IsFiniteSet(U \cup T)
    BY FS_Subset, FS_Union
  <2>2. SumFunctionOnSet(f, T) \in Int
    BY SumTyped
  <2>3. CASE U = {}
    <3>1. U \cup T = T
      BY <2>3
    <3> QED
      BY <2>2, <2>3, <3>1, SumEmpty
  <2>4. CASE U # {}
    <3>1. PICK x \in U : TRUE
      BY <2>4
    <3>2. PICK V : V = U \ {x} /\ V \in Joined
      <4>1. U \ {x} \in SUBSET U /\ U \ {x} # U
        BY <3>1
      <4>2. U \ {x} \in Joined
        <5> HIDE DEF Joined
        <5> QED BY <1>1, <4>1
      <4> HIDE DEF Joined
      <4> QED
        BY <4>2
    <3>3. (U \cup T) \ {x} = V \cup T /\ x \in U \cup T
      BY <3>1, <3>2
    <3>4. \A y \in U \cup T : f[y] \in Int
      OBVIOUS
    <3>5. SumFunctionOnSet(f, U) = f[x] + SumFunctionOnSet(f, V) /\ SumFunctionOnSet(f, V) \in Int
      BY <2>1, <3>1, <3>2, <3>4, SumStep
    <3>6. SumFunctionOnSet(f, U \cup T) = f[x] + SumFunctionOnSet(f, V \cup T)
      BY <2>1, <3>3, <3>4, SumStep
    <3>7. SumFunctionOnSet(f, V \cup T) = SumFunctionOnSet(f, V) + SumFunctionOnSet(f, T)
      BY <3>2
    <3> QED
      BY <2>2, <3>1, <3>4, <3>5, <3>6, <3>7
  <2> QED
    BY <2>3, <2>4
<1>2. S \in Joined
  <2> HIDE DEF Joined
  <2> QED
    BY <1>1, GrowingSets
<1> QED
  BY <1>2

\* A sum of multiples.
LEMMA SumTimes ==
    ASSUME NEW f, NEW g, NEW c \in Int, NEW S, IsFiniteSet(S),
           \A x \in S : f[x] \in Int /\ g[x] = c * f[x]
    PROVE  SumFunctionOnSet(g, S) = c * SumFunctionOnSet(f, S)
<1> DEFINE Scaled == {T \in SUBSET S : SumFunctionOnSet(g, T) = c * SumFunctionOnSet(f, T)}
<1>1. ASSUME NEW T \in SUBSET S, \A U \in SUBSET T : U # T => U \in Scaled
      PROVE  T \in Scaled
  <2>1. IsFiniteSet(T)
    BY FS_Subset
  <2>2. CASE T = {}
    BY <2>2, SumEmpty
  <2>3. CASE T # {}
    <3>1. PICK x \in T : TRUE
      BY <2>3
    <3>2. PICK U : U = T \ {x} /\ U \in Scaled
      <4>1. T \ {x} \in SUBSET T /\ T \ {x} # T
        BY <3>1
      <4>2. T \ {x} \in Scaled
        <5> HIDE DEF Scaled
        <5> QED BY <1>1, <4>1
      <4> HIDE DEF Scaled
      <4> QED
        BY <4>2
    <3>3. SumFunctionOnSet(f, T) = f[x] + SumFunctionOnSet(f, U) /\ SumFunctionOnSet(f, U) \in Int
      <4>1. (\A y \in T : f[y] \in Int) /\ U = T \ {x}
        BY <3>2
      <4>2. /\ SumFunctionOnSet(f, T) = f[x] + SumFunctionOnSet(f, T \ {x})
            /\ SumFunctionOnSet(f, T \ {x}) \in Int
        BY <2>1, <3>1, <4>1, SumStep
      <4> QED
        BY <4>1, <4>2
    <3>4. \A z \in T : g[z] \in Int
      <4> SUFFICES ASSUME NEW z \in T PROVE g[z] \in Int
        OBVIOUS
      <4>1. f[z] \in Int /\ g[z] = c * f[z]
        OBVIOUS
      <4> QED
        BY <4>1
    <3>5. SumFunctionOnSet(g, T) = g[x] + SumFunctionOnSet(g, U)
      BY <2>1, <3>1, <3>2, <3>4, SumStep
    <3>6. SumFunctionOnSet(g, U) = c * SumFunctionOnSet(f, U)
      BY <3>2
    <3>7. \A p, q \in Int : c * (p + q) = c * p + c * q
      OBVIOUS
    <3>8. f[x] \in Int /\ g[x] = c * f[x]
      OBVIOUS
    <3>9. c * (f[x] + SumFunctionOnSet(f, U)) = c * f[x] + c * SumFunctionOnSet(f, U)
      BY <3>3, <3>7, <3>8
    <3> QED
      BY <3>3, <3>5, <3>6, <3>8, <3>9
  <2> QED
    BY <2>2, <2>3
<1>2. S \in Scaled
  <2> HIDE DEF Scaled
  <2> QED
    BY <1>1, GrowingSets
<1> QED
  BY <1>2

Parts(F, S) == UNION {F[x] : x \in S}

\* As many elements as in all sets of a table that share none.
LEMMA SumOfParts ==
    ASSUME NEW S, IsFiniteSet(S), NEW F, NEW c,
           \A x \in S : IsFiniteSet(F[x]) /\ c[x] = Cardinality(F[x]),
           \A x, y \in S : x # y => F[x] \cap F[y] = {}
    PROVE  IsFiniteSet(Parts(F, S)) /\ SumFunctionOnSet(c, S) = Cardinality(Parts(F, S))
<1> DEFINE All(T) == Parts(F, T)
           Counted == {T \in SUBSET S : /\ IsFiniteSet(All(T))
                                        /\ SumFunctionOnSet(c, T) = Cardinality(All(T))}
<1>1. ASSUME NEW T \in SUBSET S, \A U \in SUBSET T : U # T => U \in Counted
      PROVE  T \in Counted
  <2>1. IsFiniteSet(T)
    BY FS_Subset
  <2>2. CASE T = {}
    <3>1. All(T) = {}
      BY <2>2 DEF Parts
    <3> QED
      BY <2>2, <3>1, SumEmpty, FS_EmptySet
  <2>3. CASE T # {}
    <3>1. PICK x \in T : TRUE
      BY <2>3
    <3>2. PICK U : U = T \ {x} /\ U \in Counted
      <4>1. T \ {x} \in SUBSET T /\ T \ {x} # T
        BY <3>1
      <4>2. T \ {x} \in Counted
        <5> HIDE DEF Counted
        <5> QED BY <1>1, <4>1
      <4> HIDE DEF Counted
      <4> QED
        BY <4>2
    <3>3. \A y \in T : c[y] \in Int
      BY FS_CardinalityType
    <3>4. SumFunctionOnSet(c, T) = c[x] + SumFunctionOnSet(c, U)
      BY <2>1, <3>1, <3>2, <3>3, SumStep
    <3>5. PICK A, B : A = All(U) /\ B = F[x]
      OBVIOUS
    <3>6. All(T) = A \cup B
      BY <3>1, <3>2, <3>5 DEF Parts
    <3>7. A \cap B = {}
      BY <3>1, <3>2, <3>5 DEF Parts
    <3>8. IsFiniteSet(A) /\ IsFiniteSet(B) /\ SumFunctionOnSet(c, U) = Cardinality(A) /\ c[x] = Cardinality(B)
      BY <3>1, <3>2, <3>5
    <3>9. Cardinality(A) \in Nat /\ Cardinality(B) \in Nat
      BY <3>8, FS_CardinalityType
    <3>10. /\ IsFiniteSet(A \cup B)
           /\ Cardinality(A \cup B) = Cardinality(A) + Cardinality(B) - Cardinality(A \cap B)
      BY <3>8, FS_Union
    <3>11. Cardinality(A \cap B) = 0
      BY <3>7, FS_EmptySet
    <3>12. Cardinality(A \cup B) = c[x] + SumFunctionOnSet(c, U)
      BY <3>8, <3>9, <3>10, <3>11
    <3> QED
      BY <3>4, <3>6, <3>10, <3>12
  <2> QED
    BY <2>2, <2>3
<1>2. S \in Counted
  <2> HIDE DEF Counted
  <2> QED
    BY <1>1, GrowingSets
<1> QED
  BY <1>2
=============================================================================
