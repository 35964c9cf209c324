-------------------------- MODULE QueueSupervisorProofs --------------------------
(******************************************************************************)
(* Theorems about the queue supervisor, for any pull requests, dependencies,  *)
(* caps, weathers and mishaps: the types; a pull request is quarantined for   *)
(* two failures within a day (the invariant Remembered); a pass puts nothing  *)
(* in flight beyond its cap (the invariant Sparing); and its plan follows the *)
(* dependencies (Follows, which rests on what TopoOrder returns).             *)
(******************************************************************************)
EXTENDS QueueSupervisor, TLAPS, FiniteSetTheorems

\* Induction on the subsets of a finite set: some set outside Good has nothing outside Good
\* among its own subsets.
LEMMA SubsetInduction ==
  ASSUME NEW S, IsFiniteSet(S), NEW Good,
         ASSUME NEW T \in SUBSET S, \A U \in SUBSET T : U # T => U \in Good
         PROVE  T \in Good
  PROVE  (SUBSET S) \subseteq Good
  <1> DEFINE Bad == (SUBSET S) \ Good
  <1> DEFINE R == StrictSubsetOrdering(S)
             F == FiniteSubsetsOf(S)
  <1> SUFFICES ASSUME Bad # {} PROVE FALSE
    OBVIOUS
  <1>1. IsWellFoundedOn(R, F)
    BY FS_StrictSubsetOrderingWellFounded
  <1>2. Bad \subseteq F
    BY FS_FiniteSubsetsOfFinite
  <1>3. PICK T \in Bad : \A U \in Bad : ~(<<U, T>> \in R)
    <2> HIDE DEF Bad, R, F
    <2> QED BY <1>1, <1>2, WFMin
  <1>4. ASSUME NEW U \in SUBSET T, U # T PROVE U \in Good
    BY <1>3, <1>4 DEF StrictSubsetOrdering
  <1> QED BY <1>3, <1>4

\* x is the least, or the greatest, of S.
Least(S, x) == x \in S /\ \A y \in S : x <= y
Greatest(S, x) == x \in S /\ \A y \in S : y <= x

\* A finite set of numbers that is not empty has a greatest one.
LEMMA GreatestExists ==
  ASSUME NEW S, IsFiniteSet(S), S \subseteq Nat, S # {}
  PROVE  \E x : Greatest(S, x)
  <1> DEFINE Good == {T \in SUBSET S : T # {} => \E x : Greatest(T, x)}
  <1>1. ASSUME NEW T \in SUBSET S, \A U \in SUBSET T : U # T => U \in Good
        PROVE  T \in Good
    <2> SUFFICES ASSUME T # {} PROVE \E x : Greatest(T, x)
      OBVIOUS
    <2>1. PICK y \in T : TRUE
      OBVIOUS
    <2>2. CASE T = {y}
      BY <2>1, <2>2 DEF Greatest
    <2>3. CASE T # {y}
      <3>1. PICK x : Greatest(T \ {y}, x)
        BY <1>1, <2>1, <2>3
      <3>2. x \in Nat /\ y \in Nat
        BY <3>1 DEF Greatest
      <3> QED BY <2>1, <3>1, <3>2 DEF Greatest
    <2> QED BY <2>2, <2>3
  <1> HIDE DEF Good
  <1>2. (SUBSET S) \subseteq Good
    BY <1>1, SubsetInduction
  <1> QED BY <1>2 DEF Good

\* And a least one.
LEMMA LeastExists ==
  ASSUME NEW S, IsFiniteSet(S), S \subseteq Nat, S # {}
  PROVE  \E x : Least(S, x)
  <1> DEFINE Good == {T \in SUBSET S : T # {} => \E x : Least(T, x)}
  <1>1. ASSUME NEW T \in SUBSET S, \A U \in SUBSET T : U # T => U \in Good
        PROVE  T \in Good
    <2> SUFFICES ASSUME T # {} PROVE \E x : Least(T, x)
      OBVIOUS
    <2>1. PICK y \in T : TRUE
      OBVIOUS
    <2>2. CASE T = {y}
      BY <2>1, <2>2 DEF Least
    <2>3. CASE T # {y}
      <3>1. PICK x : Least(T \ {y}, x)
        BY <1>1, <2>1, <2>3
      <3>2. x \in Nat /\ y \in Nat
        BY <3>1 DEF Least
      <3> QED BY <2>1, <3>1, <3>2 DEF Least
    <2> QED BY <2>2, <2>3
  <1> HIDE DEF Good
  <1>2. (SUBSET S) \subseteq Good
    BY <1>1, SubsetInduction
  <1> QED BY <1>2 DEF Good

\* Which is what Min chooses: the first candidate (compareCandidates).
LEMMA MinIsLeast ==
  ASSUME NEW S, IsFiniteSet(S), S \subseteq Nat, S # {}
  PROVE  Least(S, Min(S))
  BY LeastExists DEF Least, Min
\* s is S in its order.
Enumerates(s, S) ==
  /\ s \in [1 .. Cardinality(S) -> S]
  /\ \A i, j \in 1 .. Cardinality(S) : i < j => s[i] < s[j]

\* A finite set of numbers can be sorted.
LEMMA EnumerationExists ==
  ASSUME NEW S, IsFiniteSet(S), S \subseteq Nat
  PROVE  \E s : Enumerates(s, S)
  <1> DEFINE Good == {T \in SUBSET S : \E s : Enumerates(s, T)}
  <1>1. ASSUME NEW T \in SUBSET S, \A U \in SUBSET T : U # T => U \in Good
        PROVE  T \in Good
    <2>1. CASE T = {}
      <3>1. Enumerates([i \in {} |-> 0], {})
        BY FS_EmptySet DEF Enumerates
      <3> QED BY <2>1, <3>1
    <2>2. CASE T # {}
      <3>1. IsFiniteSet(T) /\ T \subseteq Nat
        BY FS_Subset
      <3>2. PICK x : Greatest(T, x)
        BY <2>2, <3>1, GreatestExists
      <3> DEFINE U == T \ {x}
                 n == Cardinality(U)
      <3>3. PICK s : Enumerates(s, U)
        BY <1>1, <3>2 DEF Greatest
      <3>4. n \in Nat /\ Cardinality(T) = n + 1
        <4>1. IsFiniteSet(U) /\ T = U \cup {x} /\ x \notin U
          BY <3>1, <3>2, FS_Subset DEF Greatest
        <4> HIDE DEF U
        <4> QED BY <4>1, FS_AddElement, FS_CardinalityType
      <3> DEFINE t == [i \in 1 .. n + 1 |-> IF i = n + 1 THEN x ELSE s[i]]
      <3>5. s \in [1 .. n -> U] /\ \A i, j \in 1 .. n : i < j => s[i] < s[j]
        BY <3>3 DEF Enumerates
      <3>6. \A y \in U : y \in T /\ y < x
        BY <3>1, <3>2 DEF Greatest
      <3>7. x \in T
        BY <3>2 DEF Greatest
      <3> HIDE DEF n, U
      <3>8. Enumerates(t, T)
        BY <3>4, <3>5, <3>6, <3>7 DEF Enumerates
      <3> QED BY <3>8
    <2> QED BY <2>1, <2>2
  <1> HIDE DEF Good
  <1>2. (SUBSET S) \subseteq Good
    BY <1>1, SubsetInduction
  <1> QED BY <1>2 DEF Good

\* LeastFirst sorts it and leaves nobody out.
LEMMA LeastFirstEnumerates ==
  ASSUME NEW S, IsFiniteSet(S), S \subseteq Nat
  PROVE  /\ Cardinality(S) \in Nat
         /\ Enumerates(LeastFirst(S), S)
         /\ \A x \in S : \E i \in 1 .. Cardinality(S) : LeastFirst(S)[i] = x
  <1> DEFINE n == Cardinality(S)
             s == LeastFirst(S)
  <1>1. n \in Nat
    BY FS_CardinalityType
  <1>2. Enumerates(s, S)
    BY EnumerationExists DEF Enumerates, LeastFirst
  <1>3. s \in Injection(1 .. n, S)
    <2>1. s \in [1 .. n -> S] /\ \A i, j \in 1 .. n : i < j => s[i] < s[j]
      BY <1>2 DEF Enumerates
    <2>2. ASSUME NEW i \in 1 .. n, NEW j \in 1 .. n, s[i] = s[j] PROVE i = j
      <3> HIDE DEF n, s
      <3>1. s \in [1 .. n -> S]
        BY <2>1
      <3>2. s[i] \in S /\ s[j] \in S
        BY <3>1
      <3>3. s[i] \in Nat /\ s[j] \in Nat
        BY <3>2
      <3>4. i \in Nat /\ j \in Nat
        BY <1>1
      <3> QED BY <2>1, <2>2, <3>3, <3>4
    <2> HIDE DEF n, s
    <2> QED BY <2>1, <2>2 DEF Injection, IsInjective
  <1>4. s \in Surjection(1 .. n, S)
    <2>1. Cardinality(1 .. n) = Cardinality(S)
      BY <1>1, FS_Interval
    <2> QED BY <1>3, <2>1, FS_Injection
  <1> QED BY <1>1, <1>2, <1>4 DEF Surjection

\* What Without takes out of a sequence, and no more; the rest keeps its order.
LEMMA WithoutKeepsOrder ==
  ASSUME NEW T, NEW s \in Seq(T), NEW S
  PROVE  /\ Without(s, S) \in Seq(T)
         /\ Len(Without(s, S)) <= Len(s)
         /\ ToSet(Without(s, S)) = ToSet(s) \ S
         /\ \A i, j \in 1 .. Len(Without(s, S)) : i < j =>
              \E k, l \in 1 .. Len(s) :
                k < l /\ Without(s, S)[i] = s[k] /\ Without(s, S)[j] = s[l]
  <1> DEFINE K == {i \in DOMAIN s : s[i] \notin S}
             kept == LeastFirst(K)
             n == Cardinality(K)
             w == Without(s, S)
  <1>1. IsFiniteSet(K) /\ K \subseteq Nat /\ n <= Len(s)
    <2>1. K \in SUBSET (1 .. Len(s)) /\ Len(s) \in Nat
      OBVIOUS
    <2>2. IsFiniteSet(1 .. Len(s)) /\ Cardinality(1 .. Len(s)) = Len(s)
      BY <2>1, FS_Interval
    <2> HIDE DEF K
    <2>3. IsFiniteSet(K) /\ Cardinality(K) <= Cardinality(1 .. Len(s))
      BY <2>1, <2>2, FS_Subset
    <2>4. K \subseteq Nat
      BY <2>1
    <2> QED BY <2>2, <2>3, <2>4
  <1>2. /\ n \in Nat
        /\ kept \in [1 .. n -> K]
        /\ \A i, j \in 1 .. n : i < j => kept[i] < kept[j]
        /\ \A x \in K : \E i \in 1 .. n : kept[i] = x
    <2> HIDE DEF K
    <2> QED BY <1>1, LeastFirstEnumerates DEF Enumerates
  <1>3. w = [i \in 1 .. n |-> s[kept[i]]]
    <2>1. w = [i \in DOMAIN kept |-> s[kept[i]]]
      BY DEF Without
    <2>2. DOMAIN kept = 1 .. n
      BY <1>2
    <2> QED BY <2>1, <2>2
  <1>4. \A i \in K : i \in 1 .. Len(s) /\ s[i] \in T /\ s[i] \notin S
    OBVIOUS
  <1>5. ASSUME NEW i \in 1 .. Len(s), s[i] \notin S PROVE i \in K
    BY <1>5
  <1> HIDE DEF K, kept, n, w
  <1>6. w \in Seq(T) /\ Len(w) = n
    BY <1>2, <1>3, <1>4
  <1>7. ToSet(w) = ToSet(s) \ S
    <2>1. ASSUME NEW i \in 1 .. n PROVE w[i] \in ToSet(s) \ S
      BY <1>2, <1>3, <1>4 DEF ToSet
    <2>2. ASSUME NEW i \in 1 .. Len(s), s[i] \notin S PROVE s[i] \in ToSet(w)
      <3>1. PICK j \in 1 .. n : kept[j] = i
        BY <1>2, <1>5, <2>2
      <3> QED BY <1>2, <1>3, <3>1 DEF ToSet
    <2>3. DOMAIN w = 1 .. n /\ DOMAIN s = 1 .. Len(s)
      BY <1>3
    <2> QED BY <2>1, <2>2, <2>3 DEF ToSet
  <1>8. ASSUME NEW i \in 1 .. n, NEW j \in 1 .. n, i < j
        PROVE  \E k, l \in 1 .. Len(s) : k < l /\ w[i] = s[k] /\ w[j] = s[l]
    BY <1>2, <1>3, <1>4, <1>8
  <1> QED BY <1>1, <1>6, <1>7, <1>8 DEF w, n

\* Who waits for none of the others, and the first of them.
ReadyOf(todo) == {p \in todo : DependsOn[p] \cap todo = {}}
FirstReady(todo) == Min(ReadyOf(todo))

\* One step of the recursion, which goes on with f.
OrderBy(f, todo) ==
  IF ReadyOf(todo) = {} THEN LeastFirst(todo)
  ELSE <<FirstReady(todo)>> \o f[todo \ {FirstReady(todo)}]

\* The pull request toTopoOrder takes next is one that waits for none of the others.
LEMMA FirstReadyIsReady ==
  ASSUME NEW todo \in SUBSET Prs, ReadyOf(todo) # {}
  PROVE  FirstReady(todo) \in ReadyOf(todo)
  <1>1. ReadyOf(todo) \in SUBSET Prs
    BY DEF ReadyOf
  <1>2. IsFiniteSet(ReadyOf(todo)) /\ ReadyOf(todo) \subseteq Nat
    BY <1>1, PrsAssumption, FS_Subset
  <1> QED BY <1>2, MinIsLeast DEF FirstReady, Least

\* The recursion goes on with fewer.
LEMMA OneLess ==
  ASSUME NEW T \in SUBSET Prs, NEW x \in T
  PROVE  Cardinality(T \ {x}) \in Nat /\ Cardinality(T) = Cardinality(T \ {x}) + 1
  <1>1. IsFiniteSet(T)
    BY PrsAssumption, FS_Subset
  <1>2. IsFiniteSet(T \ {x}) /\ Cardinality(T \ {x}) = Cardinality(T) - 1
    BY <1>1, FS_RemoveElement
  <1> QED BY <1>1, <1>2, FS_CardinalityType

\* So some function answers it everywhere.
LEMMA OrderExists == \E f : f = [todo \in SUBSET Prs |-> OrderBy(f, todo)]
  <1> DEFINE Small(n) == {U \in SUBSET Prs : Cardinality(U) <= n}
             Good == {T \in SUBSET Prs :
                        \E f : f = [todo \in Small(Cardinality(T)) |-> OrderBy(f, todo)]}
  <1>1. ASSUME NEW T \in SUBSET Prs, \A U \in SUBSET T : U # T => U \in Good
        PROVE  T \in Good
    <2>1. CASE T = {}
      <3> DEFINE f == [todo \in Small(0) |-> LeastFirst(todo)]
      <3>1. ASSUME NEW todo \in Small(0) PROVE OrderBy(f, todo) = LeastFirst(todo)
        <4>1. IsFiniteSet(todo)
          BY PrsAssumption, FS_Subset
        <4>2. Cardinality(todo) = 0
          BY <4>1, FS_CardinalityType
        <4>3. todo = {}
          BY <4>1, <4>2, FS_EmptySet
        <4> QED BY <4>3 DEF OrderBy, ReadyOf
      <3>2. f = [todo \in Small(0) |-> OrderBy(f, todo)]
        BY <3>1
      <3>3. Cardinality(T) = 0
        BY <2>1, FS_EmptySet
      <3> QED BY <3>2, <3>3
    <2>2. CASE T # {}
      <3>1. PICK x \in T : TRUE
        BY <2>2
      <3> DEFINE n == Cardinality(T \ {x})
      <3>2. n \in Nat /\ Cardinality(T) = n + 1
        BY OneLess
      <3>3. PICK f : f = [todo \in Small(n) |-> OrderBy(f, todo)]
        BY <1>1
      <3> HIDE DEF n
      <3> DEFINE g == [todo \in Small(n + 1) |-> OrderBy(f, todo)]
      <3>4. ASSUME NEW todo \in Small(n + 1) PROVE OrderBy(f, todo) = OrderBy(g, todo)
        <4>1. CASE ReadyOf(todo) = {}
          BY <4>1 DEF OrderBy
        <4>2. CASE ReadyOf(todo) # {}
          <5> DEFINE rest == todo \ {FirstReady(todo)}
          <5>1. FirstReady(todo) \in todo
            BY <4>2, FirstReadyIsReady DEF ReadyOf
          <5>2. Cardinality(rest) \in Nat /\ Cardinality(todo) = Cardinality(rest) + 1
            BY <5>1, OneLess
          <5>3. rest \in Small(n) /\ rest \in Small(n + 1)
            BY <3>2, <5>2
          <5> HIDE DEF rest
          <5>4. g[rest] = OrderBy(f, rest) /\ f[rest] = OrderBy(f, rest)
            BY <3>3, <5>3
          <5> QED BY <4>2, <5>4 DEF OrderBy, rest
        <4> QED BY <4>1, <4>2
      <3>5. g = [todo \in Small(n + 1) |-> OrderBy(g, todo)]
        BY <3>4
      <3> QED BY <3>2, <3>5
    <2> QED BY <2>1, <2>2
  <1>2. (SUBSET Prs) \subseteq Good
    <2> HIDE DEF Good
    <2>1. IsFiniteSet(Prs)
      BY PrsAssumption
    <2> QED BY <1>1, <2>1, SubsetInduction
  <1>3. Small(Cardinality(Prs)) = SUBSET Prs
    BY PrsAssumption, FS_Subset
  <1>4. Prs \in Good
    BY <1>2
  <1> QED BY <1>3, <1>4

\* And TopoOrder is such a function.
LEMMA TopoOrderStep == \A todo \in SUBSET Prs : TopoOrder[todo] = OrderBy(TopoOrder, todo)
  <1>1. TopoOrder = [todo \in SUBSET Prs |-> OrderBy(TopoOrder, todo)]
    BY OrderExists DEF TopoOrder, OrderBy, ReadyOf, FirstReady
  <1> HIDE DEF TopoOrder
  <1> QED BY <1>1

\* p waits, in the end, for a circle of dependencies.
Knotted(p) == \E K \in SUBSET Prs : p \in K /\ \A q \in K : DependsOn[q] \cap K # {}

\* order has every pull request of todo once, and none before one that it depends on, unless
\* it waits for a cycle.
IsOrderOf(order, todo) ==
  /\ order \in Seq(todo)
  /\ ToSet(order) = todo
  /\ \A i, j \in 1 .. Len(order) : i < j => order[i] # order[j]
  /\ \A i, j \in 1 .. Len(order) :
       i < j /\ order[j] \in DependsOn[order[i]] => Knotted(order[i])

\* toTopoOrder (:607-646) for any dependencies.
LEMMA TopoOrderOrders == \A todo \in SUBSET Prs : IsOrderOf(TopoOrder[todo], todo)
  <1> DEFINE Good == {T \in SUBSET Prs : IsOrderOf(TopoOrder[T], T)}
  <1>1. ASSUME NEW T \in SUBSET Prs, \A U \in SUBSET T : U # T => U \in Good
        PROVE  T \in Good
    <2>1. IsFiniteSet(T) /\ T \subseteq Nat
      BY PrsAssumption, FS_Subset
    <2>2. CASE ReadyOf(T) = {}
      <3> DEFINE n == Cardinality(T)
                 s == LeastFirst(T)
      <3>1. TopoOrder[T] = s
        BY <2>2, TopoOrderStep DEF OrderBy
      <3>2. /\ n \in Nat
            /\ s \in [1 .. n -> T]
            /\ \A i, j \in 1 .. n : i < j => s[i] < s[j]
            /\ \A x \in T : \E i \in 1 .. n : s[i] = x
        BY <2>1, LeastFirstEnumerates DEF Enumerates
      <3>3. \A p \in T : Knotted(p)
        BY <2>2 DEF ReadyOf, Knotted
      <3> HIDE DEF n, s
      <3>4. s \in Seq(T) /\ Len(s) = n /\ DOMAIN s = 1 .. n
        BY <3>2
      <3>5. ToSet(s) = T
        BY <3>2, <3>4 DEF ToSet
      <3>6. ASSUME NEW i \in 1 .. n, NEW j \in 1 .. n, i < j PROVE s[i] # s[j]
        <4>1. s[i] \in T /\ s[j] \in T /\ s[i] < s[j]
          BY <3>2, <3>6
        <4>2. s[i] \in Nat /\ s[j] \in Nat
          BY <2>1, <4>1
        <4> QED BY <4>1, <4>2
      <3>7. \A i \in 1 .. n : Knotted(s[i])
        BY <3>2, <3>3
      <3> QED BY <3>1, <3>4, <3>5, <3>6, <3>7 DEF IsOrderOf
    <2>3. CASE ReadyOf(T) # {}
      <3> DEFINE p == FirstReady(T)
                 rest == TopoOrder[T \ {p}]
                 s == <<p>> \o rest
      <3>1. TopoOrder[T] = s
        BY <2>3, TopoOrderStep DEF OrderBy
      <3>2. p \in T /\ DependsOn[p] \cap T = {}
        BY <2>3, FirstReadyIsReady DEF ReadyOf
      <3>3. IsOrderOf(rest, T \ {p})
        BY <1>1, <3>2
      <3> HIDE DEF p, rest
      <3>4. rest \in Seq(T \ {p}) /\ rest \in Seq(T)
        BY <3>3 DEF IsOrderOf
      <3>5. /\ s \in Seq(T) /\ Len(s) = 1 + Len(rest) /\ Len(rest) \in Nat
            /\ s[1] = p
            /\ \A i \in 1 .. Len(rest) : rest[i] \in T \ {p} /\ s[i + 1] = rest[i]
        BY <3>2, <3>4
      <3> HIDE DEF s
      <3>6. ToSet(s) = T
        <4>1. \A x \in T \ {p} : \E i \in 1 .. Len(rest) : rest[i] = x
          BY <3>3, <3>4 DEF IsOrderOf, ToSet
        <4>2. DOMAIN s = 1 .. 1 + Len(rest)
          BY <3>5
        <4>3. ASSUME NEW x \in T PROVE \E i \in 1 .. 1 + Len(rest) : s[i] = x
          <5>1. CASE x = p
            BY <3>5, <5>1
          <5>2. CASE x # p
            <6>1. PICK i \in 1 .. Len(rest) : rest[i] = x
              BY <4>1, <5>2
            <6>2. i + 1 \in 1 .. 1 + Len(rest)
              BY <3>5
            <6> QED BY <3>5, <6>1, <6>2
          <5> QED BY <5>1, <5>2
        <4>4. \A i \in 1 .. 1 + Len(rest) : s[i] \in T
          BY <3>5
        <4> QED BY <4>2, <4>3, <4>4 DEF ToSet
      <3>7. ASSUME NEW i \in 1 .. Len(s), NEW j \in 1 .. Len(s), i < j
            PROVE  /\ s[i] # s[j]
                   /\ s[j] \in DependsOn[s[i]] => Knotted(s[i])
        <4>1. j - 1 \in 1 .. Len(rest) /\ s[j] = rest[j - 1] /\ s[j] \in T \ {p}
          <5>1. j - 1 \in 1 .. Len(rest) /\ (j - 1) + 1 = j
            BY <3>5, <3>7
          <5> QED BY <3>5, <5>1
        <4>2. CASE i = 1
          BY <3>2, <3>5, <4>1, <4>2
        <4>3. CASE i # 1
          <5>1. i - 1 \in 1 .. Len(rest) /\ s[i] = rest[i - 1] /\ i - 1 < j - 1
            <6>1. i - 1 \in 1 .. Len(rest) /\ (i - 1) + 1 = i /\ i - 1 < j - 1
              BY <3>5, <3>7, <4>3
            <6> QED BY <3>5, <6>1
          <5> QED BY <3>3, <4>1, <5>1 DEF IsOrderOf
        <4> QED BY <4>2, <4>3
      <3> QED BY <3>1, <3>5, <3>6, <3>7 DEF IsOrderOf
    <2> QED BY <2>2, <2>3
  <1> HIDE DEF Good
  <1>2. (SUBSET Prs) \subseteq Good
    <2>1. IsFiniteSet(Prs)
      BY PrsAssumption
    <2> QED BY <1>1, <2>1, SubsetInduction
  <1> QED BY <1>2 DEF Good

--------------------------------------------------------------------------------
Counts == [Prs -> 0 .. 2]

\* Pointwise.
AtMost(some, others) == \A p \in Prs : some[p] <= others[p]

\* What a pass remembers, and what it reported, did happen; between passes nothing is
\* remembered but the file.
Remembered ==
  /\ "step" \in DOMAIN pass
  /\ memory \in Counts /\ history \in Counts /\ failures \in Counts
  /\ AtMost(memory, failures)
  /\ AtMost(history, failures)
  /\ pass.step = "idle" => memory = NoFailures

countVars == <<pass, memory, history, failures>>

\* An empty history counts no more than any other.
LEMMA NoneAreFewest == NoFailures \in Counts /\ \A f \in Counts : AtMost(NoFailures, f)
  BY DEF NoFailures, Counts, AtMost

\* A pass that is over is idle.
LEMMA IdleHasAStep == "step" \in DOMAIN Idle /\ Idle.step = "idle"
  BY DEF Idle

\* One more failure, in the memory and among those that happened.
LEMMA AnotherOfBoth ==
  ASSUME NEW f \in Counts, NEW g \in Counts, AtMost(f, g), NEW p
  PROVE  /\ Another(f, p) \in Counts /\ Another(g, p) \in Counts
         /\ AtMost(Another(f, p), Another(g, p))
  <1>1. Another(f, p) \in Counts /\ Another(g, p) \in Counts
    <2>1. \A h \in Counts : p \in Prs => Another(h, p) \in Counts
      BY DEF Counts, Another, TwoAtMost
    <2>2. \A h \in Counts : p \notin Prs => Another(h, p) = h
      BY DEF Counts, Another
    <2> QED BY <2>1, <2>2
  <1>2. ASSUME NEW q \in Prs PROVE Another(f, p)[q] <= Another(g, p)[q]
    <2>1. f[q] \in 0 .. 2 /\ g[q] \in 0 .. 2 /\ f[q] <= g[q]
      BY DEF Counts, AtMost
    <2>2. CASE q = p
      BY <2>1, <2>2 DEF Counts, Another, TwoAtMost
    <2>3. CASE q # p
      BY <2>1, <2>3 DEF Counts, Another, TwoAtMost
    <2> QED BY <2>2, <2>3
  <1> QED BY <1>1, <1>2 DEF AtMost

\* Nothing is remembered before the first pass.
LEMMA RememberedInit == Init => Remembered
  BY NoneAreFewest, IdleHasAStep DEF Init, Remembered

\* Steps that touch no count keep the invariant.
LEMMA RememberedStays == Remembered /\ UNCHANGED countVars => Remembered'
  BY DEF Remembered, countVars, AtMost, Counts, NoFailures

\* A lost or torn file, a cancelled pass and the pruning of old failures only forget.
LEMMA RememberedStep == Remembered /\ [Next]_vars => Remembered'
  <1> SUFFICES ASSUME Remembered, [Next]_vars PROVE Remembered'
    OBVIOUS
  <1>1. ASSUME NEW weather \in Weathers, NEW acts, NEW fresh \in BOOLEAN, NEW blind,
               StartPass(weather, acts, fresh, blind)
        PROVE  Remembered'
    <2>1. memory' \in {NoFailures, history} /\ UNCHANGED <<history, failures>>
      BY <1>1 DEF StartPass, fileVars
    <2>2. "step" \in DOMAIN pass' /\ pass'.step # "idle"
      BY <1>1 DEF StartPass, Reports, Idle
    <2> QED BY <2>1, <2>2, NoneAreFewest DEF Remembered, AtMost
  <1>2. CASE Admit
    <2>1. UNCHANGED <<memory, history, failures>> /\ pass.step = "admit"
      BY <1>2 DEF Admit, fileVars
    <2>2. "step" \in DOMAIN pass' /\ pass'.step # "idle"
      BY <1>2 DEF Admit, Reports, PassGoto, Idle, Remembered
    <2> QED BY <2>1, <2>2 DEF Remembered, AtMost
  <1>3. CASE Sync
    BY <1>3, RememberedStays DEF Sync, passVars, fileVars, countVars
  <1>4. CASE Enqueued
    <2>1. UNCHANGED <<history, failures>> /\ memory' = [memory EXCEPT ![Head(plan)] = 0]
      BY <1>4 DEF Enqueued, fileVars
    <2>2. "step" \in DOMAIN pass' /\ pass'.step # "idle"
      BY <1>4 DEF Enqueued, NextInPlan, Remembered
    <2>3. memory' \in Counts
      <3>1. CASE Head(plan) \in Prs
        BY <2>1, <3>1 DEF Remembered, Counts
      <3>2. CASE Head(plan) \notin Prs
        BY <2>1, <3>2 DEF Remembered, Counts
      <3> QED BY <3>1, <3>2
    <2>4. AtMost(memory', failures)
      BY <2>1 DEF Remembered, AtMost, Counts
    <2> QED BY <2>1, <2>2, <2>3, <2>4 DEF Remembered, AtMost
  <1>5. CASE UpdateBranch
    <2>1. UNCHANGED <<memory, history, failures>> /\ pass.step = "sync"
      BY <1>5 DEF UpdateBranch, fileVars
    <2>2. "step" \in DOMAIN pass' /\ pass'.step = "sync"
      BY <1>5, <2>1 DEF UpdateBranch, Remembered
    <2> QED BY <2>1, <2>2 DEF Remembered, AtMost
  <1>6. CASE Refused
    <2>1. /\ UNCHANGED history
          /\ memory' = Another(memory, Head(plan))
          /\ failures' = Another(failures, Head(plan))
      BY <1>6 DEF Refused, fileVars
    <2>2. "step" \in DOMAIN pass' /\ pass'.step # "idle"
      BY <1>6 DEF Refused, NextInPlan, Remembered
    <2>3. AtMost(history, failures)'
      BY <2>1 DEF Remembered, AtMost, Counts, Another, TwoAtMost
    <2> QED BY <2>1, <2>2, <2>3, AnotherOfBoth DEF Remembered
  <1>7. CASE Report
    <2>1. history' = memory /\ UNCHANGED <<memory, failures>>
      BY <1>7 DEF Report
    <2>2. "step" \in DOMAIN pass' /\ pass'.step # "idle"
      BY <1>7 DEF Report, PassGoto, Remembered
    <2> QED BY <2>1, <2>2 DEF Remembered, AtMost
  <1>8. CASE State
    <2>1. memory' = NoFailures /\ UNCHANGED <<history, failures>> /\ pass' = Idle
      BY <1>8 DEF State, EndPass
    <2> QED BY <2>1, NoneAreFewest, IdleHasAStep DEF Remembered, AtMost
  <1>9. CASE Cancel
    <2>1. /\ memory' = NoFailures /\ history' \in {NoFailures, history}
          /\ UNCHANGED failures /\ pass' = Idle
      BY <1>9 DEF Cancel, EndPass
    <2> QED BY <2>1, NoneAreFewest, IdleHasAStep DEF Remembered, AtMost
  <1>10. ASSUME NEW p \in Prs, Expire(p) PROVE Remembered'
    <2>1. /\ pass.step = "idle" /\ failures[p] > 0 /\ UNCHANGED <<pass, memory>>
          /\ failures' = [failures EXCEPT ![p] = failures[p] - 1]
          /\ history' = [history EXCEPT ![p] = IF history[p] > failures'[p]
                                                 THEN failures'[p] ELSE history[p]]
      BY <1>10 DEF Expire, passVars
    <2>2. failures' \in Counts /\ history' \in Counts /\ AtMost(history', failures')
      BY <2>1 DEF Remembered, Counts, AtMost
    <2> QED BY <2>1, <2>2, NoneAreFewest DEF Remembered, AtMost, NoFailures
  <1>11. CASE Apart
    BY <1>11, RememberedStays DEF Apart, passVars, fileVars, countVars
  <1>12. CASE UNCHANGED vars
    BY <1>12, RememberedStays DEF vars, passVars, fileVars, countVars
  <1> QED
    BY <1>1, <1>2, <1>3, <1>4, <1>5, <1>6, <1>7, <1>8, <1>9, <1>10, <1>11, <1>12
    DEF Next, Starts, PassStep

\* What others do to the labels: take them off.
LEMMA OthersUnlabel ==
  (External \/ RefreshNext) => quarantined' \subseteq quarantined
  <1>1. External => quarantined' \subseteq quarantined
    BY DEF External, ChecksPass, ReviewClears, Setback, Unlabel, Promotes, QueueAdvances,
           AutoEnqueues, Lands, labels
  <1>2. RefreshNext => quarantined' \subseteq quarantined
    BY DEF RefreshNext, RefreshStep, StartRefresh, LookAtPr, Dequeue, Poll, Push, Requeue,
           KillRefresh, MergeSync, View, MergeCall, Verify, prVars, github, labels
  <1> QED BY <1>1, <1>2

\* Only a pass that gave a pull request up labels it.
LEMMA OnlyRefusedQuarantines ==
  [Next]_vars /\ ~Refused => quarantined' \subseteq quarantined
  <1>1. ASSUME NEW weather, NEW acts, NEW fresh, NEW blind,
               StartPass(weather, acts, fresh, blind)
        PROVE  UNCHANGED quarantined
    BY <1>1 DEF StartPass, github, labels
  <1>2. Admit \/ Sync => UNCHANGED quarantined
    BY DEF Admit, Sync, MergeSync, View, MergeCall, Verify, github, labels
  <1>3. Enqueued \/ UpdateBranch => UNCHANGED quarantined
    BY DEF Enqueued, UpdateBranch, labels
  <1>4. Report \/ State \/ Cancel => UNCHANGED quarantined
    BY DEF Report, State, Cancel, refreshVars, prVars, github, labels
  <1>5. (\E p \in Prs : Expire(p)) => UNCHANGED quarantined
    BY DEF Expire, refreshVars, prVars, github, labels
  <1>6. UNCHANGED vars => UNCHANGED quarantined
    BY DEF vars, refreshVars, prVars, github, labels
  <1> QED
    BY <1>1, <1>2, <1>3, <1>4, <1>5, <1>6, OthersUnlabel DEF Next, Starts, PassStep

\* What the label is given for did happen.
LEMMA QuarantinesStep == Remembered /\ [Next]_vars => Quarantines
  <1>1. ASSUME Remembered, Refused, NEW p \in Prs, p \in quarantined' \ quarantined
        PROVE  failures'[p] >= 2
    <2> DEFINE q == Head(plan)
    <2>1. memory' = Another(memory, q) /\ failures' = Another(failures, q) /\ Labels(q)
      BY <1>1 DEF Refused
    <2>2. p = q /\ memory'[q] >= 2
      BY <1>1, <2>1 DEF Labels
    <2>3. memory' \in Counts /\ failures' \in Counts /\ AtMost(memory', failures')
      BY <1>1, <2>1, AnotherOfBoth DEF Remembered
    <2> QED BY <2>2, <2>3 DEF AtMost, Counts
  <1> QED BY <1>1, OnlyRefusedQuarantines DEF Quarantines

\* Whatever files are lost, aged or left by cancelled passes, a pull request gets
\* queue-quarantine only with two failures within a day (:2027-2041).
THEOREM EarnedQuarantine == Spec => QuarantineIsEarned
  <1>1. Spec => []Remembered
    BY RememberedInit, RememberedStep, PTL DEF Spec
  <1>2. Remembered /\ [Next]_vars => [Quarantines]_vars
    BY QuarantinesStep
  <1> QED BY <1>1, <1>2, PTL DEF Spec, QuarantineIsEarned

--------------------------------------------------------------------------------
\* What a run of merge-sync is.
SyncRuns == [pr : Prs \cup {0}, step : SyncSteps, before : BOOLEAN]

\* An entry that leaves the merge queue disturbs no other.
LEMMA DequeuedType ==
  ASSUME queue \in Seq(Prs), NEW p
  PROVE  /\ Dequeued(p) \in Seq(Prs)
         /\ ToSet(Dequeued(p)) = Queued \ {p}
         /\ \A i, j \in 1 .. Len(Dequeued(p)) : i < j =>
              \E k, l \in 1 .. Len(queue) :
                k < l /\ Dequeued(p)[i] = queue[k] /\ Dequeued(p)[j] = queue[l]
  <1> DEFINE w == Without(queue, {p})
  <1>1. w \in Seq(Prs)
    BY WithoutKeepsOrder
  <1>2. ToSet(w) = ToSet(queue) \ {p}
    BY WithoutKeepsOrder
  <1>3. \A i, j \in 1 .. Len(w) : i < j =>
          \E k, l \in 1 .. Len(queue) : k < l /\ w[i] = queue[k] /\ w[j] = queue[l]
    BY WithoutKeepsOrder
  <1>4. Dequeued(p) = w /\ Queued = ToSet(queue)
    BY DEF Dequeued, Queued
  <1> HIDE DEF w
  <1> QED BY <1>1, <1>2, <1>3, <1>4

\* The first entry of a queue or of a plan, and the others.
LEMMA HeadOfQueue ==
  ASSUME NEW s \in Seq(Prs), s # <<>>
  PROVE  Head(s) \in Prs /\ Head(s) \in ToSet(s) /\ Tail(s) \in Seq(Prs)
  <1>1. Len(s) \in Nat /\ Len(s) # 0 /\ Head(s) = s[1]
    OBVIOUS
  <1> QED BY <1>1 DEF ToSet

\* merge-sync keeps to its pull request.
LEMMA MergeSyncTypes ==
  ASSUME PrTypeOK, NEW x \in Callers, NEW metered, MergeSync(x, metered)
  PROVE  /\ PrTypeOK'
         /\ sync'[x].pr = sync[x].pr
         /\ \A y \in Callers : y # x => sync'[y] = sync[y]
  <1> DEFINE p == sync[x].pr
  <1>1. sync \in [Callers -> SyncRuns] /\ sync[x].step # "none" /\ p \in Prs
    BY DEF PrTypeOK, SyncRuns, MergeSync, View, MergeCall, Verify, SyncIs
  <1> DEFINE Goes(step) == sync' = [sync EXCEPT ![x].step = step]
             Merges(b) == sync' = [sync EXCEPT ![x].step = "merge", ![x].before = b]
             Kept == /\ sync' \in [Callers -> SyncRuns]
                     /\ \A y \in Callers : sync'[y].step # "none" => sync'[y].pr \in Prs
                     /\ sync'[x].pr = p
                     /\ \A y \in Callers : y # x => sync'[y] = sync[y]
  <1>2. ASSUME NEW step \in SyncSteps, Goes(step) PROVE Kept
    BY <1>1, <1>2 DEF PrTypeOK, SyncRuns
  <1>3. ASSUME NEW b \in BOOLEAN, Merges(b) PROVE Kept
    BY <1>1, <1>3 DEF PrTypeOK, SyncRuns, SyncSteps
  <1> HIDE DEF Kept, Goes, Merges
  <1>4. CASE View(x)
    <2>1. Goes("ok") \/ Goes("failed") \/ Merges(p \in InFlight)
      BY <1>4 DEF View, SyncGoto, Goes, Merges
    <2>2. UNCHANGED <<github, unmetered>> /\ mishaps' \in Nat
      BY <1>4 DEF View, Mishap, PrTypeOK
    <2>3. Goes("ok") \/ Goes("failed") => Kept
      BY <1>2 DEF SyncSteps
    <2>4. Merges(p \in InFlight) => Kept
      <3> DEFINE b == p \in InFlight
      <3>1. b \in BOOLEAN
        OBVIOUS
      <3> HIDE DEF b
      <3>2. Merges(b) => Kept
        BY <1>3, <3>1
      <3> QED BY <3>2 DEF b
    <2>5. Kept
      BY <2>1, <2>3, <2>4
    <2> QED BY <2>2, <2>5 DEF PrTypeOK, github, heads, labels, SyncRuns, Kept
  <1>5. CASE MergeCall(x, metered)
    <2>1. Goes("verify") \/ Goes("failed")
      BY <1>5 DEF MergeCall, SyncGoto, Goes
    <2>2. mishaps' \in Nat /\ UNCHANGED <<merged, heads, labels>>
      BY <1>5 DEF MergeCall, Mishap, PrTypeOK
    <2>3. /\ queue' \in {queue, Append(queue, p)}
          /\ auto' \in {auto, auto \cup {p}}
          /\ pending' \in {pending, pending \cup {p}}
          /\ unmetered' \in {unmetered, unmetered \cup {p}, unmetered \ {p}}
      BY <1>5 DEF MergeCall, Promoted
    <2>4. /\ queue' \in Seq(Prs) /\ auto' \subseteq Prs /\ pending' \subseteq Prs
          /\ unmetered' \subseteq Prs
      BY <1>1, <2>3 DEF PrTypeOK
    <2>5. Kept
      BY <1>2, <2>1 DEF SyncSteps
    <2> QED BY <2>2, <2>4, <2>5 DEF PrTypeOK, heads, labels, SyncRuns, Kept
  <1>6. CASE Verify(x)
    <2>1. Goes("ok") \/ Goes("failed")
      BY <1>6 DEF Verify, SyncGoto, Goes
    <2>2. UNCHANGED <<github, unmetered, mishaps>>
      BY <1>6 DEF Verify
    <2>3. Kept
      BY <1>2, <2>1 DEF SyncSteps
    <2> QED BY <2>2, <2>3 DEF PrTypeOK, github, heads, labels, SyncRuns, Kept
  <1> QED BY <1>4, <1>5, <1>6 DEF MergeSync

\* A merge-sync that ends takes out of the count what it did not see land.
LEMMA EndSyncMeters ==
  ASSUME PrTypeOK, NEW x, EndSync(x)
  PROVE  unmetered' \subseteq Prs /\ unmetered \subseteq unmetered'
  BY DEF EndSync, PrTypeOK

\* A new head keeps the types.
LEMMA NewHeadTypes ==
  ASSUME PrTypeOK, NEW p, NewHead(p)
  PROVE  /\ queue' \in Seq(Prs) /\ sound' \subseteq Prs /\ reviewed' \subseteq Prs
         /\ behind' \subseteq Prs
  BY DequeuedType DEF NewHead, PrTypeOK

\* So do GitHub and the authors, who touch no merge-sync.
LEMMA ExternalTypes ==
  ASSUME PrTypeOK, External
  PROVE  PrTypeOK' /\ UNCHANGED sync
  <1>1. ASSUME NEW p \in Prs, ChecksPass(p) \/ ReviewClears(p) \/ Unlabel(p) \/ AutoEnqueues(p)
        PROVE  PrTypeOK' /\ UNCHANGED sync
    BY <1>1 DEF ChecksPass, ReviewClears, Unlabel, AutoEnqueues, Mishap, PrTypeOK, heads, labels
  <1>2. ASSUME NEW p \in Prs, Lands(p) PROVE PrTypeOK' /\ UNCHANGED sync
    <2>1. /\ queue' \in {queue, Append(queue, p)} /\ auto' \in {auto, auto \cup {p}}
          /\ pending' = pending \ {p}
          /\ UNCHANGED <<merged, heads, labels, sync, unmetered, mishaps>>
      BY <1>2 DEF Lands, Promoted
    <2>2. queue' \in Seq(Prs) /\ auto' \subseteq Prs /\ pending' \subseteq Prs
      BY <2>1 DEF PrTypeOK
    <2> QED BY <2>1, <2>2 DEF PrTypeOK, heads, labels
  <1>3. ASSUME NEW p \in Prs, Setback(p) PROVE PrTypeOK' /\ UNCHANGED sync
    <2>1. /\ queue' \in Seq(Prs) /\ sound' \subseteq Prs /\ reviewed' \subseteq Prs
          /\ behind' \subseteq Prs /\ mishaps' \in Nat
      BY <1>3, NewHeadTypes DEF Setback, Mishap, PrTypeOK
    <2> QED BY <1>3, <2>1 DEF Setback, PrTypeOK, labels
  <1>4. CASE QueueAdvances
    <2>1. Head(queue) \in Prs /\ queue' \in Seq(Prs)
      BY <1>4, HeadOfQueue DEF QueueAdvances, PrTypeOK
    <2> QED BY <1>4, <2>1 DEF QueueAdvances, PrTypeOK, labels
  <1> QED BY <1>1, <1>2, <1>3, <1>4 DEF External, Promotes

\* What a pass may want.
Moods == {"stabilize", "guarded", "healthy"}

\* Each rank above 0 is that of a mode.
LEMMA ModeOfRank == \A r \in 1 .. 3 : ModeOf[r] \in Moods
  <1>1. DOMAIN Rank = {"none", "stabilize", "guarded", "healthy"}
    BY DEF Rank
  <1>2. /\ Rank["none"] = 0 /\ Rank["stabilize"] = 1
        /\ Rank["guarded"] = 2 /\ Rank["healthy"] = 3
    BY DEF Rank
  <1>3. \A r \in 1 .. 3 : \E m \in DOMAIN Rank : Rank[m] = r
    BY <1>1, <1>2
  <1>4. \A r \in 1 .. 3 : ModeOf[r] \in DOMAIN Rank /\ Rank[ModeOf[r]] = r
    BY <1>3 DEF ModeOf
  <1> QED BY <1>1, <1>2, <1>4 DEF Moods

\* evaluateHysteresis gives a mode and a streak, whatever the controller file holds.
LEMMA HysteresisType ==
  ASSUME NEW desired \in Moods, NEW file \in States
  PROVE  Hysteresis(desired, file) \in States
  <1> DEFINE previous == Rank[file.mode]
             next == IF Rank[desired] > previous + 1 THEN previous + 1 ELSE Rank[desired]
             streak == PreviousStreak(file) + 1
  <1>1. Hysteresis(desired, file)
          = IF file.mode = "none" THEN [mode |-> desired, streak |-> 0]
            ELSE IF next <= previous \/ streak >= 2 THEN [mode |-> ModeOf[next], streak |-> 0]
            ELSE [mode |-> file.mode, streak |-> streak]
    BY DEF Hysteresis
  <1>2. Modes = {"none", "stabilize", "guarded", "healthy"}
    BY DEF Modes, Rank
  <1>3. /\ Rank["none"] = 0 /\ Rank["stabilize"] = 1
        /\ Rank["guarded"] = 2 /\ Rank["healthy"] = 3
    BY DEF Rank
  <1>4. file.mode \in Modes
    BY DEF States
  <1>5. streak = 1
    BY DEF PreviousStreak
  <1>6. ASSUME file.mode # "none" PROVE next \in 1 .. 3
    BY <1>2, <1>3, <1>4, <1>6 DEF Moods
  <1>7. desired \in Modes
    BY <1>2 DEF Moods
  <1> HIDE DEF next, streak, previous
  <1>8. ASSUME file.mode # "none" PROVE ModeOf[next] \in Modes
    BY <1>2, <1>6, <1>8, ModeOfRank DEF Moods
  <1> QED BY <1>1, <1>4, <1>5, <1>7, <1>8 DEF States

\* Some mode is wanted, whatever the weather and the counts.
LEMMA DesiredIsAMood ==
  ASSUME NEW weather, NEW a, NEW b, NEW c, NEW d
  PROVE  DesiredMode(weather, a, b, c, d) \in Moods
  BY DEF DesiredMode, Moods

\* No cap is above --max-inflight.
LEMMA CapsType == \A mode : Caps(mode) \subseteq 0 .. MaxInflight
  <1>1. GuardedCap \in 0 .. MaxInflight
    BY CapsAssumption DEF GuardedCap
  <1>2. MinInflight \in 0 .. MaxInflight /\ MaxInflight \in 0 .. MaxInflight
    BY CapsAssumption
  <1>3. \A mode : CapOf(mode) \in {MaxInflight, GuardedCap, MinInflight}
    BY DEF CapOf
  <1> QED BY <1>1, <1>2, <1>3 DEF Caps

\* A running refresh has a pull request.
RefreshOfAPr == refresh.step # "idle" => refresh.pr \in Prs

\* A queue refresh keeps the types, and never touches the merge-sync of a pass.
LEMMA RefreshTypes ==
  ASSUME PrTypeOK, RefreshTypeOK, RefreshOfAPr, RefreshNext
  PROVE  PrTypeOK' /\ RefreshTypeOK' /\ RefreshOfAPr' /\ sync'["supervisor"] = sync["supervisor"]
  <1> DEFINE p == refresh.pr
             Runs == [pr : Prs \cup {0}, step : RefreshSteps]
             Stays == RefreshTypeOK' /\ RefreshOfAPr'
             SameSync == sync'["supervisor"] = sync["supervisor"]
  <1>1. refresh \in Runs
    BY DEF RefreshTypeOK
  <1>2. ASSUME RefreshEnds PROVE Stays
    BY <1>2 DEF RefreshEnds, RefreshTypeOK, RefreshOfAPr, RefreshSteps
  <1>3. ASSUME NEW step \in RefreshSteps, RefreshGoto(step), refresh.step # "idle" PROVE Stays
    BY <1>1, <1>3 DEF RefreshGoto, RefreshTypeOK, RefreshOfAPr
  <1>4. ASSUME UNCHANGED prVars PROVE PrTypeOK' /\ SameSync
    BY <1>4 DEF prVars, github, heads, labels, PrTypeOK
  <1>5. sync \in [Callers -> SyncRuns]
    BY DEF PrTypeOK, SyncRuns
  <1> DEFINE SyncOK == /\ sync' \in [Callers -> SyncRuns]
                       /\ \A x \in Callers : sync'[x].step # "none" => sync'[x].pr \in Prs
  <1>6. ASSUME StartSync("refresh", p) \/ EndSync("refresh"), p \in Prs
        PROVE  SyncOK /\ SameSync
    <2> DEFINE run == sync'["refresh"]
    <2>1. run \in SyncRuns /\ (run.step # "none" => run.pr \in Prs)
      <3>1. \/ run = [pr |-> p, step |-> "view", before |-> FALSE]
            \/ run = [pr |-> 0, step |-> "none", before |-> FALSE]
        BY <1>5, <1>6 DEF StartSync, EndSync, Callers
      <3>2. /\ [pr |-> p, step |-> "view", before |-> FALSE] \in SyncRuns
            /\ [pr |-> 0, step |-> "none", before |-> FALSE] \in SyncRuns
        BY <1>6 DEF SyncRuns, SyncSteps
      <3> HIDE DEF run
      <3>3. run \in SyncRuns
        BY <3>1, <3>2
      <3>4. run.step # "none" => run.pr \in Prs
        BY <1>6, <3>1
      <3> QED BY <3>3, <3>4
    <2>2. sync' = [sync EXCEPT !["refresh"] = run]
      BY <1>5, <1>6 DEF StartSync, EndSync, Callers
    <2> HIDE DEF run
    <2>3. sync' \in [Callers -> SyncRuns]
      BY <1>5, <2>1, <2>2
    <2>4. SameSync
      BY <1>5, <2>2 DEF Callers
    <2>5. \A x \in Callers : sync'[x].step # "none" => sync'[x].pr \in Prs
      BY <1>5, <2>1, <2>2 DEF PrTypeOK
    <2> QED BY <2>3, <2>4, <2>5
  <1> HIDE DEF Stays
  <1>7. ASSUME NEW q \in Prs, StartRefresh(q) PROVE PrTypeOK' /\ Stays /\ SameSync
    <2>1. UNCHANGED <<github, sync, unmetered>> /\ mishaps' \in Nat
      BY <1>7 DEF StartRefresh, Mishap, PrTypeOK
    <2>2. Stays
      BY <1>7 DEF StartRefresh, Stays, RefreshTypeOK, RefreshOfAPr, RefreshSteps
    <2> QED BY <2>1, <2>2 DEF github, heads, labels, PrTypeOK
  <1>8. CASE LookAtPr
    <2>1. refresh.step # "idle" /\ (RefreshGoto("dequeue") \/ RefreshEnds) /\ UNCHANGED prVars
      BY <1>8 DEF LookAtPr, Refreshing
    <2>2. Stays
      BY <1>2, <1>3, <2>1 DEF RefreshSteps
    <2> QED BY <1>4, <2>1, <2>2 DEF Stays
  <1>9. CASE Dequeue
    <2>1. queue' \in Seq(Prs)
      BY <1>9, DequeuedType DEF Dequeue, PrTypeOK
    <2>2. refresh.step # "idle" /\ (RefreshGoto("poll") \/ RefreshEnds)
      BY <1>9 DEF Dequeue, Refreshing
    <2>3. Stays
      BY <1>2, <1>3, <2>2 DEF RefreshSteps
    <2>4. UNCHANGED <<merged, auto, pending, heads, labels, sync, unmetered, mishaps>>
      BY <1>9 DEF Dequeue
    <2>5. PrTypeOK'
      BY <2>1, <2>4 DEF heads, labels, PrTypeOK
    <2> QED BY <2>3, <2>4, <2>5 DEF Stays
  <1>10. CASE Poll
    <2>1. refresh.step # "idle" /\ (RefreshGoto("push") \/ RefreshEnds) /\ UNCHANGED prVars
      BY <1>10 DEF Poll, Refreshing
    <2>2. Stays
      BY <1>2, <1>3, <2>1 DEF RefreshSteps
    <2> QED BY <1>4, <2>1, <2>2 DEF Stays
  <1>11. CASE Push
    <2>1. p \in Prs /\ refresh.step # "idle" /\ (RefreshGoto("requeue") \/ RefreshEnds)
      BY <1>11 DEF Push, Refreshing, RefreshOfAPr
    <2>2. Stays
      BY <1>2, <1>3, <2>1 DEF RefreshSteps
    <2>3. CASE UNCHANGED prVars
      BY <1>4, <2>2, <2>3 DEF Stays
    <2>4. CASE ~UNCHANGED prVars
      <3>1. \/ NewHead(p)
            \/ UNCHANGED <<heads, queue>>
        BY <1>11, <2>4 DEF Push, github
      <3>2. /\ StartSync("refresh", p)
            /\ UNCHANGED <<merged, auto, pending, labels, unmetered, mishaps>>
        BY <1>11, <2>4 DEF Push, github
      <3>3. /\ queue' \in Seq(Prs) /\ sound' \subseteq Prs /\ reviewed' \subseteq Prs
            /\ behind' \subseteq Prs
        BY <3>1, NewHeadTypes DEF heads, PrTypeOK
      <3>4. SyncOK /\ SameSync
        BY <1>6, <2>1, <3>2
      <3>5. PrTypeOK'
        BY <3>2, <3>3, <3>4 DEF PrTypeOK, labels, SyncRuns
      <3> QED BY <2>2, <3>4, <3>5 DEF Stays
    <2> QED BY <2>3, <2>4
  <1>12. CASE Requeue
    <2>1. CASE MergeSync("refresh", FALSE) /\ UNCHANGED refresh
      <3>1. PrTypeOK' /\ SameSync
        BY <2>1, MergeSyncTypes DEF Callers
      <3> QED BY <2>1, <3>1 DEF Stays, RefreshTypeOK, RefreshOfAPr
    <2>2. CASE ~(MergeSync("refresh", FALSE) /\ UNCHANGED refresh)
      <3>1. p \in Prs
        BY <1>12 DEF Requeue, Refreshing, RefreshOfAPr
      <3>2. RefreshEnds /\ EndSync("refresh") /\ UNCHANGED <<github, mishaps>>
        BY <1>12, <2>2 DEF Requeue
      <3>3. SyncOK /\ SameSync
        BY <1>6, <3>1, <3>2
      <3>4. PrTypeOK'
        BY <3>2, <3>3, EndSyncMeters DEF github, heads, labels, PrTypeOK, SyncRuns
      <3> QED BY <1>2, <3>2, <3>3, <3>4 DEF Stays
    <2> QED BY <2>1, <2>2
  <1>13. CASE KillRefresh
    <2>1. p \in Prs /\ RefreshEnds /\ EndSync("refresh")
      BY <1>13 DEF KillRefresh, Refreshing, RefreshOfAPr
    <2>2. UNCHANGED github /\ mishaps' \in Nat
      BY <1>13 DEF KillRefresh, Mishap, PrTypeOK
    <2>3. SyncOK /\ SameSync
      BY <1>6, <2>1
    <2>4. PrTypeOK'
      BY <2>1, <2>2, <2>3, EndSyncMeters DEF github, heads, labels, PrTypeOK, SyncRuns
    <2> QED BY <1>2, <2>1, <2>3, <2>4 DEF Stays
  <1> QED
    BY <1>7, <1>8, <1>9, <1>10, <1>11, <1>12, <1>13 DEF RefreshNext, RefreshStep, Stays

\* What a pass is.
Passes == [step : PassSteps, cap : 0 .. MaxInflight, blind : BOOLEAN,
           stale : SUBSET Prs, retried : BOOLEAN]

PassTyped ==
  /\ pass \in Passes
  /\ plan \in Seq(Prs)
  /\ verdict \in States
  /\ controller \in States

\* A running merge-sync works on the head of the plan.
OnTask == pass.step = "sync" => plan # <<>> /\ sync["supervisor"].pr = Head(plan)

\* The inductive invariant of the types.
Typed == PrTypeOK /\ RefreshTypeOK /\ RefreshOfAPr /\ PassTyped /\ OnTask

\* Only open pull requests are eligible.
LEMMA EligibleArePrs == Eligible \in SUBSET Prs
  BY DEF Eligible, Candidates, Open

\* Nothing comes before what it depends on, unless it waits for a cycle.
Follows(order) ==
  \A i, j \in 1 .. Len(order) :
    i < j /\ order[j] \in DependsOn[order[i]] => Knotted(order[i])

\* The plan is a part of the topological order that fits into the room under the cap.
LEMMA PlanOfProperties ==
  ASSUME NEW inflight, IsFiniteSet(inflight), NEW cap \in Nat
  PROVE  /\ PlanOf(inflight, cap) \in Seq(Prs)
         /\ Len(PlanOf(inflight, cap)) <= Capacity(cap, Cardinality(inflight))
         /\ Follows(PlanOf(inflight, cap))
  <1> DEFINE open == Without(Ordered, inflight)
             room == Capacity(cap, Cardinality(inflight))
             n == IF room < Len(open) THEN room ELSE Len(open)
             cut == SubSeq(open, 1, n)
  <1>1. IsOrderOf(Ordered, Eligible)
    BY EligibleArePrs, TopoOrderOrders DEF Ordered
  <1>2. Ordered \in Seq(Prs)
    BY <1>1, EligibleArePrs DEF IsOrderOf
  <1>3. open \in Seq(Prs)
    BY <1>2, WithoutKeepsOrder
  <1>4. \A i, j \in 1 .. Len(open) : i < j =>
          \E k, l \in 1 .. Len(Ordered) : k < l /\ open[i] = Ordered[k] /\ open[j] = Ordered[l]
    BY <1>2, WithoutKeepsOrder
  <1>5. Follows(open)
    <2> HIDE DEF open
    <2> QED BY <1>1, <1>4 DEF IsOrderOf, Follows
  <1>6. room \in Nat
    BY FS_CardinalityType DEF Capacity
  <1>7. PlanOf(inflight, cap) = cut
    BY DEF PlanOf
  <1> HIDE DEF open, room
  <1>8. n \in Nat /\ n <= Len(open) /\ n <= room /\ Len(open) \in Nat
    BY <1>3, <1>6
  <1> HIDE DEF n
  <1>9. cut \in Seq(Prs) /\ Len(cut) = n /\ \A i \in 1 .. n : cut[i] = open[i]
    BY <1>3, <1>8
  <1> HIDE DEF cut
  <1>10. Len(cut) <= room
    BY <1>8, <1>9
  <1>11. Follows(cut)
    BY <1>5, <1>8, <1>9 DEF Follows
  <1> QED BY <1>7, <1>9, <1>10, <1>11 DEF room

\* The controller state a pass works with has its type.
LEMMA VerdictType ==
  ASSUME NEW weather, NEW file \in States
  PROVE  Verdict(weather, file) \in States
  BY DesiredIsAMood, HysteresisType DEF Verdict

\* So has the state of a missing controller file.
LEMMA NoStateType == NoState \in States
  BY DEF NoState, States, Modes, Rank

\* An idle pass, and one that has only its report to write.
LEMMA IdleType == /\ Idle \in Passes /\ [Idle EXCEPT !.step = "report"] \in Passes
                  /\ Idle.step = "idle" /\ [Idle EXCEPT !.step = "report"].step = "report"
  <1>1. Idle \in Passes /\ Idle.step = "idle"
    BY CapsAssumption DEF Idle, Passes, PassSteps
  <1>2. \A r \in Passes : [r EXCEPT !.step = "report"] \in Passes
    BY DEF Passes, PassSteps
  <1>3. \A r \in Passes : [r EXCEPT !.step = "report"].step = "report"
    BY DEF Passes
  <1> QED BY <1>1, <1>2, <1>3

\* There are finitely many pull requests in flight, and so there seem to be.
LEMMA InFlightFinite == IsFiniteSet(InFlight) /\ \A blind : IsFiniteSet(InFlightAsSeen(blind))
  <1>1. InFlight \in SUBSET Prs /\ \A blind : InFlightAsSeen(blind) \in SUBSET Prs
    BY DEF InFlight, Open, InFlightAsSeen
  <1> QED BY <1>1, PrsAssumption, FS_Subset

\* The invariant of the types holds at the start.
LEMMA TypedInit == Init => Typed
  <1> SUFFICES ASSUME Init PROVE Typed
    OBVIOUS
  <1>1. PrTypeOK
    <2>1. sync \in [Callers -> SyncRuns]
      BY DEF Init, PrInit, SyncRuns, SyncSteps
    <2>2. \A x \in Callers : sync[x].step = "none"
      BY DEF Init, PrInit
    <2>3. queue \in Seq(Prs) /\ mishaps \in Nat
      BY DEF Init, PrInit
    <2> QED BY <2>1, <2>2, <2>3 DEF Init, PrInit, PrTypeOK, SyncRuns
  <1>2. RefreshTypeOK /\ RefreshOfAPr
    BY DEF Init, RefreshInit, RefreshTypeOK, RefreshOfAPr, RefreshSteps
  <1>3. PassTyped
    BY IdleType, NoStateType DEF Init, PassTyped
  <1>4. OnTask
    BY IdleType DEF Init, OnTask
  <1> QED BY <1>1, <1>2, <1>3, <1>4 DEF Typed

\* The step a pass goes to.
LEMMA GotoType ==
  ASSUME pass \in Passes, NEW step \in PassSteps, PassGoto(step)
  PROVE  /\ pass' \in Passes /\ pass'.step = step
         /\ pass'.cap = pass.cap /\ pass'.blind = pass.blind
  BY DEF PassGoto, Passes

\* A pass starts a merge-sync for a pull request.
LEMMA StartSyncTypes ==
  ASSUME PrTypeOK, NEW p \in Prs, StartSync("supervisor", p)
  PROVE  /\ sync' \in [Callers -> SyncRuns]
         /\ \A x \in Callers : sync'[x].step # "none" => sync'[x].pr \in Prs
         /\ sync'["supervisor"].pr = p
  <1>1. sync \in [Callers -> SyncRuns] /\ "supervisor" \in Callers
    BY DEF PrTypeOK, SyncRuns, Callers
  <1>2. [pr |-> p, step |-> "view", before |-> FALSE] \in SyncRuns
    BY DEF SyncRuns, SyncSteps
  <1>3. sync' \in [Callers -> SyncRuns]
    BY <1>1, <1>2 DEF StartSync
  <1>4. \A x \in Callers : sync'[x].step # "none" => sync'[x].pr \in Prs
    BY <1>1 DEF StartSync, PrTypeOK
  <1>5. sync'["supervisor"].pr = p
    BY <1>1 DEF StartSync
  <1> QED BY <1>3, <1>4, <1>5

\* And takes its outcome.
LEMMA EndSyncTypes ==
  ASSUME PrTypeOK, EndSync("supervisor")
  PROVE  /\ sync' \in [Callers -> SyncRuns]
         /\ \A x \in Callers : sync'[x].step # "none" => sync'[x].pr \in Prs
         /\ unmetered' \subseteq Prs
  <1>1. sync \in [Callers -> SyncRuns] /\ "supervisor" \in Callers
    BY DEF PrTypeOK, SyncRuns, Callers
  <1>2. [pr |-> 0, step |-> "none", before |-> FALSE] \in SyncRuns
    BY DEF SyncRuns, SyncSteps
  <1>3. sync' \in [Callers -> SyncRuns]
    BY <1>1, <1>2 DEF EndSync
  <1>4. \A x \in Callers : sync'[x].step # "none" => sync'[x].pr \in Prs
    BY <1>1 DEF EndSync, PrTypeOK
  <1> QED BY <1>3, <1>4, EndSyncMeters

\* Steps without a queue refresh keep its types.
LEMMA RefreshKept ==
  RefreshTypeOK /\ RefreshOfAPr /\ UNCHANGED refresh => RefreshTypeOK' /\ RefreshOfAPr'
  BY DEF RefreshTypeOK, RefreshOfAPr

\* Steps that leave GitHub and merge-sync alone keep their types.
LEMMA PrKept == PrTypeOK /\ UNCHANGED prVars => PrTypeOK'
  BY DEF prVars, github, heads, labels, PrTypeOK

\* A pass that has something to do.
LEMMA StartedType ==
  ASSUME NEW cap \in 0 .. MaxInflight, NEW blind \in BOOLEAN, NEW stale \in SUBSET Prs
  PROVE  [step |-> "admit", cap |-> cap, blind |-> blind, retried |-> FALSE, stale |-> stale]
           \in Passes
  BY DEF Passes, PassSteps

\* Every step keeps the types, and every merge-sync of a pass works on the head of its plan.
LEMMA TypedStep == Typed /\ [Next]_vars => Typed'
  <1> SUFFICES ASSUME Typed, [Next]_vars PROVE Typed'
    OBVIOUS
  <1>t. /\ PrTypeOK /\ RefreshTypeOK /\ RefreshOfAPr
        /\ pass \in Passes /\ plan \in Seq(Prs) /\ verdict \in States /\ controller \in States
        /\ (pass.step = "sync" => plan # <<>> /\ sync["supervisor"].pr = Head(plan))
    BY DEF Typed, PassTyped, OnTask
  <1>0. PassSteps = {"idle", "admit", "sync", "update", "report", "state"}
    BY DEF PassSteps
  <1>r. Reports => pass' \in Passes /\ pass'.step = "report"
    BY IdleType DEF Reports
  <1>h. plan # <<>> => Head(plan) \in Prs /\ Tail(plan) \in Seq(Prs)
    BY <1>t, HeadOfQueue
  <1>1. ASSUME NEW weather \in Weathers, NEW acts, NEW fresh \in BOOLEAN, NEW blind \in BOOLEAN,
               StartPass(weather, acts, fresh, blind)
        PROVE  Typed'
    <2>1. UNCHANGED <<github, sync, unmetered, refresh, controller>> /\ mishaps' \in Nat
      BY <1>1, <1>t DEF StartPass, Mishap, fileVars, PrTypeOK
    <2>2. PrTypeOK'
      BY <1>t, <2>1 DEF PrTypeOK, github, heads, labels
    <2>3. verdict' \in States
      BY <1>1, <1>t, VerdictType, NoStateType DEF StartPass
    <2>4. PICK cap \in Caps(verdict'.mode) :
            /\ plan' = IF acts THEN PlanOf(InFlightAsSeen(blind), cap) ELSE <<>>
            /\ IF plan' = <<>>
                 THEN Reports
                 ELSE pass' = [step |-> "admit", cap |-> cap, blind |-> blind, retried |-> FALSE,
                               stale |-> behind \cap ToSet(plan')]
      BY <1>1 DEF StartPass
    <2>5. cap \in 0 .. MaxInflight /\ cap \in Nat
      BY <2>4, CapsType, CapsAssumption
    <2>6. plan' \in Seq(Prs)
      BY <2>4, <2>5, InFlightFinite, PlanOfProperties
    <2>7. pass' \in Passes /\ pass'.step # "sync"
      <3>1. CASE plan' = <<>>
        BY <1>r, <2>4, <3>1
      <3>2. CASE plan' # <<>>
        <4>1. behind \cap ToSet(plan') \in SUBSET Prs
          BY <1>t DEF PrTypeOK
        <4>2. pass' = [step |-> "admit", cap |-> cap, blind |-> blind, retried |-> FALSE,
                       stale |-> behind \cap ToSet(plan')]
          BY <2>4, <3>2
        <4>3. pass' \in Passes
          BY <2>5, <4>1, <4>2, StartedType
        <4> QED BY <4>2, <4>3
      <3> QED BY <3>1, <3>2
    <2> QED BY <1>t, <2>1, <2>2, <2>3, <2>6, <2>7, RefreshKept DEF Typed, PassTyped, OnTask
  <1>2. CASE Admit
    <2>1. UNCHANGED <<github, unmetered, mishaps, refresh, plan, verdict, controller>>
      BY <1>2 DEF Admit, fileVars
    <2>2. CASE plan = <<>>
      <3>1. Reports /\ UNCHANGED sync
        BY <1>2, <2>2 DEF Admit
      <3> QED BY <1>r, <1>t, <2>1, <3>1, PrKept, RefreshKept DEF Typed, PassTyped, OnTask, prVars
    <2>3. CASE plan # <<>>
      <3>1. PassGoto("sync") /\ StartSync("supervisor", Head(plan))
        BY <1>2, <2>3 DEF Admit
      <3>2. pass' \in Passes
        BY <1>0, <1>t, <3>1, GotoType
      <3>3. PrTypeOK'
        BY <1>h, <1>t, <2>1, <2>3, <3>1, StartSyncTypes
        DEF PrTypeOK, github, heads, labels, SyncRuns
      <3>4. OnTask'
        BY <1>h, <1>t, <2>1, <2>3, <3>1, StartSyncTypes DEF OnTask
      <3> QED BY <1>t, <2>1, <3>2, <3>3, <3>4, RefreshKept DEF Typed, PassTyped
    <2> QED BY <2>2, <2>3
  <1>3. CASE Sync
    <2>1. /\ MergeSync("supervisor", ~pass.blind)
          /\ UNCHANGED <<refresh, pass, plan, verdict, controller>>
      BY <1>3 DEF Sync, passVars, fileVars
    <2>2. PrTypeOK' /\ sync'["supervisor"].pr = sync["supervisor"].pr
      BY <1>t, <2>1, MergeSyncTypes DEF Callers
    <2> QED BY <1>t, <2>1, <2>2, RefreshKept DEF Typed, PassTyped, OnTask
  <1>4. ASSUME NextInPlan, pass.step = "sync"
        PROVE  /\ pass' \in Passes /\ pass'.step = "admit" /\ plan' \in Seq(Prs)
               /\ EndSync("supervisor")
    BY <1>0, <1>h, <1>t, <1>4 DEF NextInPlan, Passes
  <1>5. CASE Enqueued
    <2>1. /\ NextInPlan /\ pass.step = "sync"
          /\ UNCHANGED <<merged, queue, auto, pending, heads, quarantined, refresh, verdict,
                         controller>>
      BY <1>5 DEF Enqueued, fileVars
    <2>2. blocked' \subseteq Prs /\ mishaps' \in Nat
      BY <1>5, <1>t DEF Enqueued, Mishap, PrTypeOK
    <2>3. PrTypeOK'
      BY <1>4, <1>t, <2>1, <2>2, EndSyncTypes DEF PrTypeOK, heads, SyncRuns
    <2> QED BY <1>4, <1>t, <2>1, <2>3, RefreshKept DEF Typed, PassTyped, OnTask
  <1>6. CASE UpdateBranch
    <2>1. /\ pass.step = "sync"
          /\ UNCHANGED <<merged, auto, pending, labels, unmetered, mishaps, refresh, plan,
                         verdict, controller>>
          /\ pass' = [pass EXCEPT !.retried = TRUE]
      BY <1>6 DEF UpdateBranch, fileVars
    <2>2. pass' \in Passes /\ pass'.step = "sync"
      BY <1>t, <2>1 DEF Passes
    <2>3. /\ queue' \in Seq(Prs) /\ sound' \subseteq Prs /\ reviewed' \subseteq Prs
          /\ behind' \subseteq Prs
      <3>1. NewHead(Head(plan)) \/ UNCHANGED <<queue, heads>>
        BY <1>6 DEF UpdateBranch
      <3> QED BY <1>t, <3>1, NewHeadTypes DEF PrTypeOK, heads
    <2>4. /\ sync' \in [Callers -> SyncRuns]
          /\ \A x \in Callers : sync'[x].step # "none" => sync'[x].pr \in Prs
          /\ sync'["supervisor"].pr = Head(plan)
      <3>1. StartSync("supervisor", Head(plan)) \/ UNCHANGED sync
        BY <1>6 DEF UpdateBranch
      <3>2. CASE StartSync("supervisor", Head(plan))
        BY <1>h, <1>t, <2>1, <3>2, StartSyncTypes
      <3>3. CASE UNCHANGED sync
        BY <1>t, <2>1, <3>3 DEF PrTypeOK, SyncRuns
      <3> QED BY <3>1, <3>2, <3>3
    <2>5. PrTypeOK'
      BY <1>t, <2>1, <2>3, <2>4 DEF PrTypeOK, labels, SyncRuns
    <2> QED BY <1>t, <2>1, <2>2, <2>4, <2>5, RefreshKept DEF Typed, PassTyped, OnTask
  <1>7. CASE Refused
    <2>1. /\ NextInPlan /\ pass.step = "sync" /\ Labels(Head(plan))
          /\ UNCHANGED <<merged, queue, auto, pending, heads, refresh, verdict, controller>>
      BY <1>7 DEF Refused, fileVars
    <2>2. blocked' \subseteq Prs /\ quarantined' \subseteq Prs /\ mishaps' \in Nat
      BY <1>h, <1>t, <2>1 DEF Labels, Mishap, PrTypeOK
    <2>3. PrTypeOK'
      BY <1>4, <1>t, <2>1, <2>2, EndSyncTypes DEF PrTypeOK, heads, SyncRuns
    <2> QED BY <1>4, <1>t, <2>1, <2>3, RefreshKept DEF Typed, PassTyped, OnTask
  <1>8. CASE Report
    <2>1. PassGoto("state") /\ UNCHANGED <<prVars, refresh, plan, verdict, controller>>
      BY <1>8 DEF Report, refreshVars
    <2>2. pass' \in Passes /\ pass'.step = "state"
      BY <1>0, <1>t, <2>1, GotoType
    <2> QED BY <1>t, <2>1, <2>2, PrKept, RefreshKept DEF Typed, PassTyped, OnTask
  <1>9. ASSUME EndPass
        PROVE  pass' \in Passes /\ pass'.step = "idle" /\ plan' \in Seq(Prs) /\ verdict' \in States
    BY <1>9, IdleType, NoStateType DEF EndPass
  <1>10. CASE State
    <2>1. EndPass /\ controller' = verdict /\ UNCHANGED <<prVars, refresh>>
      BY <1>10 DEF State, refreshVars
    <2> QED BY <1>9, <1>t, <2>1, PrKept, RefreshKept DEF Typed, PassTyped, OnTask
  <1>11. CASE Cancel
    <2>1. /\ EndPass /\ EndSync("supervisor") /\ controller' \in {NoState, controller}
          /\ UNCHANGED <<github, refresh>>
      BY <1>11 DEF Cancel
    <2>2. mishaps' \in Nat
      BY <1>11, <1>t DEF Cancel, Mishap, PrTypeOK
    <2>3. PrTypeOK'
      BY <1>t, <2>1, <2>2, EndSyncTypes DEF PrTypeOK, github, heads, labels, SyncRuns
    <2> QED BY <1>9, <1>t, <2>1, <2>3, NoStateType, RefreshKept DEF Typed, PassTyped, OnTask
  <1>12. ASSUME NEW p \in Prs, Expire(p) PROVE Typed'
    <2>1. UNCHANGED <<prVars, refresh, pass, plan, verdict, controller>>
      BY <1>12 DEF Expire, refreshVars, passVars
    <2> QED BY <1>t, <2>1, PrKept, RefreshKept DEF Typed, PassTyped, OnTask, prVars
  <1>13. ASSUME Apart, External, UNCHANGED refresh PROVE Typed'
    <2>1. UNCHANGED <<pass, plan, verdict, controller>>
      BY <1>13 DEF Apart, passVars, fileVars
    <2>2. PrTypeOK' /\ UNCHANGED sync
      BY <1>13, <1>t, ExternalTypes
    <2> QED BY <1>13, <1>t, <2>1, <2>2, RefreshKept DEF Typed, PassTyped, OnTask
  <1>14. ASSUME Apart, RefreshNext PROVE Typed'
    <2>1. UNCHANGED <<pass, plan, verdict, controller>>
      BY <1>14 DEF Apart, passVars, fileVars
    <2>2. PrTypeOK' /\ RefreshTypeOK' /\ RefreshOfAPr' /\ sync'["supervisor"] = sync["supervisor"]
      BY <1>14, <1>t, RefreshTypes
    <2> QED BY <1>t, <2>1, <2>2 DEF Typed, PassTyped, OnTask
  <1>15. CASE UNCHANGED vars
    <2>1. UNCHANGED <<prVars, refresh, pass, plan, verdict, controller>>
      BY <1>15 DEF vars, refreshVars, passVars, fileVars
    <2> QED BY <1>t, <2>1, PrKept, RefreshKept DEF Typed, PassTyped, OnTask, prVars
  <1>16. ASSUME NEW acts \in BOOLEAN, Starts(acts) PROVE Typed'
    BY <1>1, <1>16 DEF Starts
  <1> QED
    BY <1>2, <1>3, <1>5, <1>6, <1>7, <1>8, <1>10, <1>11, <1>12, <1>13, <1>14, <1>15, <1>16
    DEF Next, PassStep

\* Every pass, merge-sync and refresh stays in its steps, works on open pull requests' numbers,
\* and the files hold counts and modes.
THEOREM QueueTypes == Spec => []TypeOK
  <1>1. Spec => []Typed
    BY TypedInit, TypedStep, PTL DEF Spec
  <1>2. Spec => []Remembered
    BY RememberedInit, RememberedStep, PTL DEF Spec
  <1>3. Typed /\ Remembered => TypeOK
    BY DEF Typed, PassTyped, Passes, Remembered, Counts, TypeOK
  <1> QED BY <1>1, <1>2, <1>3, PTL

--------------------------------------------------------------------------------
\* A pull request waits for its checks, or is in the queue once, or is about to land in one of
\* the two, or is merged.
OnePlace ==
  /\ \A i, j \in 1 .. Len(queue) : i < j => queue[i] # queue[j]
  /\ auto \cap Queued = {}
  /\ merged \cap (auto \cup Queued) = {}
  /\ pending \cap (auto \cup Queued \cup merged) = {}

\* What counts before it shows is what the merge-sync of the pass has just asked for.
Awaited ==
  \A p \in pending \ unmetered : pass.step = "sync" /\ p = sync["supervisor"].pr

\* A step that puts nobody in flight that counts.
NoneEnters == OnePlace' /\ Metered' \subseteq Metered

\* And leaves nothing new to wait for that does.
NoneAsks == pending' \ unmetered' \subseteq pending \ unmetered

\* Steps that take nothing away from those that do not count.
LEMMA SamePlaces ==
  ASSUME OnePlace, UNCHANGED <<queue, auto, pending, merged>>, unmetered \subseteq unmetered'
  PROVE  NoneEnters /\ NoneAsks
  BY DEF OnePlace, NoneEnters, NoneAsks, Metered, InFlight, Open, Queued

\* An entry leaves the merge queue.
LEMMA DequeuedPlaces ==
  ASSUME OnePlace, queue \in Seq(Prs), NEW p, queue' = Dequeued(p),
         UNCHANGED <<auto, pending, merged, unmetered>>
  PROVE  NoneEnters /\ NoneAsks
  <1>1. Queued' = Queued \ {p}
    BY DequeuedType DEF Queued
  <1>2. ASSUME NEW i \in 1 .. Len(queue'), NEW j \in 1 .. Len(queue'), i < j
        PROVE  queue'[i] # queue'[j]
    <2>1. PICK k \in 1 .. Len(queue), l \in 1 .. Len(queue) :
            k < l /\ queue'[i] = queue[k] /\ queue'[j] = queue[l]
      BY <1>2, DequeuedType
    <2> QED BY <2>1 DEF OnePlace
  <1>3. OnePlace'
    BY <1>1, <1>2 DEF OnePlace
  <1>4. Metered' \subseteq Metered
    BY <1>1 DEF Metered, InFlight, Open
  <1> QED BY <1>3, <1>4 DEF NoneEnters, NoneAsks

\* A pull request goes to the end of the merge queue.
LEMMA AppendedPlaces ==
  ASSUME OnePlace, queue \in Seq(Prs), NEW p \in Prs \ Queued, queue' = Append(queue, p)
  PROVE  /\ Queued' = Queued \cup {p}
         /\ \A i, j \in 1 .. Len(queue') : i < j => queue'[i] # queue'[j]
  <1> DEFINE n == Len(queue)
  <1>1. n \in Nat /\ Len(queue') = n + 1 /\ DOMAIN queue = 1 .. n /\ DOMAIN queue' = 1 .. n + 1
    OBVIOUS
  <1>2. queue'[n + 1] = p /\ \A i \in 1 .. n : queue'[i] = queue[i]
    OBVIOUS
  <1>3. \A i \in 1 .. n : queue[i] # p
    BY <1>1 DEF Queued, ToSet
  <1>4. \A i, j \in 1 .. n : i < j => queue[i] # queue[j]
    BY DEF OnePlace
  <1> HIDE DEF n
  <1>5. Queued' = Queued \cup {p}
    BY <1>1, <1>2 DEF Queued, ToSet
  <1>6. \A i, j \in 1 .. n + 1 : i < j => queue'[i] # queue'[j]
    BY <1>1, <1>2, <1>3, <1>4
  <1> QED BY <1>1, <1>5, <1>6

\* The first entry leaves the merge queue.
LEMMA AdvancedPlaces ==
  ASSUME OnePlace, queue \in Seq(Prs), queue # <<>>, queue' = Tail(queue)
  PROVE  /\ Queued' = Queued \ {Head(queue)}
         /\ \A i, j \in 1 .. Len(queue') : i < j => queue'[i] # queue'[j]
  <1> DEFINE n == Len(queue)
  <1>1. /\ n \in Nat \ {0} /\ Len(queue') = n - 1
        /\ DOMAIN queue = 1 .. n /\ DOMAIN queue' = 1 .. n - 1
    OBVIOUS
  <1>2. Head(queue) = queue[1] /\ \A i \in 1 .. n - 1 : queue'[i] = queue[i + 1]
    OBVIOUS
  <1>3. \A i, j \in 1 .. n : i < j => queue[i] # queue[j]
    BY DEF OnePlace
  <1> HIDE DEF n
  <1>4. ASSUME NEW i \in 1 .. n - 1 PROVE queue'[i] \in Queued \ {Head(queue)}
    <2>1. i + 1 \in 1 .. n /\ 1 \in 1 .. n /\ 1 < i + 1
      BY <1>1
    <2> QED BY <1>1, <1>2, <1>3, <2>1 DEF Queued, ToSet
  <1>5. ASSUME NEW i \in 1 .. n, queue[i] # Head(queue)
        PROVE  \E k \in 1 .. n - 1 : queue'[k] = queue[i]
    <2>1. i # 1
      BY <1>2, <1>5
    <2>2. i - 1 \in 1 .. n - 1 /\ (i - 1) + 1 = i
      BY <1>1, <2>1
    <2>3. queue'[i - 1] = queue[i]
      BY <1>2, <2>2
    <2> QED BY <2>2, <2>3
  <1>6. Queued' = Queued \ {Head(queue)}
    <2>1. /\ Queued = {queue[i] : i \in 1 .. n}
          /\ Queued' = {queue'[i] : i \in 1 .. n - 1}
      BY <1>1 DEF Queued, ToSet
    <2>2. \A i \in 1 .. n : queue[i] # Head(queue) => queue[i] \in Queued'
      BY <1>5, <2>1
    <2>3. \A i \in 1 .. n - 1 : queue'[i] \in Queued \ {Head(queue)}
      BY <1>4
    <2> QED BY <2>1, <2>2, <2>3
  <1>7. ASSUME NEW i \in 1 .. n - 1, NEW j \in 1 .. n - 1, i < j PROVE queue'[i] # queue'[j]
    <2>1. i + 1 \in 1 .. n /\ j + 1 \in 1 .. n /\ i + 1 < j + 1
      BY <1>1, <1>7
    <2> QED BY <1>2, <1>3, <2>1
  <1> QED BY <1>1, <1>6, <1>7

\* A promotion takes its pull request to one place.
LEMMA PromotedPlaces ==
  ASSUME OnePlace, queue \in Seq(Prs), NEW p \in Prs \ (auto \cup Queued \cup merged), Promoted(p),
         UNCHANGED merged, pending' \subseteq pending \ {p}
  PROVE  OnePlace' /\ InFlight' \subseteq InFlight \cup {p}
  <1>1. CASE queue' = Append(queue, p) /\ UNCHANGED auto
    <2>1. /\ Queued' = Queued \cup {p}
          /\ \A i, j \in 1 .. Len(queue') : i < j => queue'[i] # queue'[j]
      BY <1>1, AppendedPlaces
    <2> QED BY <1>1, <2>1 DEF OnePlace, InFlight, Open
  <1>2. CASE auto' = auto \cup {p} /\ UNCHANGED queue
    <2>1. Queued' = Queued
      BY <1>2 DEF Queued
    <2> QED BY <1>2, <2>1 DEF OnePlace, InFlight, Open
  <1> QED BY <1>1, <1>2 DEF Promoted

\* Only merge-sync puts a pull request in flight, now or later, and only the one it is run for.
LEMMA MergeSyncPlaces ==
  ASSUME PrTypeOK, OnePlace, NEW x \in Callers, NEW metered, MergeSync(x, metered)
  PROVE  /\ OnePlace'
         /\ Metered' \subseteq Metered \cup {sync[x].pr}
         /\ pending' \ unmetered' \subseteq (pending \ unmetered) \cup {sync[x].pr}
         /\ ~metered => NoneEnters /\ NoneAsks
  <1> DEFINE p == sync[x].pr
  <1>1. p \in Prs
    BY DEF PrTypeOK, MergeSync, View, MergeCall, Verify, SyncIs
  <1>2. CASE UNCHANGED <<queue, auto, pending, merged, unmetered>>
    BY <1>2, SamePlaces DEF NoneEnters, NoneAsks
  <1>3. CASE ~UNCHANGED <<queue, auto, pending, merged, unmetered>>
    <2>1. /\ p \notin InFlight \cup merged \cup pending
          /\ \/ Promoted(p) /\ UNCHANGED pending
             \/ pending' = pending \cup {p} /\ UNCHANGED <<queue, auto>>
          /\ unmetered' = IF metered THEN unmetered \ {p} ELSE unmetered \cup {p}
          /\ UNCHANGED merged
      BY <1>3 DEF MergeSync, View, MergeCall, Verify, github
    <2>2. p \in Prs \ (auto \cup Queued \cup merged)
      BY <1>1, <2>1 DEF InFlight, Open
    <2>3. queue \in Seq(Prs)
      BY DEF PrTypeOK
    <2> HIDE DEF p
    <2>4. CASE Promoted(p) /\ UNCHANGED pending
      <3>1. OnePlace' /\ InFlight' \subseteq InFlight \cup {p}
        BY <2>1, <2>2, <2>3, <2>4, PromotedPlaces
      <3>2. Metered' \subseteq ((InFlight \cup (Open \cap pending)) \ unmetered') \cup {p}
        BY <2>1, <2>4, <3>1 DEF Metered, Open
      <3>3. Metered' \subseteq Metered \cup {p} /\ (~metered => Metered' \subseteq Metered)
        <4>1. p \notin unmetered' => metered
          BY <2>1
        <4>2. p \in unmetered' => p \notin Metered'
          BY DEF Metered
        <4> QED BY <2>1, <3>2, <4>1, <4>2 DEF Metered
      <3> QED BY <2>1, <2>4, <3>1, <3>3 DEF p, NoneEnters, NoneAsks
    <2>5. CASE pending' = pending \cup {p} /\ UNCHANGED <<queue, auto>>
      <3>1. Queued' = Queued /\ InFlight' = InFlight /\ Open' = Open
        BY <2>1, <2>5 DEF Queued, InFlight, Open
      <3>2. OnePlace'
        BY <2>1, <2>2, <2>5, <3>1 DEF OnePlace
      <3>3. /\ Metered' \subseteq Metered \cup {p}
            /\ pending' \ unmetered' \subseteq (pending \ unmetered) \cup {p}
        BY <2>1, <2>5, <3>1 DEF Metered
      <3>4. ASSUME ~metered PROVE NoneEnters /\ NoneAsks
        BY <2>1, <2>5, <3>1, <3>2, <3>4 DEF Metered, NoneEnters, NoneAsks
      <3> QED BY <3>2, <3>3, <3>4 DEF p
    <2> QED BY <2>1, <2>4, <2>5
  <1> QED BY <1>2, <1>3

\* GitHub moves what is in flight, and puts nothing new there.
LEMMA ExternalPlaces ==
  ASSUME PrTypeOK, OnePlace, External
  PROVE  NoneEnters /\ NoneAsks
  <1>q. queue \in Seq(Prs)
    BY DEF PrTypeOK
  <1>1. ASSUME NEW p \in Prs, ChecksPass(p) \/ ReviewClears(p) \/ Unlabel(p)
        PROVE  NoneEnters /\ NoneAsks
    BY <1>1, SamePlaces DEF ChecksPass, ReviewClears, Unlabel
  <1>2. ASSUME NEW p \in Prs, Setback(p) PROVE NoneEnters /\ NoneAsks
    <2>1. /\ UNCHANGED <<auto, pending, merged, unmetered>>
          /\ queue' = Dequeued(p) \/ UNCHANGED queue
      BY <1>2 DEF Setback, NewHead
    <2> QED BY <1>q, <2>1, DequeuedPlaces, SamePlaces
  <1>3. ASSUME NEW p \in Prs, AutoEnqueues(p) PROVE NoneEnters /\ NoneAsks
    <2>1. /\ p \in auto /\ auto' = auto \ {p} /\ queue' = Append(queue, p)
          /\ UNCHANGED <<merged, pending, unmetered>>
      BY <1>3 DEF AutoEnqueues
    <2>2. p \in Prs \ Queued
      BY <2>1 DEF OnePlace
    <2>3. /\ Queued' = Queued \cup {p}
          /\ \A i, j \in 1 .. Len(queue') : i < j => queue'[i] # queue'[j]
      BY <1>q, <2>1, <2>2, AppendedPlaces
    <2>4. OnePlace'
      BY <2>1, <2>3 DEF OnePlace
    <2>5. Metered' \subseteq Metered
      BY <2>1, <2>3 DEF Metered, InFlight, Open
    <2> QED BY <2>1, <2>4, <2>5 DEF NoneEnters, NoneAsks
  <1>4. ASSUME NEW p \in Prs, Lands(p) PROVE NoneEnters /\ NoneAsks
    <2>1. /\ p \in pending /\ pending' = pending \ {p} /\ Promoted(p)
          /\ UNCHANGED <<merged, unmetered>>
      BY <1>4 DEF Lands
    <2>2. p \in Prs \ (auto \cup Queued \cup merged)
      BY <2>1 DEF OnePlace
    <2>3. OnePlace' /\ InFlight' \subseteq InFlight \cup {p}
      BY <1>q, <2>1, <2>2, PromotedPlaces
    <2>4. p \in Open \cap pending
      BY <2>1, <2>2 DEF Open
    <2>5. Metered' \subseteq Metered
      BY <2>1, <2>3, <2>4 DEF Metered, Open
    <2> QED BY <2>1, <2>3, <2>5 DEF NoneEnters, NoneAsks
  <1>5. CASE QueueAdvances
    <2>1. /\ queue # <<>> /\ queue' = Tail(queue)
          /\ merged' \in {merged, merged \cup {Head(queue)}}
          /\ unmetered' = unmetered \ {Head(queue)} /\ UNCHANGED <<auto, pending>>
      BY <1>5 DEF QueueAdvances
    <2>2. /\ Queued' = Queued \ {Head(queue)}
          /\ \A i, j \in 1 .. Len(queue') : i < j => queue'[i] # queue'[j]
      BY <1>q, <2>1, AdvancedPlaces
    <2>3. Head(queue) \in Queued
      BY <1>q, <2>1, HeadOfQueue DEF Queued
    <2>4. OnePlace'
      BY <2>1, <2>2, <2>3 DEF OnePlace
    <2>5. Metered' \subseteq Metered
      BY <2>1, <2>2, <2>3 DEF Metered, InFlight, Open, OnePlace
    <2>6. NoneAsks
      BY <2>1, <2>3 DEF NoneAsks, OnePlace
    <2> QED BY <2>4, <2>5, <2>6 DEF NoneEnters
  <1> QED BY <1>1, <1>2, <1>3, <1>4, <1>5 DEF External, Promotes

\* A queue refresh puts nobody in flight that counts.
LEMMA RefreshPlaces ==
  ASSUME PrTypeOK, OnePlace, RefreshNext
  PROVE  NoneEnters /\ NoneAsks
  <1>q. queue \in Seq(Prs)
    BY DEF PrTypeOK
  <1>1. ASSUME (\E p \in Prs : StartRefresh(p)) \/ LookAtPr \/ Poll
        PROVE  NoneEnters /\ NoneAsks
    <2>1. UNCHANGED <<queue, auto, pending, merged, unmetered>>
      BY <1>1 DEF StartRefresh, LookAtPr, Poll, prVars, github
    <2> QED BY <2>1, SamePlaces
  <1>2. CASE Dequeue \/ Push
    <2>1. /\ UNCHANGED <<auto, pending, merged, unmetered>>
          /\ queue' = Dequeued(refresh.pr) \/ UNCHANGED queue
      BY <1>2 DEF Dequeue, Push, NewHead, prVars, github
    <2> QED BY <1>q, <2>1, DequeuedPlaces, SamePlaces
  <1>3. ASSUME EndSync("refresh"), UNCHANGED github PROVE NoneEnters /\ NoneAsks
    <2>1. unmetered \subseteq unmetered'
      BY <1>3, EndSyncMeters
    <2> QED BY <1>3, <2>1, SamePlaces DEF github
  <1>4. CASE Requeue
    <2>1. CASE MergeSync("refresh", FALSE)
      BY <2>1, MergeSyncPlaces DEF Callers
    <2>2. CASE ~MergeSync("refresh", FALSE)
      BY <1>3, <1>4, <2>2 DEF Requeue
    <2> QED BY <2>1, <2>2
  <1>5. CASE KillRefresh
    BY <1>3, <1>5 DEF KillRefresh
  <1> QED BY <1>1, <1>2, <1>4, <1>5 DEF RefreshNext, RefreshStep

\* A pass that sees the queue has room under its cap for all it has still to process.
Metering == pass.step \in {"admit", "sync"} /\ ~pass.blind
Budget == Metering => Cardinality(Metered \cup ToSet(plan)) <= pass.cap

\* The inductive invariant of the cap.
Sparing == Typed /\ OnePlace /\ Awaited /\ Budget

\* A sequence has no more members than its length.
LEMMA LenBoundsCardinality ==
  ASSUME NEW T, NEW s \in Seq(T)
  PROVE  IsFiniteSet(ToSet(s)) /\ Cardinality(ToSet(s)) <= Len(s)
  <1>1. Len(s) \in Nat /\ DOMAIN s = 1 .. Len(s)
    OBVIOUS
  <1>2. IsFiniteSet(1 .. Len(s)) /\ Cardinality(1 .. Len(s)) = Len(s)
    BY <1>1, FS_Interval
  <1>3. s \in Surjection(1 .. Len(s), ToSet(s))
    BY <1>1 DEF Surjection, ToSet
  <1> QED BY <1>2, <1>3, FS_Surjection

\* What counts against the cap, and what a pass plans, are pull requests.
LEMMA MeteredArePrs ==
  Metered \in SUBSET Prs /\ (plan \in Seq(Prs) => ToSet(plan) \in SUBSET Prs)
  BY DEF Metered, InFlight, Open, ToSet

\* The room that is left covers what comes out of it.
LEMMA BudgetKept ==
  ASSUME Budget, plan \in Seq(Prs), pass.cap \in Nat,
         Metered' \cup ToSet(plan') \subseteq Metered \cup ToSet(plan),
         Metering' => Metering /\ pass'.cap = pass.cap
  PROVE  Budget'
  <1> DEFINE A == Metered' \cup ToSet(plan')
             B == Metered \cup ToSet(plan)
  <1>1. B \in SUBSET Prs
    BY MeteredArePrs
  <1>2. IsFiniteSet(B)
    BY <1>1, PrsAssumption, FS_Subset
  <1>3. IsFiniteSet(A) /\ Cardinality(A) <= Cardinality(B)
    <2> HIDE DEF A, B
    <2>1. A \in SUBSET B
      BY DEF A, B
    <2> QED BY <1>2, <2>1, FS_Subset
  <1>4. Cardinality(A) \in Nat /\ Cardinality(B) \in Nat
    BY <1>2, <1>3, FS_CardinalityType
  <1>5. Metering' => Cardinality(B) <= pass'.cap
    BY DEF Budget
  <1> HIDE DEF A, B
  <1>6. Metering' => Cardinality(A) <= pass'.cap
    BY <1>3, <1>4, <1>5
  <1> QED BY <1>6 DEF Budget, A

\* A plan that fits into the capacity (:1767-1768) leaves the cap respected when all of it enters.
LEMMA BudgetOfAPlan ==
  ASSUME NEW cap \in Nat, NEW order \in Seq(Prs), order # <<>>, pending \subseteq unmetered,
         Len(order) <= Capacity(cap, Cardinality(InFlight))
  PROVE  Cardinality(Metered \cup ToSet(order)) <= cap
  <1> DEFINE n == Cardinality(InFlight)
             A == Metered \cup ToSet(order)
             B == InFlight \cup ToSet(order)
  <1>1. Len(order) \in Nat \ {0}
    OBVIOUS
  <1>2. IsFiniteSet(InFlight) /\ n \in Nat
    BY InFlightFinite, FS_CardinalityType
  <1>3. IsFiniteSet(ToSet(order)) /\ Cardinality(ToSet(order)) <= Len(order)
    BY LenBoundsCardinality
  <1>4. n + Len(order) <= cap
    <2> HIDE DEF n
    <2> QED BY <1>1, <1>2 DEF Capacity, n
  <1>5. /\ IsFiniteSet(B)
        /\ Cardinality(B) <= n + Cardinality(ToSet(order))
    <2>1. IsFiniteSet(InFlight \cap ToSet(order))
      BY <1>2, FS_Subset
    <2>2. Cardinality(InFlight \cap ToSet(order)) \in Nat
      BY <2>1, FS_CardinalityType
    <2>3. /\ IsFiniteSet(B)
          /\ Cardinality(B)
               = n + Cardinality(ToSet(order)) - Cardinality(InFlight \cap ToSet(order))
      BY <1>2, <1>3, FS_Union
    <2>4. Cardinality(ToSet(order)) \in Nat
      BY <1>3, FS_CardinalityType
    <2> HIDE DEF n, B
    <2> QED BY <1>2, <2>2, <2>3, <2>4
  <1>6. A \in SUBSET B
    BY DEF Metered
  <1> HIDE DEF A, B
  <1>7. Cardinality(A) <= Cardinality(B)
    BY <1>5, <1>6, FS_Subset
  <1>8. Cardinality(A) \in Nat /\ Cardinality(B) \in Nat /\ Cardinality(ToSet(order)) \in Nat
    BY <1>3, <1>5, <1>6, FS_Subset, FS_CardinalityType
  <1> HIDE DEF n
  <1>9. Cardinality(A) <= cap
    BY <1>1, <1>2, <1>3, <1>4, <1>5, <1>7, <1>8
  <1> QED BY <1>9 DEF A

\* The invariant of the cap holds at the start.
LEMMA SparingInit == Init => Sparing
  <1> SUFFICES ASSUME Init PROVE Sparing
    OBVIOUS
  <1>1. OnePlace
    BY DEF Init, PrInit, OnePlace, Queued, ToSet
  <1>2. Budget /\ Awaited
    BY IdleType DEF Init, PrInit, Budget, Metering, Awaited
  <1> QED BY <1>1, <1>2, TypedInit DEF Sparing

\* A pass that starts plans no more than there is room for.
LEMMA StartPassBudget ==
  ASSUME Typed, Awaited, NEW weather, NEW acts, NEW fresh, NEW blind \in BOOLEAN,
         StartPass(weather, acts, fresh, blind), verdict' \in States
  PROVE  Budget'
  <1>1. PICK cap \in Caps(verdict'.mode) :
          /\ plan' = IF acts THEN PlanOf(InFlightAsSeen(blind), cap) ELSE <<>>
          /\ IF plan' = <<>>
               THEN Reports
               ELSE pass' = [step |-> "admit", cap |-> cap, blind |-> blind, retried |-> FALSE,
                             stale |-> behind \cap ToSet(plan')]
    BY DEF StartPass
  <1>2. cap \in 0 .. MaxInflight /\ cap \in Nat
    BY <1>1, CapsType, CapsAssumption
  <1>3. CASE plan' = <<>>
    BY <1>1, <1>3, IdleType DEF Reports, Budget, Metering
  <1>4. CASE plan' # <<>> /\ ~blind
    <2>1. plan' = PlanOf(InFlight, cap) /\ pass'.cap = cap
      BY <1>1, <1>4 DEF InFlightAsSeen
    <2>2. plan' \in Seq(Prs) /\ Len(plan') <= Capacity(cap, Cardinality(InFlight))
      BY <1>2, <2>1, InFlightFinite, PlanOfProperties
    <2>3. Cardinality(Metered \cup ToSet(plan')) <= cap
      <3>1. pending \subseteq unmetered
        BY DEF StartPass, Awaited
      <3> QED BY <1>2, <1>4, <2>2, <3>1, BudgetOfAPlan
    <2>4. Metered' = Metered
      BY DEF StartPass, github, Metered, InFlight, Open, Queued
    <2> QED BY <2>1, <2>3, <2>4 DEF Budget
  <1>5. CASE plan' # <<>> /\ blind
    BY <1>1, <1>5 DEF Budget, Metering
  <1> QED BY <1>3, <1>4, <1>5

\* A step that puts nobody in flight and asks for no more room than it had.
Spares ==
  /\ NoneEnters
  /\ Awaited'
  /\ ToSet(plan') \subseteq ToSet(plan)
  /\ Metering' => Metering /\ pass'.cap = pass.cap

\* A merge-sync that ends leaves nothing to wait for that counts.
LEMMA EndSyncWaitsForNone ==
  ASSUME Awaited, EndSync("supervisor"), UNCHANGED pending
  PROVE  Awaited'
  <1>1. \A p \in pending \ unmetered : p = sync["supervisor"].pr
    BY DEF Awaited
  <1>2. pending' \subseteq unmetered'
    BY <1>1 DEF EndSync
  <1> QED BY <1>2 DEF Awaited

\* A pass takes the head off its plan, or the plan away.
LEMMA PlanShrinks ==
  ASSUME plan \in Seq(Prs)
  PROVE  /\ ToSet(<<>>) \subseteq ToSet(plan)
         /\ plan # <<>> => ToSet(Tail(plan)) \subseteq ToSet(plan) /\ Head(plan) \in ToSet(plan)
  <1>1. ToSet(<<>>) \subseteq ToSet(plan)
    BY DEF ToSet
  <1>2. ASSUME plan # <<>> PROVE ToSet(Tail(plan)) \subseteq ToSet(plan)
    <2> DEFINE n == Len(plan)
    <2>1. /\ n \in Nat \ {0} /\ DOMAIN plan = 1 .. n /\ DOMAIN Tail(plan) = 1 .. n - 1
          /\ \A i \in 1 .. n - 1 : Tail(plan)[i] = plan[i + 1]
      BY <1>2
    <2> HIDE DEF n
    <2>2. ASSUME NEW i \in 1 .. n - 1 PROVE Tail(plan)[i] \in ToSet(plan)
      <3>1. i + 1 \in 1 .. n
        BY <2>1
      <3> QED BY <2>1, <3>1 DEF ToSet
    <2> QED BY <2>1, <2>2 DEF ToSet
  <1>3. ASSUME plan # <<>> PROVE Head(plan) \in ToSet(plan)
    BY <1>3, HeadOfQueue DEF ToSet
  <1> QED BY <1>1, <1>2, <1>3

\* Every step keeps the invariant, and puts in flight only what the plan had room for.
LEMMA SparingStep == Sparing /\ [Next]_vars => Sparing' /\ WithinCap
  <1> SUFFICES ASSUME Sparing, [Next]_vars PROVE Sparing' /\ WithinCap
    OBVIOUS
  <1>t. Typed /\ Typed' /\ OnePlace /\ Awaited /\ Budget
    BY TypedStep DEF Sparing
  <1>p. /\ PrTypeOK /\ pass \in Passes /\ plan \in Seq(Prs) /\ verdict' \in States
        /\ queue \in Seq(Prs)
        /\ (pass.step = "sync" => plan # <<>> /\ sync["supervisor"].pr = Head(plan))
    BY <1>t DEF Typed, PassTyped, OnTask, PrTypeOK
  <1>c. pass.cap \in Nat
    BY <1>p, CapsAssumption DEF Passes
  <1>s. Spares => Sparing' /\ WithinCap
    <2>1. Spares => Budget'
      BY <1>c, <1>p, <1>t, BudgetKept DEF Spares, NoneEnters
    <2> QED BY <1>t, <2>1 DEF Spares, NoneEnters, Sparing, WithinCap
  <1>w. ASSUME NoneAsks, pass.step # "sync" PROVE Awaited'
    BY <1>t, <1>w DEF NoneAsks, Awaited
  <1>v. ASSUME NoneAsks, pass'.step = pass.step, sync'["supervisor"].pr = sync["supervisor"].pr
        PROVE  Awaited'
    BY <1>t, <1>v DEF NoneAsks, Awaited
  <1>u. ASSUME UNCHANGED <<queue, auto, pending, merged, unmetered>> PROVE NoneEnters /\ NoneAsks
    BY <1>t, <1>u, SamePlaces
  <1>a. ASSUME UNCHANGED <<pass, plan>>, sync'["supervisor"] = sync["supervisor"],
               NoneEnters, NoneAsks
        PROVE  Spares
    BY <1>a, <1>v DEF Spares, Metering
  <1>d. ASSUME EndSync("supervisor"), UNCHANGED <<queue, auto, pending, merged>>
        PROVE  NoneEnters /\ Awaited'
    <2>1. unmetered \subseteq unmetered'
      BY <1>d, <1>p, EndSyncMeters
    <2> QED BY <1>d, <1>t, <2>1, SamePlaces, EndSyncWaitsForNone
  <1>n. ASSUME NextInPlan, pass.step = "sync", UNCHANGED <<queue, auto, pending, merged>>
        PROVE  Spares
    <2>1. ToSet(plan') \subseteq ToSet(plan)
      BY <1>n, <1>p, PlanShrinks DEF NextInPlan
    <2>2. Metering' => Metering /\ pass'.cap = pass.cap
      BY <1>n, <1>p DEF NextInPlan, Metering, Passes
    <2> QED BY <1>d, <1>n, <2>1, <2>2 DEF NextInPlan, Spares
  <1>e. ASSUME EndPass, NoneEnters, Awaited' PROVE Spares
    <2>1. ToSet(plan') \subseteq ToSet(plan)
      BY <1>e, <1>p, PlanShrinks DEF EndPass
    <2> QED BY <1>e, <2>1, IdleType DEF EndPass, Spares, Metering
  <1>1. ASSUME NEW weather, NEW acts, NEW fresh, NEW blind \in BOOLEAN,
               StartPass(weather, acts, fresh, blind)
        PROVE  Sparing' /\ WithinCap
    <2>1. NoneEnters /\ Awaited'
      BY <1>1, <1>u, <1>w DEF StartPass, github
    <2>2. Budget'
      BY <1>1, <1>p, <1>t, StartPassBudget
    <2> QED BY <1>t, <2>1, <2>2 DEF NoneEnters, Sparing, WithinCap
  <1>2. CASE Admit
    <2>1. NoneEnters /\ Awaited' /\ UNCHANGED plan
      BY <1>2, <1>u, <1>w DEF Admit, github
    <2>2. Metering' => Metering /\ pass'.cap = pass.cap
      <3>1. CASE Reports
        BY <3>1, IdleType DEF Reports, Metering
      <3>2. CASE PassGoto("sync") /\ pass.step = "admit"
        BY <1>p, <3>2, GotoType DEF Metering, PassSteps
      <3> QED BY <1>2, <3>1, <3>2 DEF Admit
    <2> QED BY <1>s, <2>1, <2>2 DEF Spares
  <1>3. CASE Sync
    <2> DEFINE p == sync["supervisor"].pr
    <2>1. /\ MergeSync("supervisor", ~pass.blind) /\ UNCHANGED <<pass, plan>> /\ pass.step = "sync"
      BY <1>3 DEF Sync, passVars
    <2>2. /\ OnePlace' /\ Metered' \subseteq Metered \cup {p}
          /\ pending' \ unmetered' \subseteq (pending \ unmetered) \cup {p}
          /\ pass.blind => NoneEnters
      BY <1>p, <1>t, <2>1, MergeSyncPlaces DEF Callers
    <2>3. Awaited'
      <3>1. sync'["supervisor"].pr = p
        BY <1>p, <2>1, MergeSyncTypes DEF Callers
      <3>2. \A q \in pending \ unmetered : q = p
        BY <1>t DEF Awaited
      <3> HIDE DEF p
      <3> QED BY <2>1, <2>2, <3>1, <3>2 DEF Awaited
    <2>4. CASE pass.blind
      <3>1. Spares
        BY <2>1, <2>2, <2>3, <2>4 DEF Spares, Metering
      <3> QED BY <1>s, <3>1
    <2>5. CASE ~pass.blind
      <3>1. p \in ToSet(plan)
        BY <1>p, <2>1, PlanShrinks
      <3>2. Metering
        BY <2>1, <2>5 DEF Metering
      <3> HIDE DEF p
      <3>3. Budget'
        BY <1>c, <1>p, <1>t, <2>1, <2>2, <3>1, <3>2, BudgetKept
      <3>4. Cardinality(Metered') <= pass.cap
        <4> DEFINE A == Metered'
                   B == Metered \cup ToSet(plan)
        <4>1. Cardinality(B) <= pass.cap
          BY <1>t, <3>2 DEF Budget
        <4>2. A \in SUBSET B /\ B \in SUBSET Prs
          BY <1>p, <2>2, <3>1, MeteredArePrs
        <4> HIDE DEF A, B
        <4>3. IsFiniteSet(B)
          BY <4>2, PrsAssumption, FS_Subset
        <4>4. IsFiniteSet(A) /\ Cardinality(A) <= Cardinality(B)
          BY <4>2, <4>3, FS_Subset
        <4>5. Cardinality(A) \in Nat /\ Cardinality(B) \in Nat
          BY <4>3, <4>4, FS_CardinalityType
        <4>6. Cardinality(A) <= pass.cap
          BY <1>c, <4>1, <4>4, <4>5
        <4> QED BY <4>6 DEF A
      <3> QED BY <1>t, <2>2, <2>3, <3>3, <3>4 DEF Sparing, WithinCap
    <2> QED BY <2>4, <2>5
  <1>4. CASE Enqueued
    BY <1>4, <1>n, <1>s DEF Enqueued
  <1>5. CASE UpdateBranch
    <2>1. NoneEnters /\ NoneAsks
      <3>1. UNCHANGED <<auto, pending, merged, unmetered>>
        BY <1>5 DEF UpdateBranch
      <3>2. queue' = Dequeued(Head(plan)) \/ UNCHANGED queue
        BY <1>5 DEF UpdateBranch, NewHead
      <3> QED BY <1>p, <1>t, <1>u, <3>1, <3>2, DequeuedPlaces
    <2>2. UNCHANGED plan /\ pass' = [pass EXCEPT !.retried = TRUE] /\ pass.step = "sync"
      BY <1>5 DEF UpdateBranch
    <2>3. Metering' => Metering /\ pass'.cap = pass.cap
      BY <1>p, <2>2 DEF Metering, Passes
    <2>4. pass'.step = "sync"
      BY <1>p, <2>2 DEF Passes
    <2>5. sync'["supervisor"].pr = sync["supervisor"].pr
      BY <1>p, <1>t, <2>2, <2>4 DEF Typed, OnTask
    <2> QED BY <1>s, <1>v, <2>1, <2>2, <2>3, <2>4, <2>5 DEF Spares
  <1>6. CASE Refused
    BY <1>6, <1>n, <1>s DEF Refused
  <1>7. CASE Report
    <2>1. NoneEnters /\ Awaited' /\ UNCHANGED plan /\ PassGoto("state")
      BY <1>7, <1>u, <1>w DEF Report, refreshVars, prVars, github
    <2>2. ~Metering'
      BY <1>p, <2>1, GotoType DEF Metering, PassSteps
    <2> QED BY <1>s, <2>1, <2>2 DEF Spares
  <1>8. CASE State
    <2>1. NoneEnters /\ Awaited'
      BY <1>8, <1>u, <1>w DEF State, refreshVars, prVars, github
    <2> QED BY <1>8, <1>e, <1>s, <2>1 DEF State
  <1>9. CASE Cancel
    <2>1. NoneEnters /\ Awaited'
      BY <1>9, <1>d DEF Cancel, github
    <2> QED BY <1>9, <1>e, <1>s, <2>1 DEF Cancel
  <1>10. ASSUME NEW p \in Prs, Expire(p) PROVE Sparing' /\ WithinCap
    <2>1. UNCHANGED <<queue, auto, pending, merged, unmetered, sync, pass, plan>>
      BY <1>10 DEF Expire, refreshVars, prVars, github, passVars
    <2> QED BY <1>a, <1>s, <1>u, <2>1
  <1>11. CASE External /\ Apart
    <2>1. UNCHANGED sync /\ NoneEnters /\ NoneAsks
      BY <1>11, <1>p, <1>t, ExternalPlaces, ExternalTypes
    <2> QED BY <1>11, <1>a, <1>s, <2>1 DEF Apart, passVars
  <1>12. CASE RefreshNext /\ Apart
    <2>1. sync'["supervisor"] = sync["supervisor"] /\ NoneEnters /\ NoneAsks
      BY <1>12, <1>p, <1>t, RefreshPlaces, RefreshTypes DEF Typed
    <2> QED BY <1>12, <1>a, <1>s, <2>1 DEF Apart, passVars
  <1>13. CASE UNCHANGED vars
    <2>1. UNCHANGED <<queue, auto, pending, merged, unmetered, sync, pass, plan>>
      BY <1>13 DEF vars, refreshVars, prVars, github, passVars
    <2> QED BY <1>a, <1>s, <1>u, <2>1
  <1>14. ASSUME NEW acts \in BOOLEAN, Starts(acts) PROVE Sparing' /\ WithinCap
    BY <1>1, <1>14 DEF Starts
  <1> QED
    BY <1>2, <1>3, <1>4, <1>5, <1>6, <1>7, <1>8, <1>9, <1>10, <1>11, <1>12, <1>13, <1>14
    DEF Next, PassStep

\* Whatever merges, ejections, auto-merges, refreshes and cancelled passes come between, a pass
\* puts nothing in flight beyond the cap it started with (capacity, :1767-1768).
THEOREM QueueAdmitsWithinCap == Spec => AdmitsWithinCap
  <1>1. Spec => []Sparing
    BY SparingInit, SparingStep, PTL DEF Spec
  <1>2. Sparing /\ [Next]_vars => [WithinCap]_vars
    BY SparingStep
  <1> QED BY <1>1, <1>2, PTL DEF Spec, AdmitsWithinCap

--------------------------------------------------------------------------------
\* A plan is cut, never reordered.
LEMMA FollowsStep == Typed /\ Follows(plan) /\ [Next]_vars => Follows(plan)'
  <1> SUFFICES ASSUME Typed, Follows(plan), [Next]_vars PROVE Follows(plan')
    OBVIOUS
  <1>t. plan \in Seq(Prs) /\ Typed'
    BY TypedStep DEF Typed, PassTyped
  <1>1. ASSUME NEW weather, NEW acts, NEW fresh, NEW blind \in BOOLEAN,
               StartPass(weather, acts, fresh, blind)
        PROVE  Follows(plan')
    <2>1. PICK cap \in Caps(verdict'.mode) :
            plan' = IF acts THEN PlanOf(InFlightAsSeen(blind), cap) ELSE <<>>
      BY <1>1 DEF StartPass
    <2>2. cap \in Nat
      BY <1>t, <2>1, CapsType, CapsAssumption DEF Typed, PassTyped
    <2>3. Follows(PlanOf(InFlightAsSeen(blind), cap))
      BY <2>2, InFlightFinite, PlanOfProperties
    <2>4. Follows(<<>>)
      BY DEF Follows
    <2> QED BY <2>1, <2>3, <2>4
  <1>2. ASSUME NextInPlan, plan # <<>> PROVE Follows(plan')
    <2> DEFINE n == Len(plan)
               rest == Tail(plan)
    <2>1. /\ n \in Nat \ {0} /\ Len(rest) = n - 1
          /\ \A i \in 1 .. n - 1 : rest[i] = plan[i + 1]
      BY <1>2, <1>t
    <2>2. \A i, j \in 1 .. n : i < j /\ plan[j] \in DependsOn[plan[i]] => Knotted(plan[i])
      BY DEF Follows
    <2> HIDE DEF n, rest
    <2>3. ASSUME NEW i \in 1 .. n - 1, NEW j \in 1 .. n - 1, i < j,
                 rest[j] \in DependsOn[rest[i]]
          PROVE  Knotted(rest[i])
      <3>1. i + 1 \in 1 .. n /\ j + 1 \in 1 .. n /\ i + 1 < j + 1
        BY <2>1, <2>3
      <3>2. rest[i] = plan[i + 1] /\ rest[j] = plan[j + 1]
        BY <2>1
      <3> QED BY <2>2, <2>3, <3>1, <3>2
    <2>4. Follows(rest)
      BY <2>1, <2>3 DEF Follows
    <2>5. plan' = rest
      BY <1>2 DEF NextInPlan, rest
    <2> QED BY <2>4, <2>5
  <1>3. ASSUME EndPass PROVE Follows(plan')
    BY <1>3 DEF EndPass, Follows
  <1>4. ASSUME UNCHANGED plan PROVE Follows(plan')
    BY <1>4
  <1>5. pass.step = "sync" => plan # <<>>
    BY DEF Typed, OnTask
  <1>6. CASE Enqueued \/ Refused
    BY <1>2, <1>5, <1>6 DEF Enqueued, Refused
  <1>7. CASE State \/ Cancel
    BY <1>3, <1>7 DEF State, Cancel
  <1>8. CASE Admit \/ Sync \/ UpdateBranch \/ Report \/ (\E p \in Prs : Expire(p)) \/ Apart
             \/ UNCHANGED vars
    BY <1>4, <1>8 DEF Admit, Sync, UpdateBranch, Report, Expire, Apart, vars, passVars
  <1>9. ASSUME NEW acts \in BOOLEAN, Starts(acts) PROVE Follows(plan')
    BY <1>1, <1>9 DEF Starts
  <1> QED BY <1>6, <1>7, <1>8, <1>9 DEF Next, PassStep

\* Whatever pull requests are eligible and in flight, no plan has a pull request before one
\* that it depends on, unless it waits for a cycle, which toTopoOrder puts last by number.
THEOREM QueueFollows == Spec => []Follows(plan)
  <1>1. Init => Follows(plan)
    BY DEF Init, Follows
  <1>2. Spec => []Typed
    BY TypedInit, TypedStep, PTL DEF Spec
  <1> QED BY <1>1, <1>2, FollowsStep, PTL DEF Spec

\* So a pass follows the dependencies (toTopoOrder, :607-646) if nobody waits for a cycle.
THEOREM QueuePlansFollowDependencies ==
  (\A p \in Prs : ~Knotted(p)) => (Spec => []PlansFollowDependencies)
  <1> SUFFICES ASSUME \A p \in Prs : ~Knotted(p)
               PROVE  Spec => []PlansFollowDependencies
    OBVIOUS
  <1>1. Typed /\ Follows(plan) => PlansFollowDependencies
    BY DEF Typed, PassTyped, Follows, PlansFollowDependencies
  <1>2. Spec => []Typed
    BY TypedInit, TypedStep, PTL DEF Spec
  <1> QED BY <1>1, <1>2, QueueFollows, PTL
=================================================================================
