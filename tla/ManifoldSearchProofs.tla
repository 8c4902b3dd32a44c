------------------------ MODULE ManifoldSearchProofs ------------------------
(***************************************************************************)
(* Proofs about ManifoldSearch, for every graph, every list a backend may  *)
(* return and every depth and limit: a walk over the call edges finds      *)
(* exactly what is near enough, and a fusion keeps the best results.       *)
(***************************************************************************)
EXTENDS ManifoldSearch, FiniteSetTheorems, SequenceTheorems, WellFoundedInduction, TLAPS

-----------------------------------------------------------------------------
(***************************************************************************)
(* Numbers, sets and sequences                                             *)
(***************************************************************************)
\* A set of natural numbers with 0 and every successor has them all.
LEMMA NaturalsFrom0 ==
  ASSUME NEW T \in SUBSET Nat, 0 \in T, \A n \in T : n + 1 \in T
  PROVE  T = Nat
<1>1. SUFFICES ASSUME NEW n \in Nat, n \notin T PROVE FALSE
  OBVIOUS
<1> DEFINE Upto == {1 .. m : m \in Nat \ T}
<1>2. IsWellFoundedOn(StrictSubsetOrdering(Nat), FiniteSubsetsOf(Nat))
  BY FS_StrictSubsetOrderingWellFounded
<1>3. \A m \in Nat : 1 .. m \in FiniteSubsetsOf(Nat)
  <2>1. \A m \in Nat : 1 .. m \in SUBSET Nat /\ IsFiniteSet(1 .. m)
    BY FS_Interval
  <2>. QED
    BY <2>1 DEF FiniteSubsetsOf
<1>4. Upto \subseteq FiniteSubsetsOf(Nat) /\ 1 .. n \in Upto
  BY <1>1, <1>3
<1> HIDE DEF Upto
<1>5. PICK S \in Upto : \A U \in Upto : <<U, S>> \notin StrictSubsetOrdering(Nat)
  BY <1>2, <1>4, WFMin
<1>6. PICK m \in Nat \ T : S = 1 .. m
  BY <1>5 DEF Upto
<1>7. m # 0 /\ m - 1 \in Nat \ T
  <2>1. m - 1 + 1 = m
    OBVIOUS
  <2>. QED
    BY <2>1
<1>8. 1 .. (m - 1) \in Upto
  BY <1>7 DEF Upto
<1>9. /\ 1 .. (m - 1) \subseteq 1 .. m /\ m \in 1 .. m /\ m \notin 1 .. (m - 1) /\ 1 .. m \subseteq Nat
  BY <1>7
<1>. QED
  BY <1>5, <1>6, <1>8, <1>9 DEF StrictSubsetOrdering

\* Of a set of natural numbers with a member, one is the least.
LEMMA LeastMember ==
  ASSUME NEW S \in SUBSET Nat, S # {}
  PROVE  \E k \in S : \A j \in S : k <= j
<1>1. SUFFICES ASSUME \A k \in S : \E j \in S : j < k
               PROVE  FALSE
  <2>1. \A k, j \in S : ~(k <= j) => j < k
    OBVIOUS
  <2>. QED
    BY <2>1
<1> DEFINE T == {m \in Nat : \A i \in 0 .. m : i \notin S}
<1>2. 0 \in T
  <2>1. 0 \notin S
    BY <1>1
  <2>. QED
    BY <2>1
<1>3. ASSUME NEW m \in T PROVE m + 1 \in T
  <2>1. \A i \in 0 .. m : i \notin S
    OBVIOUS
  <2>2. m + 1 \notin S
    <3>1. ASSUME NEW j \in S, j < m + 1 PROVE FALSE
      <4>1. j \in 0 .. m
        BY <3>1
      <4>. QED
        BY <2>1, <4>1
    <3>. QED
      BY <1>1, <3>1
  <2>. QED
    BY <2>1, <2>2
<1>4. T = Nat
  <2>1. T \in SUBSET Nat
    OBVIOUS
  <2> HIDE DEF T
  <2>. QED
    BY <1>2, <1>3, <2>1, NaturalsFrom0
<1>5. PICK n : n \in S
  OBVIOUS
<1>6. n \in T
  BY <1>4, <1>5
<1>. QED
  BY <1>5, <1>6

\* Min of the community modules is this one.
LEMMA MinIsLeast ==
  ASSUME NEW S \in SUBSET Nat, S # {}
  PROVE  Min(S) \in S /\ \A j \in S : Min(S) <= j
<1>1. \E k \in S : \A j \in S : k <= j
  BY LeastMember
<1>. QED
  BY <1>1, Zenon DEF Min

\* Max of a finite set of natural numbers.
LEMMA MaxOfInterval ==
  ASSUME NEW n \in Nat, n # 0
  PROVE  Max(1 .. n) = n
<1>1. n \in 1 .. n /\ \A j \in 1 .. n : n >= j
  OBVIOUS
<1>2. Max(1 .. n) \in 1 .. n /\ \A j \in 1 .. n : Max(1 .. n) >= j
  BY <1>1, Zenon DEF Max
<1>. QED
  BY <1>1, <1>2

\* The elements of a concatenation, of what is left behind the head, and of all but
\* the order of a set.
LEMMA ConcatSet ==
  ASSUME NEW S, NEW a \in Seq(S), NEW b \in Seq(S)
  PROVE  /\ a \o b \in Seq(S) /\ ToSet(a \o b) = ToSet(a) \cup ToSet(b)
         /\ ToSet(a) \subseteq S /\ ToSet(b) \subseteq S
<1>1. /\ a \o b \in Seq(S) /\ Len(a \o b) = Len(a) + Len(b) /\ Len(a) \in Nat /\ Len(b) \in Nat
      /\ DOMAIN a = 1 .. Len(a) /\ DOMAIN b = 1 .. Len(b)
  BY ConcatProperties, LenProperties
<1>2. DOMAIN (a \o b) = 1 .. Len(a) + Len(b)
  BY <1>1, LenProperties
<1>3. \A i \in 1 .. Len(a) + Len(b) : (a \o b)[i] = IF i <= Len(a) THEN a[i] ELSE b[i - Len(a)]
  BY ConcatProperties
<1> DEFINE c == a \o b
<1> HIDE DEF c
<1>4. ASSUME NEW i \in DOMAIN c PROVE c[i] \in ToSet(a) \cup ToSet(b)
  <2>1. i \in 1 .. Len(a) + Len(b)
    BY <1>2 DEF c
  <2>2. CASE i <= Len(a)
    <3>1. i \in DOMAIN a /\ c[i] = a[i]
      BY <1>1, <1>3, <2>1, <2>2 DEF c
    <3>. QED
      BY <3>1 DEF ToSet
  <2>3. CASE ~(i <= Len(a))
    <3>1. i - Len(a) \in DOMAIN b /\ c[i] = b[i - Len(a)]
      BY <1>1, <1>3, <2>1, <2>3 DEF c
    <3>. QED
      BY <3>1 DEF ToSet
  <2>. QED
    BY <2>2, <2>3
<1>5. ASSUME NEW i \in DOMAIN a PROVE a[i] \in ToSet(c)
  <2>1. i \in DOMAIN c /\ c[i] = a[i]
    BY <1>1, <1>2, <1>3 DEF c
  <2>. QED
    BY <2>1 DEF ToSet
<1>6. ASSUME NEW i \in DOMAIN b PROVE b[i] \in ToSet(c)
  <2>1. Len(a) + i \in 1 .. Len(a) + Len(b) /\ ~(Len(a) + i <= Len(a)) /\ Len(a) + i - Len(a) = i
    BY <1>1
  <2>2. Len(a) + i \in DOMAIN c /\ c[Len(a) + i] = b[i]
    BY <1>2, <1>3, <2>1 DEF c
  <2>. QED
    BY <2>2 DEF ToSet
<1>7. ToSet(c) = ToSet(a) \cup ToSet(b)
  BY <1>4, <1>5, <1>6 DEF ToSet
<1>8. ToSet(a) \subseteq S /\ ToSet(b) \subseteq S
  BY <1>1 DEF ToSet
<1>. QED
  BY <1>1, <1>7, <1>8 DEF c

\* Disjoint sequences without repetition have a concatenation without repetition.
LEMMA ConcatInjective ==
  ASSUME NEW S, NEW a \in Seq(S), NEW b \in Seq(S), IsInjective(a), IsInjective(b),
         ToSet(a) \cap ToSet(b) = {}
  PROVE  IsInjective(a \o b)
<1> DEFINE c == a \o b
<1>1. /\ Len(a) \in Nat /\ Len(b) \in Nat /\ DOMAIN a = 1 .. Len(a) /\ DOMAIN b = 1 .. Len(b)
      /\ DOMAIN c = 1 .. Len(a) + Len(b)
  <2>1. c \in Seq(S) /\ Len(c) = Len(a) + Len(b)
    BY ConcatProperties
  <2> HIDE DEF c
  <2>. QED
    BY <2>1, LenProperties
<1>2. \A i \in 1 .. Len(a) + Len(b) : c[i] = IF i <= Len(a) THEN a[i] ELSE b[i - Len(a)]
  BY ConcatProperties
<1> HIDE DEF c
<1>3. \A i \in DOMAIN c : \/ i <= Len(a) /\ i \in DOMAIN a /\ c[i] = a[i] /\ c[i] \in ToSet(a)
                          \/ /\ ~(i <= Len(a)) /\ i - Len(a) \in DOMAIN b
                             /\ c[i] = b[i - Len(a)] /\ c[i] \in ToSet(b)
  <2>1. SUFFICES ASSUME NEW i \in DOMAIN c
                 PROVE  \/ i <= Len(a) /\ i \in DOMAIN a /\ c[i] = a[i] /\ c[i] \in ToSet(a)
                        \/ /\ ~(i <= Len(a)) /\ i - Len(a) \in DOMAIN b
                           /\ c[i] = b[i - Len(a)] /\ c[i] \in ToSet(b)
    OBVIOUS
  <2>2. CASE i <= Len(a)
    <3>1. i \in DOMAIN a /\ c[i] = a[i]
      BY <1>1, <1>2, <2>2
    <3>. QED
      BY <2>2, <3>1 DEF ToSet
  <2>3. CASE ~(i <= Len(a))
    <3>1. i - Len(a) \in DOMAIN b /\ c[i] = b[i - Len(a)]
      BY <1>1, <1>2, <2>3
    <3>. QED
      BY <2>3, <3>1 DEF ToSet
  <2>. QED
    BY <2>2, <2>3
<1>4. ASSUME NEW i \in DOMAIN c, NEW j \in DOMAIN c, c[i] = c[j] PROVE i = j
  <2>1. i \in Nat /\ j \in Nat
    BY <1>1
  <2>2. CASE i <= Len(a) /\ j <= Len(a)
    BY <1>3, <1>4, <2>2 DEF IsInjective
  <2>3. CASE ~(i <= Len(a)) /\ ~(j <= Len(a))
    <3>1. i - Len(a) \in DOMAIN b /\ j - Len(a) \in DOMAIN b /\ b[i - Len(a)] = b[j - Len(a)]
      BY <1>3, <1>4, <2>3
    <3>2. i - Len(a) = j - Len(a)
      BY <3>1 DEF IsInjective
    <3>. QED
      BY <1>1, <2>1, <3>2
  <2>. QED
    BY <1>3, <1>4, <2>2, <2>3
<1>. QED
  BY <1>4 DEF IsInjective, c

\* A sequence over a set is one over every larger set.
LEMMA LargerSeq ==
  ASSUME NEW S, NEW R, S \subseteq R, NEW s \in Seq(S)
  PROVE  s \in Seq(R)
OBVIOUS

\* The head of a sequence and the elements behind it.
LEMMA HeadAndTail ==
  ASSUME NEW S, NEW s \in Seq(S), s # <<>>
  PROVE  /\ Head(s) \in S /\ Tail(s) \in Seq(S) /\ ToSet(s) = {Head(s)} \cup ToSet(Tail(s))
         /\ Len(s) = 1 <=> Tail(s) = <<>>
<1> DEFINE t == Tail(s)
<1>1. /\ Head(s) = s[1] /\ s[1] \in S /\ t \in Seq(S) /\ Len(t) = Len(s) - 1 /\ Len(s) \in Nat
      /\ DOMAIN s = 1 .. Len(s) /\ 1 \in DOMAIN s
      /\ \A i \in 1 .. Len(s) - 1 : t[i] = s[i + 1]
  BY HeadTailProperties, LenProperties
<1> HIDE DEF t
<1>2. DOMAIN t = 1 .. Len(s) - 1 /\ (t = <<>> <=> Len(t) = 0)
  BY <1>1, LenProperties, EmptySeq
<1>3. ASSUME NEW i \in DOMAIN s PROVE s[i] \in {s[1]} \cup ToSet(t)
  <2>1. CASE i = 1
    BY <2>1
  <2>2. CASE i # 1
    <3>1. i - 1 \in 1 .. Len(s) - 1 /\ i - 1 + 1 = i
      BY <1>1, <2>2
    <3>2. t[i - 1] = s[i] /\ i - 1 \in DOMAIN t
      BY <1>1, <1>2, <3>1
    <3>. QED
      BY <3>2 DEF ToSet
  <2>. QED
    BY <2>1, <2>2
<1>4. ASSUME NEW i \in DOMAIN t PROVE t[i] \in ToSet(s)
  <2>1. i + 1 \in DOMAIN s /\ t[i] = s[i + 1]
    BY <1>1, <1>2
  <2>. QED
    BY <2>1 DEF ToSet
<1>5. ToSet(s) = {s[1]} \cup ToSet(t)
  BY <1>1, <1>3, <1>4 DEF ToSet
<1>. QED
  BY <1>1, <1>2, <1>5 DEF t

\* An order of a finite set has each of its elements once.
LEMMA OrderOfSet ==
  ASSUME NEW S, IsFiniteSet(S), NEW order \in SetToSeqs(S)
  PROVE  /\ order \in Seq(S) /\ Len(order) = Cardinality(S) /\ DOMAIN order = 1 .. Cardinality(S)
         /\ ToSet(order) = S /\ IsInjective(order) /\ Cardinality(S) \in Nat
<1> DEFINE n == Cardinality(S)
<1>1. order \in [1 .. n -> S] /\ \A i, j \in 1 .. n : i # j => order[i] # order[j]
  BY DEF SetToSeqs
<1>2. n \in Nat
  BY FS_CardinalityType
<1> HIDE DEF n
<1>3. order \in Seq(S) /\ Len(order) = n /\ DOMAIN order = 1 .. n
  BY <1>1, <1>2
<1>4. IsInjective(order)
  BY <1>1 DEF IsInjective
<1>5. order \in Injection(1 .. n, S)
  BY <1>1, <1>4 DEF Injection, IsInjective
<1>6. Cardinality(1 .. n) = n
  <2>1. 1 \in Int /\ n \in Int
    BY <1>2
  <2>2. Cardinality(1 .. n) = IF 1 > n THEN 0 ELSE n - 1 + 1
    BY <2>1, FS_Interval
  <2>. QED
    BY <1>2, <2>2
<1>7. order \in Surjection(1 .. n, S)
  <2>1. Cardinality(1 .. n) = Cardinality(S)
    BY <1>6 DEF n
  <2>. QED
    BY <1>5, <2>1, FS_Injection
<1>8. ToSet(order) = S
  BY <1>1, <1>7 DEF Surjection, ToSet
<1>. QED
  BY <1>2, <1>3, <1>4, <1>8 DEF n

-----------------------------------------------------------------------------
(***************************************************************************)
(* The nodes near a target                                                 *)
(***************************************************************************)
\* The callers of a node in the graph of a scenario, and those of a set of nodes.
CallersIn(s, n) == {m \in s.nodes : <<m, n>> \in s.calls}
CallersOf(s, S) == UNION {CallersIn(s, n) : n \in S}

\* The equation the nodes near a target solve, and its chosen solution.
Grows(s, t, f) ==
  f = [d \in 0 .. MaxDepth |-> IF d = 0 THEN {t} ELSE f[d - 1] \cup CallersOf(s, f[d - 1])]
Near(s, t) == CHOOSE f : Grows(s, t, f)

\* The recursive function of the model is this solution.
LEMMA WithinIsNear == Within = Near(scenario, walk.target)
BY Zenon DEF Within, Near, Grows, CallersOf, CallersIn, Callers

\* The equation has a solution: one up to a depth extends to the next.
LEMMA NearExists ==
  ASSUME NEW s, NEW t
  PROVE  \E f : Grows(s, t, f)
<1> DEFINE Upto(k, f) ==
             f = [d \in 0 .. k |-> IF d = 0 THEN {t} ELSE f[d - 1] \cup CallersOf(s, f[d - 1])]
           T == {k \in Nat : \E f : Upto(k, f)}
<1>1. 0 \in T
  <2> DEFINE g == [d \in 0 .. 0 |-> {t}]
  <2>1. Upto(0, g)
    <3>1. \A d \in 0 .. 0 : d = 0 /\ g[d] = {t}
      OBVIOUS
    <3>2. g = [d \in 0 .. 0 |-> g[d]]
      OBVIOUS
    <3> HIDE DEF g
    <3>. QED
      BY <3>1, <3>2
  <2>. QED
    BY <2>1
<1>2. ASSUME NEW k \in T PROVE k + 1 \in T
  <2>1. k \in Nat
    OBVIOUS
  <2>2. PICK f : Upto(k, f)
    BY Zenon
  <2> DEFINE g == [d \in 0 .. k + 1 |-> IF d = 0 THEN {t} ELSE f[d - 1] \cup CallersOf(s, f[d - 1])]
  <2>3. ASSUME NEW d \in 0 .. k PROVE g[d] = f[d]
    <3>1. f[d] = IF d = 0 THEN {t} ELSE f[d - 1] \cup CallersOf(s, f[d - 1])
      BY <2>2, Zenon
    <3>2. d \in 0 .. k + 1
      BY <2>1
    <3>. QED
      BY <3>1, <3>2
  <2>4. ASSUME NEW d \in 0 .. k + 1, d # 0 PROVE g[d - 1] = f[d - 1]
    <3>1. d - 1 \in 0 .. k
      BY <2>1, <2>4
    <3> HIDE DEF g
    <3>. QED
      BY <2>3, <3>1
  <2>5. \A d \in 0 .. k + 1 : g[d] = IF d = 0 THEN {t} ELSE g[d - 1] \cup CallersOf(s, g[d - 1])
    <3>1. \A d \in 0 .. k + 1 : g[d] = IF d = 0 THEN {t} ELSE f[d - 1] \cup CallersOf(s, f[d - 1])
      OBVIOUS
    <3> HIDE DEF g
    <3>. QED
      BY <2>4, <3>1
  <2>6. g = [d \in 0 .. k + 1 |-> g[d]]
    OBVIOUS
  <2>7. Upto(k + 1, g)
    <3> HIDE DEF g
    <3>. QED
      BY <2>5, <2>6
  <2>8. k + 1 \in Nat /\ \E f1 : Upto(k + 1, f1)
    <3> HIDE DEF g, Upto
    <3>. QED
      BY <2>1, <2>7
  <2>. QED
    BY <2>8
<1>3. T = Nat
  <2>1. T \in SUBSET Nat
    OBVIOUS
  <2> HIDE DEF T
  <2>. QED
    BY <1>1, <1>2, <2>1, NaturalsFrom0
<1>4. MaxDepth \in T
  <2> HIDE DEF T
  <2>. QED
    BY <1>3, SearchConstants
<1>5. PICK f : Upto(MaxDepth, f)
  BY <1>4
<1>. QED
  BY <1>5 DEF Grows

\* At depth 0 there is the target, at each further depth the callers of what was near.
LEMMA NearAt ==
  ASSUME NEW s, NEW t, NEW d \in 0 .. MaxDepth
  PROVE  /\ Near(s, t)[0] = {t}
         /\ d # 0 => Near(s, t)[d] = Near(s, t)[d - 1] \cup CallersOf(s, Near(s, t)[d - 1])
<1> DEFINE f == Near(s, t)
<1>1. Grows(s, t, f)
  BY NearExists, Zenon DEF Near
<1> HIDE DEF f
<1>2. f = [e \in 0 .. MaxDepth |-> IF e = 0 THEN {t} ELSE f[e - 1] \cup CallersOf(s, f[e - 1])]
  BY <1>1, Zenon DEF Grows
<1>3. \A e \in 0 .. MaxDepth : f[e] = IF e = 0 THEN {t} ELSE f[e - 1] \cup CallersOf(s, f[e - 1])
  BY <1>2, Zenon
<1>4. 0 \in 0 .. MaxDepth
  BY SearchConstants
<1>. QED
  BY <1>3, <1>4 DEF f

\* What is near stays near at every further depth.
LEMMA NearGrows ==
  ASSUME NEW s, NEW t, NEW d \in 0 .. MaxDepth, NEW e \in d .. MaxDepth
  PROVE  Near(s, t)[d] \subseteq Near(s, t)[e]
<1> DEFINE f == Near(s, t)
           T == {k \in Nat : d + k <= MaxDepth => f[d] \subseteq f[d + k]}
<1>0. MaxDepth \in Nat
  BY SearchConstants
<1>1. 0 \in T
  OBVIOUS
<1>2. ASSUME NEW k \in T PROVE k + 1 \in T
  <2>1. SUFFICES ASSUME d + (k + 1) <= MaxDepth PROVE f[d] \subseteq f[d + (k + 1)]
    OBVIOUS
  <2>2. d + (k + 1) \in 0 .. MaxDepth /\ d + (k + 1) # 0 /\ d + (k + 1) - 1 = d + k /\ d + k <= MaxDepth
    BY <1>0, <2>1
  <2>3. f[d + k] \subseteq f[d + (k + 1)]
    <3> HIDE DEF f
    <3> DEFINE e1 == d + (k + 1)
    <3>1. e1 \in 0 .. MaxDepth /\ e1 # 0 /\ e1 - 1 = d + k
      BY <2>2
    <3> HIDE DEF e1
    <3>2. f[e1] = f[e1 - 1] \cup CallersOf(s, f[e1 - 1])
      BY <3>1, NearAt DEF f
    <3>. QED
      BY <3>1, <3>2 DEF e1
  <2>4. f[d] \subseteq f[d + k]
    BY <2>2
  <2>. QED
    BY <2>3, <2>4
<1>3. T = Nat
  <2>1. T \in SUBSET Nat
    OBVIOUS
  <2> HIDE DEF T
  <2>. QED
    BY <1>1, <1>2, <2>1, NaturalsFrom0
<1>4. e - d \in Nat /\ d + (e - d) = e /\ e <= MaxDepth
  BY <1>0
<1>5. e - d \in T
  <2> HIDE DEF T
  <2>. QED
    BY <1>3, <1>4
<1>. QED
  BY <1>4, <1>5

\* Once all callers are near, nothing more gets near.
LEMMA NearStops ==
  ASSUME NEW s, NEW t, NEW d \in 0 .. MaxDepth, NEW e \in d .. MaxDepth,
         CallersOf(s, Near(s, t)[d]) \subseteq Near(s, t)[d]
  PROVE  Near(s, t)[e] = Near(s, t)[d]
<1> DEFINE f == Near(s, t)
           T == {k \in Nat : d + k <= MaxDepth => f[d + k] = f[d]}
<1>0. MaxDepth \in Nat
  BY SearchConstants
<1>1. 0 \in T
  OBVIOUS
<1>2. ASSUME NEW k \in T PROVE k + 1 \in T
  <2>1. SUFFICES ASSUME d + (k + 1) <= MaxDepth PROVE f[d + (k + 1)] = f[d]
    OBVIOUS
  <2>2. d + (k + 1) \in 0 .. MaxDepth /\ d + (k + 1) # 0 /\ d + (k + 1) - 1 = d + k /\ d + k <= MaxDepth
    BY <1>0, <2>1
  <2>3. f[d + (k + 1)] = f[d + k] \cup CallersOf(s, f[d + k])
    <3> HIDE DEF f
    <3> DEFINE e1 == d + (k + 1)
    <3>1. e1 \in 0 .. MaxDepth /\ e1 # 0 /\ e1 - 1 = d + k
      BY <2>2
    <3> HIDE DEF e1
    <3>2. f[e1] = f[e1 - 1] \cup CallersOf(s, f[e1 - 1])
      BY <3>1, NearAt DEF f
    <3>. QED
      BY <3>1, <3>2 DEF e1
  <2>4. f[d + k] = f[d]
    BY <2>2
  <2>. QED
    BY <2>3, <2>4
<1>3. T = Nat
  <2>1. T \in SUBSET Nat
    OBVIOUS
  <2> HIDE DEF T
  <2>. QED
    BY <1>1, <1>2, <2>1, NaturalsFrom0
<1>4. e - d \in Nat /\ d + (e - d) = e /\ e <= MaxDepth
  BY <1>0
<1>5. e - d \in T
  <2> HIDE DEF T
  <2>. QED
    BY <1>3, <1>4
<1>. QED
  BY <1>4, <1>5

-----------------------------------------------------------------------------
(***************************************************************************)
(* The walk                                                                *)
(***************************************************************************)
Walking == {"walk", "walked"}
Nearby == Near(scenario, walk.target)

\* The shape of the variables; outside of a walk its locals are not there.
WalkShape ==
  /\ walk = [target |-> walk.target, depth |-> walk.depth, frontier |-> walk.frontier,
             next |-> walk.next, visited |-> walk.visited, found |-> walk.found]
  /\ walk.depth \in 0 .. MaxDepth
  /\ walk.frontier \in Seq(walk.visited) /\ walk.next \in Seq(walk.visited)
  /\ walk.found \in Seq(scenario.nodes)

PlaceShape ==
  /\ scenario \in Scenarios
  /\ pc \in {"route", "ask", "walk", "walked", "look", "search", "execute", "fuse", "done"}
  /\ pc \notin Walking => walk = NoWalk
  /\ pc = "walked" => WalkOver
  /\ pc # "done" => answer.from = "none"

AnswerShape ==
  /\ decision.strategy \in {"none", "semantic", "structural", "hybrid", "keyword"}
  /\ decision.confidence \in {0, 50, 70, 85, 90}
  /\ resolved \in BOOLEAN
  /\ lists \in [semantic : Rankings \cup {<<>>}, structural : Rankings \cup {<<>>}]
  /\ answer.from \in {"none", "graph", "executor", "fusion", "error"}

\* Every node but the target is visited when it is reported, and is reported once.
Visits ==
  /\ walk.visited = ToSet(walk.found) \cup {walk.target}
  /\ walk.target \notin ToSet(walk.found) /\ IsInjective(walk.found)

\* At depth d the walk has visited what is near at d, and of what is near at d + 1
\* the callers of those nodes that are not on the frontier any more.
Levels ==
  /\ walk.visited = Nearby[walk.depth] \cup ToSet(walk.next)
  /\ ToSet(walk.next) \subseteq CallersOf(scenario, Nearby[walk.depth])
  /\ ToSet(walk.frontier) \subseteq Nearby[walk.depth]
  /\ \A n \in Nearby[walk.depth] \ ToSet(walk.frontier) :
       CallersIn(scenario, n) \subseteq walk.visited
  /\ walk.frontier = <<>> \/ walk.depth = MaxDepth => walk.next = <<>>

\* Closer nodes are reported first.
CloserFirst ==
  \A i, j \in DOMAIN walk.found : i < j =>
    \A e \in 0 .. walk.depth : walk.found[j] \in Nearby[e] => walk.found[i] \in Nearby[e]

WalkKnown == pc \in Walking => Visits /\ Levels /\ CloserFirst
Invariant == PlaceShape /\ WalkShape /\ AnswerShape /\ WalkKnown

\* A walk that has not begun, and one that begins.
LEMMA WalkBegins ==
  ASSUME scenario' = scenario, NEW target,
         walk' = [NoWalk EXCEPT !.target = target, !.frontier = <<target>>, !.visited = {target}]
  PROVE  WalkShape' /\ Visits' /\ Levels' /\ CloserFirst'
<1>b. walk' = [target |-> target, depth |-> 0, frontier |-> <<target>>, next |-> <<>>,
              visited |-> {target}, found |-> <<>>]
  BY DEF NoWalk
<1> DEFINE w == [target |-> target, depth |-> 0, frontier |-> <<target>>, next |-> <<>>,
                 visited |-> {target}, found |-> <<>>]
<1>0. /\ w.target = target /\ w.depth = 0 /\ w.frontier = <<target>> /\ w.next = <<>>
      /\ w.visited = {target} /\ w.found = <<>>
      /\ w = [target |-> w.target, depth |-> w.depth, frontier |-> w.frontier, next |-> w.next,
              visited |-> w.visited, found |-> w.found]
  OBVIOUS
<1>1. walk' = w
  BY <1>b
<1> HIDE DEF w
<1>2. MaxDepth \in Nat /\ 0 \in 0 .. MaxDepth
  BY SearchConstants
<1>3. <<target>> \in Seq({target}) /\ <<>> \in Seq({target}) /\ <<>> \in Seq(scenario.nodes)
  OBVIOUS
<1>4. ToSet(<<>>) = {} /\ ToSet(<<target>>) = {target} /\ IsInjective(<<>>)
  <2>1. DOMAIN <<>> = {} /\ DOMAIN <<target>> = {1} /\ <<target>>[1] = target
    OBVIOUS
  <2>. QED
    BY <2>1 DEF ToSet, IsInjective
<1>5. Near(scenario, target)[0] = {target}
  BY <1>2, NearAt
<1>6. WalkShape'
  BY <1>0, <1>1, <1>2, <1>3 DEF WalkShape
<1>7. Visits'
  BY <1>0, <1>1, <1>4 DEF Visits
<1>8. Levels'
  BY <1>0, <1>1, <1>4, <1>5 DEF Levels, Nearby
<1>9. CloserFirst'
  <2>1. DOMAIN <<>> = {}
    OBVIOUS
  <2>. QED
    BY <1>0, <1>1, <2>1 DEF CloserFirst
<1>. QED
  BY <1>6, <1>7, <1>8, <1>9

\* One query for the callers of the head of the frontier keeps what a walk knows.
LEMMA WalkContinues ==
  ASSUME PlaceShape, WalkShape, WalkKnown, WalkStep
  PROVE  WalkShape' /\ Visits' /\ Levels' /\ CloserFirst'
<1> DEFINE h == Head(walk.frontier)
           last == Len(walk.frontier) = 1
           d == walk.depth
           N == Near(scenario, walk.target)
<1>1. PICK rows \in SetToSeqs(Unseen(h)) :
        walk' = [walk EXCEPT !.visited = @ \cup ToSet(rows),
                             !.found = @ \o rows,
                             !.frontier = IF last THEN walk.next \o rows ELSE Tail(@),
                             !.next = IF last THEN <<>> ELSE walk.next \o rows,
                             !.depth = IF last THEN @ + 1 ELSE @]
  BY DEF WalkStep
<1>2. /\ pc = "walk" /\ walk.depth # MaxDepth /\ walk.frontier # <<>> /\ scenario' = scenario
      /\ Visits /\ Levels /\ CloserFirst
  BY DEF WalkStep, WalkOver, WalkKnown, Walking
<1>3. /\ walk'.visited = walk.visited \cup ToSet(rows)
      /\ walk'.found = walk.found \o rows /\ walk'.target = walk.target
      /\ walk'.frontier = IF last THEN walk.next \o rows ELSE Tail(walk.frontier)
      /\ walk'.next = IF last THEN <<>> ELSE walk.next \o rows
      /\ walk'.depth = IF last THEN d + 1 ELSE d
      /\ walk' = [target |-> walk'.target, depth |-> walk'.depth, frontier |-> walk'.frontier,
                  next |-> walk'.next, visited |-> walk'.visited, found |-> walk'.found]
  BY <1>1 DEF WalkShape
<1>4. d \in 0 .. MaxDepth - 1 /\ MaxDepth \in Nat /\ d + 1 \in 0 .. MaxDepth
  BY <1>2, SearchConstants DEF WalkShape
<1>5. /\ Unseen(h) \subseteq CallersIn(scenario, h) /\ Unseen(h) \subseteq scenario.nodes
      /\ Unseen(h) \cap walk.visited = {}
      /\ CallersIn(scenario, h) \subseteq walk.visited \cup Unseen(h)
  BY DEF Unseen, Callers, CallersIn
<1>6. /\ rows \in Seq(Unseen(h)) /\ ToSet(rows) = Unseen(h) /\ IsInjective(rows)
  <2>1. IsFiniteSet(Unseen(h))
    <3>1. IsFiniteSet(scenario.nodes)
      BY SearchConstants DEF PlaceShape
    <3>. QED
      BY <1>5, <3>1, FS_Subset
  <2>. QED
    BY <2>1, OrderOfSet
<1> DEFINE v == walk.visited \cup ToSet(rows)
<1>7. /\ rows \in Seq(v) /\ rows \in Seq(scenario.nodes)
      /\ walk.next \in Seq(v) /\ walk.frontier \in Seq(v)
  <2>1. /\ rows \in Seq(Unseen(h)) /\ Unseen(h) \subseteq v /\ Unseen(h) \subseteq scenario.nodes
    BY <1>5, <1>6
  <2>2. walk.next \in Seq(walk.visited) /\ walk.frontier \in Seq(walk.visited) /\ walk.visited \subseteq v
    BY DEF WalkShape
  <2> HIDE DEF v, h
  <2>. QED
    BY <2>1, <2>2, LargerSeq
<1>8. /\ h \in ToSet(walk.frontier) /\ Tail(walk.frontier) \in Seq(v)
      /\ ToSet(walk.frontier) = {h} \cup ToSet(Tail(walk.frontier))
      /\ last => Tail(walk.frontier) = <<>>
  BY <1>2, <1>7, HeadAndTail
<1>9. /\ walk.next \o rows \in Seq(v) /\ ToSet(walk.next \o rows) = ToSet(walk.next) \cup ToSet(rows)
      /\ walk.found \o rows \in Seq(scenario.nodes)
      /\ ToSet(walk.found \o rows) = ToSet(walk.found) \cup ToSet(rows)
  BY <1>7, ConcatSet DEF WalkShape
<1>10. ToSet(<<>>) = {} /\ <<>> \in Seq(v)
  BY DEF ToSet
<1>11. WalkShape'
  BY <1>2, <1>3, <1>4, <1>8, <1>9, <1>10 DEF WalkShape
<1>12. Visits'
  <2>1. ToSet(walk.found) \cap ToSet(rows) = {} /\ walk.target \notin ToSet(rows)
    BY <1>2, <1>5, <1>6 DEF Visits
  <2>2. IsInjective(walk.found \o rows)
    BY <1>2, <1>6, <1>7, <2>1, ConcatInjective DEF Visits, WalkShape
  <2>. QED
    BY <1>2, <1>3, <1>9, <2>1, <2>2 DEF Visits
<1>13. N = Nearby /\ Nearby' = N
  BY <1>2, <1>3 DEF Nearby
<1>14. /\ h \in N[d] /\ CallersIn(scenario, h) \subseteq CallersOf(scenario, N[d])
       /\ ToSet(rows) \subseteq CallersOf(scenario, N[d])
  <2>1. h \in N[d]
    BY <1>2, <1>8, <1>13 DEF Levels
  <2>. QED
    BY <1>5, <1>6, <2>1 DEF CallersOf
<1>15. \A n \in N[d] \ ToSet(Tail(walk.frontier)) : CallersIn(scenario, n) \subseteq v
  <2>1. \A n \in N[d] \ ToSet(Tail(walk.frontier)) : n = h \/ n \in N[d] \ ToSet(walk.frontier)
    BY <1>8
  <2>2. \A n \in N[d] \ ToSet(walk.frontier) : CallersIn(scenario, n) \subseteq walk.visited
    BY <1>2, <1>13 DEF Levels
  <2>3. CallersIn(scenario, h) \subseteq v
    BY <1>5, <1>6
  <2> HIDE DEF N, h
  <2>. QED
    BY <2>1, <2>2, <2>3
<1>16. v = N[d] \cup (ToSet(walk.next) \cup ToSet(rows))
  BY <1>2, <1>13 DEF Levels
<1>17. ToSet(walk.next) \subseteq CallersOf(scenario, N[d])
  BY <1>2, <1>13 DEF Levels
<1>18. last => N[d + 1] = v
  <2>1. SUFFICES ASSUME last PROVE N[d + 1] = v
    OBVIOUS
  <2>2. N[d + 1] = N[d] \cup CallersOf(scenario, N[d])
    <3> DEFINE d1 == d + 1
    <3>1. d1 \in 0 .. MaxDepth /\ d1 # 0 /\ d1 - 1 = d
      BY <1>4
    <3> HIDE DEF d1, d
    <3>2. N[d1] = N[d1 - 1] \cup CallersOf(scenario, N[d1 - 1])
      BY <3>1, NearAt
    <3>. QED
      BY <3>1, <3>2 DEF d1
  <2>3. CallersOf(scenario, N[d]) \subseteq v
    <3>1. \A n \in N[d] : CallersIn(scenario, n) \subseteq v
      BY <1>8, <1>10, <1>15, <2>1
    <3> HIDE DEF N, v
    <3>. QED
      BY <3>1 DEF CallersOf
  <2> HIDE DEF N, v
  <2>. QED
    BY <1>14, <1>16, <1>17, <2>2, <2>3
<1>19. Levels'
  <2> HIDE DEF N, d, h
  <2>1. CASE last
    <3>1. /\ walk'.visited = N[d + 1] /\ walk'.depth = d + 1 /\ walk'.next = <<>>
          /\ ToSet(walk'.frontier) = ToSet(walk.next) \cup ToSet(rows)
      BY <1>3, <1>9, <1>18, <2>1
    <3>2. ToSet(walk'.frontier) \subseteq N[d + 1]
      BY <1>16, <1>18, <2>1, <3>1
    <3>3. \A n \in N[d + 1] \ ToSet(walk'.frontier) : n \in N[d]
      BY <1>16, <1>18, <2>1, <3>1
    <3>4. \A n \in N[d + 1] \ ToSet(walk'.frontier) : CallersIn(scenario, n) \subseteq walk'.visited
      BY <1>8, <1>10, <1>15, <1>18, <2>1, <3>1, <3>3
    <3>. QED
      BY <1>2, <1>10, <1>13, <3>1, <3>2, <3>4 DEF Levels
  <2>2. CASE ~last
    <3>1. /\ walk'.visited = v /\ walk'.depth = d /\ walk'.next = walk.next \o rows
          /\ walk'.frontier = Tail(walk.frontier)
      BY <1>3, <2>2
    <3>2. ToSet(walk'.frontier) \subseteq N[d]
      BY <1>2, <1>8, <1>13, <3>1 DEF Levels, d
    <3>3. walk'.frontier # <<>>
      BY <1>2, <1>7, <2>2, <3>1, HeadAndTail
    <3>4. d # MaxDepth
      BY <1>2 DEF d
    <3>. QED
      BY <1>2, <1>9, <1>13, <1>14, <1>15, <1>16, <1>17, <3>1, <3>2, <3>3, <3>4 DEF Levels
  <2>. QED
    BY <2>1, <2>2
<1>20. CloserFirst'
  <2> DEFINE new == walk.found \o rows
  <2>1. /\ Len(walk.found) \in Nat /\ Len(rows) \in Nat /\ DOMAIN walk.found = 1 .. Len(walk.found)
        /\ DOMAIN rows = 1 .. Len(rows) /\ DOMAIN new = 1 .. Len(walk.found) + Len(rows)
        /\ \A i \in 1 .. Len(walk.found) + Len(rows) :
             new[i] = IF i <= Len(walk.found) THEN walk.found[i] ELSE rows[i - Len(walk.found)]
    <3>1. walk.found \in Seq(scenario.nodes) /\ rows \in Seq(scenario.nodes)
      BY <1>7 DEF WalkShape
    <3>2. new \in Seq(scenario.nodes) /\ Len(new) = Len(walk.found) + Len(rows)
      BY <3>1, ConcatProperties
    <3>3. DOMAIN new = 1 .. Len(new)
      <4> HIDE DEF new
      <4>. QED
        BY <3>2, LenProperties
    <3>. QED
      BY <3>1, <3>2, <3>3, LenProperties, ConcatProperties
  <2> HIDE DEF new
  <2>2. \A e \in 0 .. d : N[e] \subseteq N[d]
    <3> HIDE DEF N
    <3>1. ASSUME NEW e \in 0 .. d PROVE N[e] \subseteq N[d]
      <4>1. e \in 0 .. MaxDepth /\ d \in e .. MaxDepth
        BY <1>4
      <4> HIDE DEF d
      <4>. QED
        BY <4>1, NearGrows DEF N
    <3>. QED
      BY <3>1
  <2>3. ASSUME NEW j \in DOMAIN new, NEW e \in 0 .. d, new[j] \in N[e]
        PROVE  j <= Len(walk.found)
    <3>1. new[j] \in walk.visited
      BY <1>2, <1>13, <2>2, <2>3 DEF Levels
    <3>2. ~(j <= Len(walk.found)) => new[j] \in ToSet(rows)
      <4>1. ~(j <= Len(walk.found)) => j - Len(walk.found) \in DOMAIN rows
                                        /\ new[j] = rows[j - Len(walk.found)]
        BY <2>1
      <4>. QED
        BY <4>1 DEF ToSet
    <3>. QED
      BY <1>5, <1>6, <3>1, <3>2
  <2>4. ASSUME NEW i \in DOMAIN new, NEW j \in DOMAIN new, i < j, NEW e \in 0 .. d, new[j] \in N[e]
        PROVE  new[i] \in N[e]
    <3>1. j <= Len(walk.found)
      BY <2>3, <2>4
    <3>2. /\ i \in DOMAIN walk.found /\ j \in DOMAIN walk.found
          /\ new[i] = walk.found[i] /\ new[j] = walk.found[j]
      BY <2>1, <2>4, <3>1
    <3>. QED
      BY <1>2, <1>13, <2>4, <3>2 DEF CloserFirst
  <2>5. ASSUME last, NEW i \in DOMAIN new PROVE new[i] \in N[d + 1]
    <3>1. new[i] \in ToSet(walk.found) \cup ToSet(rows)
      <4>1. new[i] \in ToSet(new)
        BY DEF ToSet
      <4>. QED
        BY <1>9, <4>1 DEF new
    <3>2. ToSet(walk.found) \subseteq walk.visited
      BY <1>2 DEF Visits
    <3>. QED
      BY <1>18, <2>5, <3>1, <3>2
  <2>6. \A e \in 0 .. walk'.depth : e \in 0 .. d \/ (last /\ e = d + 1)
    BY <1>3, <1>4
  <2>7. walk'.found = new
    BY <1>3 DEF new
  <2> HIDE DEF N, d
  <2>. QED
    BY <1>13, <2>4, <2>5, <2>6, <2>7 DEF CloserFirst
<1>. QED
  BY <1>11, <1>12, <1>19, <1>20

\* Outside of a walk its locals have the shape of no walk.
LEMMA NoWalkShape ==
  ASSUME scenario' = scenario, walk' = NoWalk
  PROVE  WalkShape'
<1> DEFINE w == NoWalk
<1>1. /\ w.depth = 0 /\ w.frontier = <<>> /\ w.next = <<>> /\ w.found = <<>>
      /\ w = [target |-> w.target, depth |-> w.depth, frontier |-> w.frontier, next |-> w.next,
              visited |-> w.visited, found |-> w.found]
  BY DEF NoWalk
<1>2. walk' = w
  OBVIOUS
<1> HIDE DEF w
<1>3. 0 \in 0 .. MaxDepth
  BY SearchConstants
<1>4. <<>> \in Seq(w.visited) /\ <<>> \in Seq(scenario.nodes)
  OBVIOUS
<1>. QED
  BY <1>1, <1>2, <1>3, <1>4 DEF WalkShape

\* What Route decides.
LEMMA RoutedShape ==
  ASSUME NEW q
  PROVE  /\ Routed(q).strategy \in {"semantic", "structural", "hybrid", "keyword"}
         /\ Routed(q).confidence \in {0, 50, 70, 85, 90}
<1> DEFINE matched == {i \in DOMAIN Patterns : Patterns[i] \in q.patterns}
<1>1. DOMAIN Patterns = 1 .. 9
  BY DEF Patterns
<1>2. matched \in SUBSET Nat
  BY <1>1
<1>3. matched # {} => Min(matched) \in 1 .. 9
  <2> HIDE DEF matched
  <2>1. matched # {} => Min(matched) \in matched
    BY <1>2, MinIsLeast
  <2>. QED
    BY <1>1, <2>1 DEF matched
<1>4. FirstPattern(q) \in {"unknown", "blank", "caller", "callee", "blast", "inheritance",
                          "todo", "quoted", "symbol", "semantic"}
  <2>1. FirstPattern(q) = IF matched = {} THEN "unknown" ELSE Patterns[Min(matched)]
    BY DEF FirstPattern
  <2>2. \A i \in 1 .. 9 : Patterns[i] \in {"blank", "caller", "callee", "blast", "inheritance",
                                          "todo", "quoted", "symbol", "semantic"}
    BY DEF Patterns
  <2> HIDE DEF matched
  <2>. QED
    BY <1>3, <2>1, <2>2
<1> DEFINE mixed == "hybrid" \in q.patterns
           first == FirstPattern(q)
<1>5. /\ first = "blank" => Routed(q) = Plain("semantic", 0)
      /\ first = "caller" => Routed(q) = Structural("callers", 90, mixed)
      /\ first = "callee" => Routed(q) = Structural("callees", 90, mixed)
      /\ first = "blast" => Routed(q) = Structural("blast", 85, mixed)
      /\ first = "inheritance" => Routed(q) = Structural("inheritance", 85, mixed)
      /\ first = "todo" => Routed(q) = Plain("keyword", 90)
      /\ first = "quoted" => Routed(q) = Plain("keyword", 85)
      /\ first = "symbol" =>
           Routed(q) = Structural("search", 70, mixed \/ "semantic" \in q.patterns)
      /\ first = "semantic" => Routed(q) = Plain("semantic", 70)
      /\ first = "unknown" => Routed(q) = Plain("semantic", 50)
  BY DEF Routed
<1>6. /\ \A op, c, m : /\ Structural(op, c, m).strategy \in {"structural", "hybrid"}
                      /\ Structural(op, c, m).confidence = c
      /\ \A st, c : Plain(st, c).strategy = st /\ Plain(st, c).confidence = c
  BY DEF Structural, Plain
<1> HIDE DEF first, mixed
<1>7. CASE first \in {"caller", "callee", "blast", "inheritance", "symbol"}
  BY <1>5, <1>6, <1>7
<1>8. CASE first \in {"blank", "todo", "quoted", "semantic", "unknown"}
  BY <1>5, <1>6, <1>8
<1>. QED
  BY <1>4, <1>7, <1>8 DEF first

\* The shape of the variables and what a walk knows are there to stay.
LEMMA InvariantStep ==
  ASSUME Invariant, [Next]_vars
  PROVE  Invariant'
<1>1. ASSUME scenario' = scenario, walk' = NoWalk, pc' \notin Walking, PlaceShape', AnswerShape'
      PROVE  Invariant'
  BY <1>1, NoWalkShape DEF Invariant, WalkKnown
<1>2. ASSUME scenario' = scenario, WalkShape', Visits', Levels', CloserFirst', PlaceShape', AnswerShape'
      PROVE  Invariant'
  BY <1>2 DEF Invariant, WalkKnown
<1>3. ASSUME UNCHANGED <<scenario, walk>>, pc \in Walking, PlaceShape', AnswerShape'
      PROVE  Invariant'
  <2>1. WalkShape' /\ Visits' /\ Levels' /\ CloserFirst'
    BY <1>3 DEF Invariant, WalkKnown, WalkShape, Visits, Levels, CloserFirst, Nearby
  <2>. QED
    BY <1>3, <2>1 DEF Invariant, WalkKnown
<1>4. CASE UNCHANGED vars
  <2>1. UNCHANGED <<scenario, pc, decision, walk, resolved, lists, answer>>
    BY <1>4 DEF vars
  <2>2. PlaceShape' /\ AnswerShape'
    BY <2>1 DEF Invariant, PlaceShape, AnswerShape, WalkOver
  <2>3. CASE pc \in Walking
    BY <1>3, <2>1, <2>2, <2>3
  <2>4. CASE pc \notin Walking
    BY <1>1, <2>1, <2>2, <2>4 DEF Invariant, PlaceShape
  <2>. QED
    BY <2>3, <2>4
<1>5. CASE Route
  <2>1. /\ pc = "route" /\ pc' = "ask" /\ UNCHANGED <<scenario, walk, resolved, lists, answer>>
        /\ decision'.strategy \in {"semantic", "structural", "hybrid", "keyword"}
        /\ decision'.confidence \in {0, 50, 70, 85, 90}
    BY <1>5, RoutedShape DEF Route
  <2>2. PlaceShape' /\ AnswerShape' /\ walk' = NoWalk
    BY <2>1 DEF Invariant, PlaceShape, AnswerShape, Walking
  <2>. QED
    BY <1>1, <2>1, <2>2 DEF Walking
<1>6. CASE AskGraph
  <2>1. pc = "ask" /\ UNCHANGED <<scenario, decision, resolved, lists, answer>> /\ walk = NoWalk
    BY <1>6 DEF AskGraph, Invariant, PlaceShape, Walking
  <2>2. AnswerShape'
    BY <2>1 DEF Invariant, AnswerShape
  <2>3. CASE IsWalk
    <3>1. StartWalk(Query.symbol)
      BY <1>6, <2>3 DEF AskGraph
    <3>2. PlaceShape'
      BY <2>1, <3>1 DEF Invariant, PlaceShape, Walking, StartWalk
    <3>. QED
      BY <1>2, <2>1, <2>2, <3>1, <3>2, WalkBegins DEF StartWalk
  <2>4. CASE ~IsWalk
    <3>1. pc' = "look" /\ walk' = NoWalk
      BY <1>6, <2>1, <2>4 DEF AskGraph
    <3>2. PlaceShape'
      BY <2>1, <3>1 DEF Invariant, PlaceShape, Walking
    <3>. QED
      BY <1>1, <2>1, <2>2, <3>1, <3>2 DEF Walking
  <2>. QED
    BY <2>3, <2>4
<1>7. CASE WalkStep
  <2>1. pc = "walk" /\ UNCHANGED <<scenario, pc, decision, resolved, lists, answer>>
    BY <1>7 DEF WalkStep
  <2>2. PlaceShape' /\ AnswerShape'
    BY <2>1 DEF Invariant, PlaceShape, AnswerShape, Walking
  <2>. QED
    BY <1>2, <1>7, <2>1, <2>2, WalkContinues DEF Invariant
<1>8. CASE WalkReturns
  <2>1. /\ pc = "walk" /\ pc' = "walked" /\ WalkOver
        /\ UNCHANGED <<scenario, decision, walk, resolved, lists, answer>>
    BY <1>8 DEF WalkReturns
  <2>2. PlaceShape' /\ AnswerShape'
    BY <2>1 DEF Invariant, PlaceShape, AnswerShape, Walking, WalkOver
  <2>. QED
    BY <1>3, <2>1, <2>2 DEF Walking
<1>9. CASE WalkAnswers
  <2>1. /\ pc = "walked" /\ UNCHANGED <<scenario, decision, resolved, lists>> /\ walk' = NoWalk
        /\ \/ pc' = "done" /\ answer'.from = "graph"
           \/ pc' \in {"execute", "search"} /\ answer' = answer
    BY <1>9 DEF WalkAnswers, SearchOrGiveUp, Answer
  <2>2. PlaceShape' /\ AnswerShape'
    BY <2>1 DEF Invariant, PlaceShape, AnswerShape, Walking
  <2>. QED
    BY <1>1, <2>1, <2>2 DEF Walking
<1>10. CASE WalkFails
  <2>1. /\ pc = "walk" /\ UNCHANGED <<scenario, decision, resolved, lists, answer>> /\ walk' = NoWalk
        /\ pc' \in {"execute", "search"}
    BY <1>10 DEF WalkFails, SearchOrGiveUp
  <2>2. PlaceShape' /\ AnswerShape'
    BY <2>1 DEF Invariant, PlaceShape, AnswerShape, Walking
  <2>. QED
    BY <1>1, <2>1, <2>2 DEF Walking
<1>11. CASE SearchGraph
  <2>1. /\ pc = "search" /\ UNCHANGED <<scenario, decision, lists>> /\ walk = NoWalk /\ resolved' = TRUE
        /\ \/ pc' = "execute" /\ UNCHANGED <<walk, answer>>
           \/ \E first : StartWalk(first) /\ UNCHANGED answer
           \/ pc' = "done" /\ answer'.from = "graph" /\ UNCHANGED walk
    BY <1>11 DEF SearchGraph, Answer, Invariant, PlaceShape, Walking
  <2>2. AnswerShape'
    BY <2>1 DEF Invariant, AnswerShape, StartWalk
  <2>3. CASE pc' \in {"execute", "done"} /\ UNCHANGED walk
    <3>1. PlaceShape'
      BY <2>1, <2>3 DEF Invariant, PlaceShape, Walking, StartWalk
    <3>. QED
      BY <1>1, <2>1, <2>2, <2>3, <3>1 DEF Walking
  <2>4. ASSUME NEW first, StartWalk(first), UNCHANGED answer PROVE Invariant'
    <3>1. PlaceShape'
      BY <2>1, <2>4 DEF Invariant, PlaceShape, Walking, StartWalk
    <3>. QED
      BY <1>2, <2>1, <2>2, <2>4, <3>1, WalkBegins DEF StartWalk
  <2>. QED
    BY <2>1, <2>3, <2>4
<1>12. CASE LookUp \/ LookUpFails \/ SkipGraph \/ NoExecutor \/ ExecuteOne \/ AskBoth \/ Fuse
  <2>1. /\ pc \notin Walking /\ pc' \notin Walking /\ UNCHANGED <<scenario, decision, walk, resolved>>
        /\ pc # "done" /\ pc' \in {"search", "execute", "fuse", "done"} /\ walk = NoWalk
        /\ \/ pc' = "done" /\ answer'.from \in {"none", "graph", "executor", "fusion", "error"}
           \/ UNCHANGED answer
    BY <1>12 DEF LookUp, LookUpFails, SkipGraph, NoExecutor, ExecuteOne, AskBoth, Fuse, Answer,
       Invariant, PlaceShape, Walking
  <2>2. lists' \in [semantic : Rankings \cup {<<>>}, structural : Rankings \cup {<<>>}]
    BY <1>12 DEF LookUp, LookUpFails, SkipGraph, NoExecutor, ExecuteOne, AskBoth, Fuse,
       Invariant, AnswerShape, Returned
  <2>3. PlaceShape' /\ AnswerShape'
    BY <2>1, <2>2 DEF Invariant, PlaceShape, AnswerShape, Walking
  <2>. QED
    BY <1>1, <2>1, <2>3
<1>. QED
  BY <1>4, <1>5, <1>6, <1>7, <1>8, <1>9, <1>10, <1>11, <1>12 DEF Invariant, Next

\* What is to prove holds at first and of every step.
THEOREM Inductive == Spec => []Invariant
<1>1. Init => Invariant
  <2>1. SUFFICES ASSUME Init PROVE Invariant
    OBVIOUS
  <2>2. /\ scenario \in Scenarios /\ pc = "route" /\ decision = NoDecision /\ walk = NoWalk
        /\ resolved = FALSE /\ lists = NoLists /\ answer = [from |-> "none", items |-> <<>>]
    BY <2>1 DEF Init
  <2>3. PlaceShape
    BY <2>2 DEF PlaceShape, Walking
  <2>4. AnswerShape
    BY <2>2 DEF AnswerShape, NoDecision, NoLists
  <2>5. WalkShape
    <3>1. 0 \in 0 .. MaxDepth /\ <<>> \in Seq({}) /\ <<>> \in Seq(scenario.nodes)
      BY SearchConstants
    <3>. QED
      BY <2>2, <3>1 DEF WalkShape, NoWalk
  <2>. QED
    BY <2>2, <2>3, <2>4, <2>5 DEF Invariant, WalkKnown, Walking
<1>2. Invariant /\ [Next]_vars => Invariant'
  BY InvariantStep
<1>. QED
  BY <1>1, <1>2, PTL DEF Spec

\* Every variable holds a value of its type, and nothing is visited that is neither
\* reported nor the target.
THEOREM TypeCorrect == Spec => []TypeOK
<1>1. Invariant => TypeOK
  <2>1. SUFFICES ASSUME Invariant PROVE TypeOK
    OBVIOUS
  <2>2. ToSet(walk.found) \subseteq scenario.nodes
    <3>1. walk.found \in Seq(scenario.nodes)
      BY <2>1 DEF Invariant, WalkShape
    <3>. QED
      BY <3>1, ConcatSet
  <2>3. ToSet(walk.frontier \o walk.next) \subseteq walk.visited
    <3>1. walk.frontier \in Seq(walk.visited) /\ walk.next \in Seq(walk.visited)
      BY <2>1 DEF Invariant, WalkShape
    <3>. QED
      BY <3>1, ConcatSet
  <2>4. walk # NoWalk => walk.visited = ToSet(walk.found) \cup {walk.target}
    BY <2>1 DEF Invariant, PlaceShape, WalkKnown, Visits
  <2>. QED
    BY <2>1, <2>2, <2>3, <2>4 DEF TypeOK, Invariant, PlaceShape, WalkShape, AnswerShape
<1>. QED
  BY <1>1, Inductive, PTL

\* A walk that returns has found exactly what is near, each once and the closer first.
LEMMA WalkEndsExact ==
  ASSUME Invariant, pc = "walked"
  PROVE  WalkIsExact
<1> DEFINE d == walk.depth
           N == Nearby
<1>1. /\ Visits /\ Levels /\ CloserFirst /\ d \in 0 .. MaxDepth /\ MaxDepth \in Nat
      /\ d = MaxDepth \/ walk.frontier = <<>>
  BY SearchConstants DEF Invariant, WalkKnown, Walking, PlaceShape, WalkShape, WalkOver
<1>2. walk.visited = N[d]
  <2>1. ToSet(<<>>) = {}
    BY DEF ToSet
  <2>. QED
    BY <1>1, <2>1 DEF Levels
<1>3. \A e \in d .. MaxDepth : N[e] = N[d]
  <2>1. CASE d = MaxDepth
    BY <1>1, <2>1
  <2>2. CASE walk.frontier = <<>>
    <3>1. ToSet(walk.frontier) = {}
      BY <2>2 DEF ToSet
    <3>2. CallersOf(scenario, N[d]) \subseteq N[d]
      BY <1>1, <1>2, <3>1 DEF Levels, CallersOf
    <3> HIDE DEF d
    <3>. QED
      BY <1>1, <3>2, NearStops DEF Nearby
  <2>. QED
    BY <1>1, <2>1, <2>2
<1>4. N[MaxDepth] = N[d]
  BY <1>1, <1>3
<1> DEFINE distance(n) == Min({e \in 0 .. MaxDepth : n \in N[e]})
<1>5. ASSUME NEW i \in DOMAIN walk.found, NEW j \in DOMAIN walk.found, i < j
      PROVE  distance(walk.found[i]) <= distance(walk.found[j])
  <2> DEFINE D(n) == {e \in 0 .. MaxDepth : n \in N[e]}
  <2>1. \A n \in N[d] : D(n) \in SUBSET Nat /\ D(n) # {} /\ distance(n) = Min(D(n))
    BY <1>1
  <2>2. walk.found[i] \in N[d] /\ walk.found[j] \in N[d]
    <3>1. walk.found[i] \in ToSet(walk.found) /\ walk.found[j] \in ToSet(walk.found)
      BY DEF ToSet
    <3>. QED
      BY <1>1, <1>2, <3>1 DEF Visits
  <2>3. D(walk.found[j]) \subseteq D(walk.found[i])
    <3>1. ASSUME NEW e \in 0 .. MaxDepth, walk.found[j] \in N[e] PROVE walk.found[i] \in N[e]
      <4>1. CASE e <= d
        <5>1. e \in 0 .. d
          BY <1>1, <4>1
        <5>. QED
          BY <1>1, <1>5, <3>1, <5>1 DEF CloserFirst
      <4>2. CASE ~(e <= d)
        <5>1. e \in d .. MaxDepth
          BY <1>1, <4>2
        <5>. QED
          BY <1>3, <2>2, <5>1
      <4>. QED
        BY <4>1, <4>2
    <3>. QED
      BY <3>1
  <2> HIDE DEF distance, D
  <2>4. /\ Min(D(walk.found[j])) \in D(walk.found[j])
        /\ \A e \in D(walk.found[i]) : Min(D(walk.found[i])) <= e
    BY <2>1, <2>2, MinIsLeast
  <2>. QED
    BY <2>1, <2>2, <2>3, <2>4
<1>6. ToSet(walk.found) = N[MaxDepth] \ {walk.target} /\ IsInjective(walk.found)
  BY <1>1, <1>2, <1>4 DEF Visits
<1>7. Within = N
  BY WithinIsNear DEF Nearby
<1>. QED
  BY <1>5, <1>6, <1>7, Zenon DEF WalkIsExact

\* In every graph a walk finds exactly the nodes that are near enough, each once and
\* the closer ones first (ResolveCallers).
THEOREM WalkHolds == Spec => []WalkIsExact
<1>1. Invariant => WalkIsExact
  <2>1. pc # "walked" => WalkIsExact
    BY Zenon DEF WalkIsExact
  <2>. QED
    BY <2>1, WalkEndsExact
<1>. QED
  BY <1>1, Inductive, PTL

-----------------------------------------------------------------------------
(***************************************************************************)
(* Sums of shares                                                          *)
(***************************************************************************)
\* The share of a rank is a number.
LEMMA ShareType ==
  ASSUME NEW rank \in Nat, NEW w \in Nat
  PROVE  Share(rank, w) \in Nat
<1> DEFINE n == 60 + rank
           q == Unit \div n
<1>1. n \in Nat /\ n # 0 /\ Unit \in Nat
  BY SearchConstants
<1> HIDE DEF n
<1>2. q \in Nat
  BY <1>1
<1> HIDE DEF q
<1>3. q * w \in Nat
  BY <1>2
<1>. QED
  BY <1>3 DEF Share, q, n

\* The equation the sum of the shares over the subsets of S solves.
Sums(w, S, it) ==
  it = [s \in SUBSET S |-> IF s = {} THEN 0
                           ELSE LET x == CHOOSE x \in s : TRUE IN Share(x, w) + it[s \ {x}]]

\* The shares of some ranks, as Score sums them.
SharesOf(w, S) == MapThenSumSet(LAMBDA rank : Share(rank, w), S)

\* The sum is the value at S of a chosen solution.
LEMMA SumIsChosen ==
  ASSUME NEW w, NEW S
  PROVE  SharesOf(w, S) = (CHOOSE it : Sums(w, S, it))[S]
BY Zenon DEF Sums, SharesOf, MapThenSumSet, MapThenFoldSet

\* Induction over the subsets of a finite set.
LEMMA SubsetInduction ==
  ASSUME NEW S, IsFiniteSet(S), NEW P,
         \A T \in SUBSET S : (\A U \in SUBSET T : U # T => U \in P) => T \in P
  PROVE  \A T \in SUBSET S : T \in P
<1> DEFINE Q == {T \in SUBSET S : T \notin P}
<1>1. SUFFICES ASSUME Q # {} PROVE FALSE
  OBVIOUS
<1>2. IsWellFoundedOn(StrictSubsetOrdering(S), FiniteSubsetsOf(S))
  BY FS_StrictSubsetOrderingWellFounded
<1>3. Q \subseteq FiniteSubsetsOf(S)
  BY FS_Subset DEF FiniteSubsetsOf
<1>4. PICK T \in Q : \A U \in Q : <<U, T>> \notin StrictSubsetOrdering(S)
  <2> HIDE DEF Q
  <2>. QED
    BY <1>1, <1>2, <1>3, WFMin
<1>5. \A U \in SUBSET T : U # T => U \in P
  BY <1>4 DEF StrictSubsetOrdering
<1>. QED
  BY <1>4, <1>5

\* What is picked from a nonempty set is in it.
Picked(s) == CHOOSE x \in s : TRUE

\* The equation, with the picked element by its name.
LEMMA SumsDef ==
  ASSUME NEW w, NEW S, NEW it
  PROVE  Sums(w, S, it) <=>
           it = [s \in SUBSET S |-> IF s = {} THEN 0 ELSE Share(Picked(s), w) + it[s \ {Picked(s)}]]
BY Zenon DEF Sums, Picked

\* What a solution says of one subset: nothing to add, or the picked element and the rest.
LEMMA SumsAt ==
  ASSUME NEW w, NEW S, NEW it, Sums(w, S, it), NEW T \in SUBSET S
  PROVE  /\ T = {} => it[T] = 0
         /\ T # {} => /\ Picked(T) \in T /\ T \ {Picked(T)} \in SUBSET T
                      /\ T \ {Picked(T)} # T
                      /\ it[T] = Share(Picked(T), w) + it[T \ {Picked(T)}]
<1>1. T # {} => Picked(T) \in T
  BY DEF Picked
<1>2. it = [s \in SUBSET S |-> IF s = {} THEN 0 ELSE Share(Picked(s), w) + it[s \ {Picked(s)}]]
  BY SumsDef
<1>3. it[T] = IF T = {} THEN 0 ELSE Share(Picked(T), w) + it[T \ {Picked(T)}]
  BY <1>2, Zenon
<1>. QED
  BY <1>1, <1>3

\* With nothing to add, a solution is 0.
LEMMA SumsAtNone ==
  ASSUME NEW w, NEW S, NEW it, Sums(w, S, it)
  PROVE  it[{}] = 0
BY SumsAt

\* Solutions for two sets agree where both are defined.
LEMMA SumsAgree ==
  ASSUME NEW w, NEW R, NEW S, NEW it, NEW jt, Sums(w, R, it), Sums(w, S, jt),
         IsFiniteSet(R), NEW T \in SUBSET R, T \subseteq S
  PROVE  it[T] = jt[T]
<1> DEFINE P == {U \in SUBSET R : U \subseteq S => it[U] = jt[U]}
<1>1. ASSUME NEW U \in SUBSET R, \A V \in SUBSET U : V # U => V \in P
      PROVE  U \in P
  <2>1. SUFFICES ASSUME U \subseteq S, U # {} PROVE it[U] = jt[U]
    <3>1. U = {} => it[U] = 0 /\ jt[U] = 0
      BY SumsAt
    <3>. QED
      BY <3>1
  <2>2. U \ {Picked(U)} \in P
    BY <1>1, <2>1, SumsAt
  <2>3. it[U \ {Picked(U)}] = jt[U \ {Picked(U)}]
    BY <2>1, <2>2
  <2>. QED
    BY <2>1, <2>3, SumsAt
<1>2. \A U \in SUBSET R : U \in P
  <2> HIDE DEF P
  <2>. QED
    BY <1>1, SubsetInduction
<1>. QED
  BY <1>2

\* A finite set has a solution.
LEMMA SumsExist ==
  ASSUME NEW w, NEW S, IsFiniteSet(S)
  PROVE  \E it : Sums(w, S, it)
<1> DEFINE P == {T \in SUBSET S : \E it : Sums(w, T, it)}
<1>1. ASSUME NEW T \in SUBSET S, \A U \in SUBSET T : U # T => U \in P
      PROVE  T \in P
  <2> DEFINE of(U) == CHOOSE it : Sums(w, U, it)
             it == [s \in SUBSET T |-> IF s = {} THEN 0
                      ELSE Share(Picked(s), w) + of(s \ {Picked(s)})[s \ {Picked(s)}]]
  <2>1. \A U \in SUBSET T : U # T => Sums(w, U, of(U))
    BY <1>1
  <2>2. \A s \in SUBSET T : s # {} => Picked(s) \in s
    BY DEF Picked
  <2> HIDE DEF of
  <2>3. ASSUME NEW U \in SUBSET T, U # T PROVE it[U] = of(U)[U]
    <3>1. Sums(w, U, of(U))
      BY <2>1, <2>3
    <3>2. CASE U = {}
      BY <3>1, <3>2, SumsAt
    <3>3. CASE U # {}
      <4> DEFINE V == U \ {Picked(U)}
      <4>1. V \in SUBSET U /\ V \in SUBSET T /\ V # T /\ of(U)[U] = Share(Picked(U), w) + of(U)[V]
        BY <2>3, <3>1, <3>3, SumsAt
      <4>2. IsFiniteSet(U) /\ IsFiniteSet(V)
        BY <4>1, FS_Subset
      <4>3. Sums(w, V, of(V))
        BY <2>1, <4>1
      <4> HIDE DEF V
      <4>4. of(V)[V] = of(U)[V]
        BY <3>1, <4>1, <4>2, <4>3, SumsAgree
      <4>5. it[U] = Share(Picked(U), w) + of(V)[V]
        BY <3>3 DEF V
      <4>. QED
        BY <4>1, <4>4, <4>5
    <3>. QED
      BY <3>2, <3>3
  <2>4. it = [s \in SUBSET T |-> IF s = {} THEN 0 ELSE Share(Picked(s), w) + it[s \ {Picked(s)}]]
    <3>1. ASSUME NEW s \in SUBSET T, s # {}
          PROVE  it[s] = Share(Picked(s), w) + it[s \ {Picked(s)}]
      <4>1. s \ {Picked(s)} \in SUBSET T /\ s \ {Picked(s)} # T
        BY <2>2, <3>1
      <4>2. it[s] = Share(Picked(s), w) + of(s \ {Picked(s)})[s \ {Picked(s)}]
        BY <3>1
      <4> HIDE DEF it
      <4>. QED
        BY <2>3, <4>1, <4>2
    <3>2. it[{}] = 0
      OBVIOUS
    <3>3. it = [s \in SUBSET T |-> it[s]]
      OBVIOUS
    <3> HIDE DEF it
    <3>. QED
      BY <3>1, <3>2, <3>3
  <2>5. Sums(w, T, it)
    <3> HIDE DEF it
    <3>. QED
      BY <2>4, SumsDef
  <2>. QED
    BY <2>5
<1>2. \A T \in SUBSET S : T \in P
  <2> HIDE DEF P
  <2>. QED
    BY <1>1, SubsetInduction
<1>. QED
  BY <1>2

\* The sum over a set with one more element; the order of the elements is open.
LEMMA SumAdd ==
  ASSUME NEW w, NEW S, IsFiniteSet(S), \A y \in S : Share(y, w) \in Nat, NEW x \in S
  PROVE  /\ SharesOf(w, S) = Share(x, w) + SharesOf(w, S \ {x})
         /\ SharesOf(w, S \ {x}) \in Nat
<1>1. PICK it : Sums(w, S, it)
  BY SumsExist
<1>2. ASSUME NEW T \in SUBSET S PROVE SharesOf(w, T) = it[T]
  <2>1. IsFiniteSet(T)
    BY FS_Subset
  <2> DEFINE jt == CHOOSE jt : Sums(w, T, jt)
  <2>2. Sums(w, T, jt)
    BY <2>1, SumsExist
  <2>3. SharesOf(w, T) = jt[T]
    BY SumIsChosen, Zenon
  <2> HIDE DEF jt
  <2>. QED
    BY <1>1, <2>1, <2>2, <2>3, SumsAgree
<1> DEFINE P == {T \in SUBSET S : /\ it[T] \in Nat
                                  /\ \A y \in T : it[T] = Share(y, w) + it[T \ {y}]}
<1>3. ASSUME NEW T \in SUBSET S, \A U \in SUBSET T : U # T => U \in P
      PROVE  T \in P
  <2>1. CASE T = {}
    <3>1. it[T] = 0
      BY <1>1, <2>1, SumsAtNone
    <3>2. it[T] \in Nat /\ T \in SUBSET S
      BY <3>1
    <3>. QED
      BY <2>1, <3>2
  <2>2. CASE T # {}
    <3> DEFINE p == Picked(T)
    <3>1. p \in T /\ it[T] = Share(p, w) + it[T \ {p}] /\ T \ {p} \in P
      <4> HIDE DEF P
      <4>0. Sums(w, S, it) /\ T \in SUBSET S /\ T # {}
        BY <1>1, <2>2
      <4>1. /\ p \in T /\ it[T] = Share(p, w) + it[T \ {p}]
            /\ T \ {p} \in SUBSET T /\ T \ {p} # T
        <5>1. /\ Picked(T) \in T /\ T \ {Picked(T)} \in SUBSET T
              /\ T \ {Picked(T)} # T /\ it[T] = Share(Picked(T), w) + it[T \ {Picked(T)}]
          BY <4>0, SumsAt
        <5>. QED
          BY <5>1
      <4>. QED
        BY <1>3, <4>1
    <3> HIDE DEF p
    <3>2. it[T \ {p}] \in Nat /\ Share(p, w) \in Nat /\ it[T] \in Nat
      BY <3>1
    <3>3. ASSUME NEW y \in T, y # p PROVE it[T] = Share(y, w) + it[T \ {y}]
      <4>1. it[T \ {p}] = Share(y, w) + it[(T \ {p}) \ {y}]
        BY <3>1, <3>3
      <4>2. T \ {y} \in P /\ p \in T \ {y}
        BY <1>3, <3>1, <3>3
      <4>3. it[T \ {y}] = Share(p, w) + it[(T \ {y}) \ {p}] /\ it[T \ {y}] \in Nat
        BY <4>2
      <4>4. (T \ {y}) \ {p} = (T \ {p}) \ {y} /\ (T \ {p}) \ {y} \in P
        BY <1>3, <3>1
      <4>5. it[(T \ {p}) \ {y}] \in Nat /\ Share(y, w) \in Nat
        BY <4>4
      <4>6. it[T \ {y}] = Share(p, w) + it[(T \ {p}) \ {y}]
        BY <4>3, <4>4
      <4> HIDE DEF P
      <4>. QED
        BY <3>1, <3>2, <4>1, <4>5, <4>6
    <3>. QED
      BY <3>1, <3>2, <3>3
  <2>. QED
    BY <2>1, <2>2
<1>4. \A T \in SUBSET S : T \in P
  <2> HIDE DEF P
  <2>. QED
    BY <1>3, SubsetInduction
<1>5. S \in P /\ S \ {x} \in P
  BY <1>4
<1>. QED
  BY <1>2, <1>5

\* The sum over no element.
LEMMA SumOfNone == ASSUME NEW w PROVE SharesOf(w, {}) = 0
<1> DEFINE it == CHOOSE it : Sums(w, {}, it)
<1>1. Sums(w, {}, it)
  BY FS_EmptySet, SumsExist
<1>2. SharesOf(w, {}) = it[{}]
  BY SumIsChosen, Zenon
<1> HIDE DEF it
<1>3. it[{}] = 0
  BY <1>1, SumsAt
<1>. QED
  BY <1>2, <1>3

-----------------------------------------------------------------------------
(***************************************************************************)
(* The map of the scores                                                   *)
(***************************************************************************)
\* One entry of a list, at its rank, is added to the map.
Entered(map, list, rank, w) ==
  [key \in DOMAIN map \cup {list[rank]} |->
     (IF key \in DOMAIN map THEN map[key] ELSE 0)
     + (IF key = list[rank] THEN Share(rank, w) ELSE 0)]

\* The equation the fold over a list solves, for the sets of its ranks.
Enters(scores, list, w, it) ==
  it = [s \in SUBSET DOMAIN [i \in DOMAIN list |-> i] |->
          IF s = {} THEN scores
          ELSE LET x == Max(s)
               IN  Entered(it[s \ {x}], list, [i \in DOMAIN list |-> i][x], w)]

\* What the map is when the ranks in s have been entered.
Sum(list, w, s, key) == SharesOf(w, {r \in s : list[r] = key})
After(scores, list, w, s) ==
  [key \in DOMAIN scores \cup {list[r] : r \in s} |->
     (IF key \in DOMAIN scores THEN scores[key] ELSE 0) + Sum(list, w, s, key)]

\* The fold is the value at all ranks of a chosen solution.
LEMMA ScoredIsChosen ==
  ASSUME NEW scores, NEW list, NEW w
  PROVE  Scored(scores, list, w)
           = (CHOOSE it : Enters(scores, list, w, it))[DOMAIN [i \in DOMAIN list |-> i]]
BY Zenon DEF Scored, FoldLeftDomain, FoldLeft, MapThenFoldSet, Enters, Entered

\* Maps of scores.
IsScores(scores) == scores = [key \in DOMAIN scores |-> scores[key]]
                    /\ \A key \in DOMAIN scores : scores[key] \in Nat

\* One more rank adds its share to the sum of its key, and to no other.
LEMMA SumOfRank ==
  ASSUME NEW D \in SUBSET Nat, IsFiniteSet(D), NEW list, NEW w \in Nat,
         NEW s \in SUBSET D, NEW x \in s, NEW key
  PROVE  /\ Sum(list, w, s, key) = Sum(list, w, s \ {x}, key)
                                   + (IF key = list[x] THEN Share(x, w) ELSE 0)
         /\ Sum(list, w, s, key) \in Nat /\ Sum(list, w, s \ {x}, key) \in Nat
<1> DEFINE R == {r \in s : list[r] = key}
           Q == {r \in s \ {x} : list[r] = key}
<1>1. IsFiniteSet(R) /\ R \in SUBSET Nat
  <2>1. R \in SUBSET D
    OBVIOUS
  <2> HIDE DEF R
  <2>. QED
    BY <2>1, FS_Subset
<1>2. ASSUME NEW r \in R PROVE Share(r, w) \in Nat
  <2>1. r \in Nat
    OBVIOUS
  <2>. QED
    BY <2>1, ShareType
<1>3. SharesOf(w, R) \in Nat
  <2> HIDE DEF R
  <2>1. CASE R = {}
    BY <2>1, SumOfNone
  <2>2. CASE R # {}
    <3>1. PICK r : r \in R
      BY <2>2
    <3>2. /\ SharesOf(w, R) = Share(r, w) + SharesOf(w, R \ {r})
          /\ SharesOf(w, R \ {r}) \in Nat
      BY <1>1, <1>2, <3>1, SumAdd
    <3>. QED
      BY <1>2, <3>1, <3>2
  <2>. QED
    BY <2>1, <2>2
<1>4. CASE key = list[x]
  <2>1. x \in R /\ Q = R \ {x}
    BY <1>4
  <2>2. SharesOf(w, R) = Share(x, w) + SharesOf(w, R \ {x}) /\ SharesOf(w, R \ {x}) \in Nat
    <3> HIDE DEF R
    <3>. QED
      BY <1>1, <1>2, <2>1, SumAdd
  <2>3. x \in Nat /\ Share(x, w) \in Nat
    <3>1. x \in Nat
      OBVIOUS
    <3>. QED
      BY <3>1, ShareType
  <2> HIDE DEF R, Q
  <2>4. SharesOf(w, R) = SharesOf(w, Q) + Share(x, w) /\ SharesOf(w, Q) \in Nat
    BY <2>1, <2>2, <2>3
  <2>. QED
    BY <1>3, <1>4, <2>4 DEF Sum, R, Q
<1>5. CASE key # list[x]
  <2>1. Q = R
    BY <1>5
  <2> HIDE DEF R, Q
  <2>. QED
    BY <1>3, <1>5, <2>1 DEF Sum, R, Q
<1>. QED
  BY <1>4, <1>5

\* Entering one more rank leads from one map to the next.
LEMMA AfterRank ==
  ASSUME NEW D \in SUBSET Nat, IsFiniteSet(D), NEW list, NEW w \in Nat,
         NEW scores, IsScores(scores), NEW s \in SUBSET D, NEW x \in s
  PROVE  After(scores, list, w, s) = Entered(After(scores, list, w, s \ {x}), list, x, w)
<1> DEFINE a == After(scores, list, w, s \ {x})
           K == DOMAIN scores \cup {list[r] : r \in s}
           was(key) == IF key \in DOMAIN scores THEN scores[key] ELSE 0
<1>1. DOMAIN a = DOMAIN scores \cup {list[r] : r \in s \ {x}}
      /\ \A key \in DOMAIN a : a[key] = was(key) + Sum(list, w, s \ {x}, key)
  BY DEF After
<1>2. DOMAIN a \cup {list[x]} = K
  BY <1>1
<1>3. \A key : was(key) \in Nat
  BY DEF IsScores
<1> HIDE DEF a, was
<1>4. ASSUME NEW key \in K
      PROVE  was(key) + Sum(list, w, s, key)
               = (IF key \in DOMAIN a THEN a[key] ELSE 0)
                 + (IF key = list[x] THEN Share(x, w) ELSE 0)
  <2>1. /\ Sum(list, w, s, key) = Sum(list, w, s \ {x}, key)
                                  + (IF key = list[x] THEN Share(x, w) ELSE 0)
        /\ Sum(list, w, s, key) \in Nat /\ Sum(list, w, s \ {x}, key) \in Nat
    BY SumOfRank
  <2>2. x \in Nat /\ Share(x, w) \in Nat
    <3>1. x \in Nat
      OBVIOUS
    <3>. QED
      BY <3>1, ShareType
  <2>3. CASE key \in DOMAIN a
    <3> DEFINE old == was(key)
               less == Sum(list, w, s \ {x}, key)
               more == Sum(list, w, s, key)
               own == IF key = list[x] THEN Share(x, w) ELSE 0
    <3>1. old \in Nat /\ less \in Nat /\ own \in Nat /\ more = less + own /\ a[key] = old + less
      BY <1>1, <1>3, <2>1, <2>2, <2>3
    <3> HIDE DEF old, less, more, own
    <3>2. old + more = a[key] + own
      BY <3>1
    <3>. QED
      BY <2>3, <3>2 DEF old, more, own
  <2>4. CASE key \notin DOMAIN a
    <3>1. key \notin DOMAIN scores /\ key = list[x] /\ was(key) = 0
      BY <1>1, <1>2, <2>4 DEF was
    <3>2. {r \in s \ {x} : list[r] = key} = {}
      BY <1>1, <2>4
    <3>3. Sum(list, w, s \ {x}, key) = 0
      BY <3>2, SumOfNone DEF Sum
    <3>. QED
      BY <1>3, <2>1, <2>2, <2>4, <3>1, <3>3
  <2>. QED
    BY <2>3, <2>4
<1> HIDE DEF K
<1>5. After(scores, list, w, s) = [key \in K |-> was(key) + Sum(list, w, s, key)]
  BY Zenon DEF After, K, was
<1>6. Entered(a, list, x, w) = [key \in K |-> (IF key \in DOMAIN a THEN a[key] ELSE 0)
                                              + (IF key = list[x] THEN Share(x, w) ELSE 0)]
  BY <1>2 DEF Entered
<1>. QED
  BY <1>4, <1>5, <1>6 DEF a

\* Max of a finite set of numbers is one of them.
LEMMA MaxIsMember ==
  ASSUME NEW n \in Nat, NEW s \in SUBSET (1 .. n), s # {}
  PROVE  Max(s) \in s
<1> DEFINE S == {n - i : i \in s}
<1>1. S \in SUBSET Nat /\ S # {}
  <2>1. \A i \in s : n - i \in Nat
    OBVIOUS
  <2>. QED
    BY <2>1
<1>2. PICK k \in S : \A j \in S : k <= j
  <2> HIDE DEF S
  <2>. QED
    BY <1>1, LeastMember
<1>3. PICK m \in s : k = n - m
  BY <1>2
<1>4. \A i \in s : m >= i
  <2>1. SUFFICES ASSUME NEW i \in s PROVE m >= i
    OBVIOUS
  <2>2. n - m <= n - i
    BY <1>2, <1>3
  <2>3. n \in Nat /\ m \in Nat /\ i \in Nat
    OBVIOUS
  <2>. QED
    BY <2>2, <2>3
<1>5. \E x \in s : \A y \in s : x >= y
  BY <1>4
<1>. QED
  BY <1>5, Zenon DEF Max

\* Two functions of sets agree at a set when they agree at its proper subsets.
AgreeLater(D, it, jt) ==
  \A s \in SUBSET D : (\A u \in SUBSET s : u # s => it[u] = jt[u]) => it[s] = jt[s]

\* Then they agree at every finite set.
LEMMA AgreeAt ==
  ASSUME NEW D, IsFiniteSet(D), NEW it, NEW jt, AgreeLater(D, it, jt)
  PROVE  it[D] = jt[D]
<1> DEFINE P == {s \in SUBSET D : it[s] = jt[s]}
<1>1. \A s \in SUBSET D : (\A u \in SUBSET s : u # s => u \in P) => s \in P
  BY DEF AgreeLater
<1>2. \A s \in SUBSET D : s \in P
  <2> HIDE DEF P
  <2>. QED
    BY <1>1, SubsetInduction
<1>. QED
  BY <1>2

\* Every set of ranks that is not empty has a last one.
HasLasts(D) == \A s \in SUBSET D : s # {} => Max(s) \in s

\* The fold over a list adds to each key the shares of its ranks.
LEMMA ScoredIsAfter ==
  ASSUME NEW D \in SUBSET Nat, IsFiniteSet(D), HasLasts(D), NEW list, DOMAIN list = D, NEW w \in Nat, NEW scores, IsScores(scores)
  PROVE  Scored(scores, list, w) = After(scores, list, w, D)
<1> DEFINE ids == [i \in DOMAIN list |-> i]
           sol == [s \in SUBSET D |-> After(scores, list, w, s)]
<1>1. DOMAIN ids = D /\ \A i \in D : ids[i] = i
  OBVIOUS
<1>2. After(scores, list, w, {}) = scores
  <2>1. \A key : Sum(list, w, {}, key) = 0
    <3>1. \A key : {r \in {} : list[r] = key} = {}
      OBVIOUS
    <3>. QED
      BY <3>1, SumOfNone DEF Sum
  <2>2. {list[r] : r \in {}} = {}
    OBVIOUS
  <2>3. After(scores, list, w, {}) = [key \in DOMAIN scores |-> scores[key]]
    <3>1. \A key \in DOMAIN scores : scores[key] \in Nat
      BY DEF IsScores
    <3>2. \A key \in DOMAIN scores : scores[key] + 0 = scores[key]
      BY <3>1
    <3>3. After(scores, list, w, {})
            = [key \in DOMAIN scores \cup {} |-> (IF key \in DOMAIN scores THEN scores[key] ELSE 0) + 0]
      BY <2>1, <2>2 DEF After
    <3>4. After(scores, list, w, {}) = [key \in DOMAIN scores |-> scores[key] + 0]
      BY <3>3
    <3>. QED
      BY <3>2, <3>4
  <2>. QED
    BY <2>3 DEF IsScores
<1> HIDE DEF ids
<1>3. \A s \in SUBSET D : s # {} =>
        /\ Max(s) \in s /\ s \ {Max(s)} \in SUBSET D /\ s \ {Max(s)} # s /\ ids[Max(s)] = Max(s)
        /\ After(scores, list, w, s)
             = Entered(After(scores, list, w, s \ {Max(s)}), list, ids[Max(s)], w)
  <2>1. SUFFICES ASSUME NEW s \in SUBSET D, s # {}
                 PROVE  /\ Max(s) \in s /\ s \ {Max(s)} \in SUBSET D /\ s \ {Max(s)} # s
                        /\ ids[Max(s)] = Max(s)
                        /\ After(scores, list, w, s)
                             = Entered(After(scores, list, w, s \ {Max(s)}), list, ids[Max(s)], w)
    OBVIOUS
  <2>2. Max(s) \in s
    BY <2>1 DEF HasLasts
  <2>3. After(scores, list, w, s) = Entered(After(scores, list, w, s \ {Max(s)}), list, Max(s), w)
    <3> DEFINE m == Max(s)
    <3>1. m \in s
      BY <2>2
    <3> HIDE DEF m
    <3>2. After(scores, list, w, s) = Entered(After(scores, list, w, s \ {m}), list, m, w)
      BY <2>1, <3>1, AfterRank
    <3>. QED
      BY <3>2 DEF m
  <2>. QED
    BY <1>1, <2>2, <2>3
<1>4. Enters(scores, list, w, sol)
  <2>1. \A s \in SUBSET D : sol[s] = IF s = {} THEN scores
                                     ELSE Entered(sol[s \ {Max(s)}], list, ids[Max(s)], w)
    <3>1. \A s \in SUBSET D : sol[s] = After(scores, list, w, s)
      OBVIOUS
    <3> HIDE DEF sol
    <3>. QED
      BY <1>2, <1>3, <3>1
  <2>2. sol = [s \in SUBSET D |-> sol[s]]
    OBVIOUS
  <2> HIDE DEF sol
  <2>3. sol = [s \in SUBSET D |-> IF s = {} THEN scores
                                  ELSE Entered(sol[s \ {Max(s)}], list, ids[Max(s)], w)]
    BY <2>1, <2>2
  <2>4. sol = [s \in SUBSET DOMAIN ids |-> IF s = {} THEN scores
                                  ELSE Entered(sol[s \ {Max(s)}], list, ids[Max(s)], w)]
    BY <1>1, <2>3
  <2>. QED
    BY <2>4, Zenon DEF Enters, ids
<1> DEFINE it == CHOOSE it : Enters(scores, list, w, it)
<1>5. Enters(scores, list, w, it)
  BY <1>4
<1>6. Scored(scores, list, w) = it[DOMAIN ids]
  BY ScoredIsChosen, Zenon DEF ids
<1> HIDE DEF it, sol
<1>7. /\ it = [s \in SUBSET DOMAIN ids |-> IF s = {} THEN scores
                                  ELSE Entered(it[s \ {Max(s)}], list, ids[Max(s)], w)]
      /\ sol = [s \in SUBSET DOMAIN ids |-> IF s = {} THEN scores
                                  ELSE Entered(sol[s \ {Max(s)}], list, ids[Max(s)], w)]
  BY <1>4, <1>5, Zenon DEF Enters, ids
<1>8. \A s \in SUBSET D :
        /\ it[s] = IF s = {} THEN scores ELSE Entered(it[s \ {Max(s)}], list, ids[Max(s)], w)
        /\ sol[s] = IF s = {} THEN scores ELSE Entered(sol[s \ {Max(s)}], list, ids[Max(s)], w)
  BY <1>1, <1>7
<1>9. ASSUME NEW s \in SUBSET D, \A u \in SUBSET s : u # s => it[u] = sol[u]
      PROVE  it[s] = sol[s]
  <2>1. CASE s = {}
    BY <1>8, <2>1
  <2>2. CASE s # {}
    <3>1. it[s \ {Max(s)}] = sol[s \ {Max(s)}]
      BY <1>3, <1>9, <2>2
    <3>. QED
      BY <1>8, <2>2, <3>1
  <2>. QED
    BY <2>1, <2>2
<1>10. it[D] = sol[D]
  <2>1. AgreeLater(D, it, sol)
    BY <1>9 DEF AgreeLater
  <2>. QED
    BY <2>1, AgreeAt
<1>11. sol[D] = After(scores, list, w, D)
  BY DEF sol
<1>. QED
  BY <1>1, <1>6, <1>10, <1>11

\* A list of results: its ranks, and the set of its results.
LEMMA RanksOfList ==
  ASSUME NEW list, list \in Seq(ToSet(list))
  PROVE  /\ DOMAIN list \in SUBSET Nat /\ IsFiniteSet(DOMAIN list) /\ HasLasts(DOMAIN list)
         /\ ToSet(list) = {list[r] : r \in DOMAIN list} /\ IsFiniteSet(ToSet(list))
<1> DEFINE n == Len(list)
           D == 1 .. n
           K == ToSet(list)
<1>1. n \in Nat /\ DOMAIN list = D
  BY LenProperties
<1>2. list \in Surjection(D, K)
  <2>1. list \in [D -> K] /\ K = {list[r] : r \in D}
    BY <1>1 DEF ToSet
  <2> HIDE DEF D, K
  <2>. QED
    BY <2>1 DEF Surjection
<1> HIDE DEF n, K
<1>3. D \in SUBSET Nat /\ IsFiniteSet(D)
  <2>1. 1 \in Int /\ n \in Int
    BY <1>1
  <2>. QED
    BY <1>1, <2>1, FS_Interval
<1>4. HasLasts(D)
  BY <1>1, MaxIsMember DEF HasLasts
<1> HIDE DEF D
<1>5. IsFiniteSet(K)
  BY <1>2, <1>3, FS_Surjection
<1>. QED
  BY <1>1, <1>3, <1>4, <1>5 DEF K, ToSet

\* A sum of shares is a number.
LEMMA SumType ==
  ASSUME NEW D \in SUBSET Nat, IsFiniteSet(D), NEW list, NEW w \in Nat, NEW key
  PROVE  Sum(list, w, D, key) \in Nat
<1>1. CASE D = {}
  <2>1. {r \in D : list[r] = key} = {}
    BY <1>1
  <2>. QED
    BY <2>1, SumOfNone DEF Sum
<1>2. CASE D # {}
  <2>1. PICK x : x \in D
    BY <1>2
  <2>2. D \in SUBSET D
    OBVIOUS
  <2>. QED
    BY <2>1, <2>2, SumOfRank
<1>. QED
  BY <1>1, <1>2

\* One list's part of a score.
Part(list, w, key) == Sum(list, w, DOMAIN list, key)
Was(scores, key) == IF key \in DOMAIN scores THEN scores[key] ELSE 0

\* Every key of a map and a list has what it had and what the list says of it.
ScoresWell(scores, list, w) ==
  /\ Scored(scores, list, w)
       = [key \in DOMAIN scores \cup ToSet(list) |-> Was(scores, key) + Part(list, w, key)]
  /\ \A key : /\ Was(scores, key) \in Nat /\ Part(list, w, key) \in Nat
              /\ key \notin ToSet(list) => Part(list, w, key) = 0

\* A list adds to each of its keys that key's part.
LEMMA ScoredList ==
  ASSUME NEW list, list \in Seq(ToSet(list)), NEW w \in Nat, NEW scores, IsScores(scores)
  PROVE  ScoresWell(scores, list, w)
<1>1. /\ DOMAIN list \in SUBSET Nat /\ IsFiniteSet(DOMAIN list) /\ HasLasts(DOMAIN list)
      /\ ToSet(list) = {list[r] : r \in DOMAIN list}
  BY RanksOfList
<1>2. Scored(scores, list, w) = After(scores, list, w, DOMAIN list)
  <2> DEFINE D == DOMAIN list
  <2>1. D \in SUBSET Nat /\ IsFiniteSet(D) /\ HasLasts(D) /\ DOMAIN list = D
    BY <1>1
  <2> HIDE DEF D
  <2>2. Scored(scores, list, w) = After(scores, list, w, D)
    BY <2>1, ScoredIsAfter
  <2>. QED
    BY <2>2 DEF D
<1>3. After(scores, list, w, DOMAIN list)
        = [key \in DOMAIN scores \cup {list[r] : r \in DOMAIN list} |->
             Was(scores, key) + Part(list, w, key)]
  BY Zenon DEF After, Was, Part
<1>4. \A key : Was(scores, key) \in Nat
  BY DEF Was, IsScores
<1>5. \A key : Part(list, w, key) \in Nat
  <2> DEFINE D == DOMAIN list
  <2>1. D \in SUBSET Nat /\ IsFiniteSet(D)
    BY <1>1
  <2> HIDE DEF D
  <2>2. \A key : Sum(list, w, D, key) \in Nat
    BY <2>1, SumType
  <2>. QED
    BY <2>2 DEF Part, D
<1>6. ASSUME NEW key, key \notin ToSet(list) PROVE Part(list, w, key) = 0
  <2>1. {r \in DOMAIN list : list[r] = key} = {}
    BY <1>1, <1>6
  <2>. QED
    BY <2>1, SumOfNone DEF Part, Sum
<1>. QED
  BY <1>1, <1>2, <1>3, <1>4, <1>5, <1>6 DEF ScoresWell

-----------------------------------------------------------------------------
(***************************************************************************)
(* The best of a map of scores                                             *)
(***************************************************************************)
\* What two lists say of a key, and the promise of FusionKeepsTheBest, for any
\* two lists, confidence and answer.
ScoreIn(ls, c, key) == Part(ls.semantic, 100, key) + Part(ls.structural, c, key)
KeysOf(ls) == ToSet(ls.semantic) \cup ToSet(ls.structural)
Best(ls, c, items) ==
  /\ ToSet(items) \subseteq KeysOf(ls) /\ IsInjective(items)
  /\ Len(items) = Min({TopK, Cardinality(KeysOf(ls))})
  /\ \A i, j \in DOMAIN items : i < j => ScoreIn(ls, c, items[i]) >= ScoreIn(ls, c, items[j])
  /\ \A key \in KeysOf(ls) \ ToSet(items) : \A item \in ToSet(items) :
       ScoreIn(ls, c, key) <= ScoreIn(ls, c, item)

\* The model's score is this one.
LEMMA ScoreIsScoreIn ==
  ASSUME NEW key
  PROVE  Score(key) = ScoreIn(lists, decision.confidence, key)
BY Zenon DEF Score, ScoreIn, Part, Sum, SharesOf

\* The map that two lists lead to, one after the other.
MapOf(ls, c) == Scored(Scored(<<>>, ls.semantic, 100), ls.structural, c)

\* It has every key of the two lists, with its score.
LEMMA MapOfScores ==
  ASSUME NEW ls, ls.semantic \in Seq(ToSet(ls.semantic)),
         ls.structural \in Seq(ToSet(ls.structural)), NEW c \in Nat
  PROVE  /\ MapOf(ls, c) = [key \in KeysOf(ls) |-> ScoreIn(ls, c, key)]
         /\ \A key : ScoreIn(ls, c, key) \in Nat
         /\ IsFiniteSet(KeysOf(ls))
<1> DEFINE a == ls.semantic
           b == ls.structural
           none == <<>>
<1>1. a \in Seq(ToSet(a)) /\ b \in Seq(ToSet(b)) /\ 100 \in Nat
  OBVIOUS
<1>2. DOMAIN none = {} /\ IsScores(none)
  BY DEF IsScores
<1> DEFINE first == Scored(none, a, 100)
           K == ToSet(a)
<1> HIDE DEF none
<1>3. /\ first = [key \in DOMAIN none \cup K |-> Was(none, key) + Part(a, 100, key)]
      /\ \A key : /\ Was(none, key) \in Nat /\ Part(a, 100, key) \in Nat
                  /\ key \notin K => Part(a, 100, key) = 0
  <2> HIDE DEF a, b
  <2>1. ScoresWell(none, a, 100)
    BY <1>1, <1>2, ScoredList
  <2>. QED
    BY <2>1 DEF ScoresWell, K, first
<1> HIDE DEF a, b, K, first
<1>4. /\ first = [key \in K |-> Part(a, 100, key)]
      /\ \A key : Part(a, 100, key) \in Nat /\ (key \notin K => Part(a, 100, key) = 0)
  <2>1. \A key : Was(none, key) + Part(a, 100, key) = Part(a, 100, key)
    BY <1>2, <1>3 DEF Was
  <2>2. DOMAIN none \cup K = K
    BY <1>2
  <2>. QED
    BY <1>3, <2>1, <2>2
<1>5. IsScores(first) /\ \A key : Was(first, key) = Part(a, 100, key)
  BY <1>4 DEF IsScores, Was
<1>6. /\ Scored(first, b, c) = [key \in DOMAIN first \cup ToSet(b) |-> Was(first, key) + Part(b, c, key)]
      /\ \A key : Part(b, c, key) \in Nat
  <2>1. IsScores(first) /\ b \in Seq(ToSet(b))
    BY <1>1, <1>5
  <2>2. ScoresWell(first, b, c)
    BY <2>1, ScoredList
  <2>. QED
    BY <2>2 DEF ScoresWell
<1>7. Scored(first, b, c) = [key \in K \cup ToSet(b) |-> Part(a, 100, key) + Part(b, c, key)]
  BY <1>4, <1>5, <1>6
<1>8. \A key : Part(a, 100, key) + Part(b, c, key) \in Nat
  BY <1>4, <1>6
<1>9. IsFiniteSet(K) /\ IsFiniteSet(ToSet(b))
  BY <1>1, RanksOfList DEF K
<1>10. IsFiniteSet(K \cup ToSet(b))
  BY <1>9, FS_Union
<1>11. MapOf(ls, c) = [key \in KeysOf(ls) |-> ScoreIn(ls, c, key)]
  BY <1>7, Zenon DEF MapOf, KeysOf, ScoreIn, K, a, b, first, none
<1>. QED
  BY <1>8, <1>10, <1>11 DEF KeysOf, ScoreIn, K, a, b

\* From each place to the next the values do not rise.
Descends(n, f) == \A i \in 1 .. (n - 1) : f[i] >= f[i + 1]

\* Then they do not rise from any place to a later one.
LEMMA LaterIsLower ==
  ASSUME NEW n \in Nat, NEW f \in [1 .. n -> Nat], Descends(n, f)
  PROVE  \A i, j \in 1 .. n : i <= j => f[i] >= f[j]
<1> DEFINE T == {d \in Nat : \A i \in 1 .. n : i + d \in 1 .. n => f[i] >= f[i + d]}
<1>1. 0 \in T
  <2>1. ASSUME NEW i \in 1 .. n PROVE f[i] >= f[i + 0]
    <3>1. i + 0 = i /\ f[i] \in Nat
      OBVIOUS
    <3>. QED
      BY <3>1
  <2>. QED
    BY <2>1
<1>2. ASSUME NEW d \in T PROVE d + 1 \in T
  <2>1. ASSUME NEW i \in 1 .. n, i + (d + 1) \in 1 .. n PROVE f[i] >= f[i + (d + 1)]
    <3> DEFINE k == i + d
    <3>1. k \in 1 .. (n - 1) /\ k \in 1 .. n /\ k + 1 \in 1 .. n /\ i + (d + 1) = k + 1
      BY <2>1
    <3>2. f[i] >= f[k]
      BY <3>1
    <3> HIDE DEF k
    <3>3. f[k] >= f[k + 1]
      BY <3>1 DEF Descends
    <3>4. f[i] \in Nat /\ f[k] \in Nat /\ f[k + 1] \in Nat
      BY <3>1
    <3>5. f[i] >= f[k + 1]
      BY <3>2, <3>3, <3>4
    <3>. QED
      BY <3>1, <3>5
  <2>. QED
    BY <2>1
<1>3. T = Nat
  <2>1. T \in SUBSET Nat
    OBVIOUS
  <2> HIDE DEF T
  <2>. QED
    BY <1>1, <1>2, <2>1, NaturalsFrom0
<1>4. ASSUME NEW i \in 1 .. n, NEW j \in 1 .. n, i <= j PROVE f[i] >= f[j]
  <2>1. j - i \in Nat /\ i + (j - i) = j
    BY <1>4
  <2>2. j - i \in T
    BY <1>3, <2>1
  <2>. QED
    BY <2>1, <2>2
<1>. QED
  BY <1>4

\* The first of a sorted order of the keys, up to the limit, are a best answer.
LEMMA FusedIsBest ==
  ASSUME NEW ls, ls.semantic \in Seq(ToSet(ls.semantic)),
         ls.structural \in Seq(ToSet(ls.structural)), NEW c \in Nat, TopK \in Nat,
         NEW items \in Fused(MapOf(ls, c))
  PROVE  Best(ls, c, items)
<1> DEFINE K == KeysOf(ls)
           score(key) == ScoreIn(ls, c, key)
           n == Cardinality(K)
           m == Min({TopK, n})
<1>1. /\ MapOf(ls, c) = [key \in K |-> score(key)] /\ \A key : score(key) \in Nat
      /\ IsFiniteSet(K)
  BY MapOfScores
<1> HIDE DEF K, score
<1>2. PICK order \in SetToSeqs(DOMAIN MapOf(ls, c)) :
        /\ \A i \in 1 .. (Len(order) - 1) : MapOf(ls, c)[order[i]] >= MapOf(ls, c)[order[i + 1]]
        /\ items = SubSeq(order, 1, Min({TopK, Len(order)}))
  BY DEF Fused, SortedBy
<1>3. DOMAIN MapOf(ls, c) = K
  BY <1>1
<1>4. /\ order \in Seq(K) /\ Len(order) = n /\ DOMAIN order = 1 .. n /\ n \in Nat
      /\ ToSet(order) = K /\ IsInjective(order)
  BY <1>1, <1>2, <1>3, OrderOfSet
<1>5. items = SubSeq(order, 1, m)
  BY <1>2, <1>4
<1>6. m \in Nat /\ m <= n
  <2> DEFINE S == {TopK, n}
  <2>1. S \in SUBSET Nat /\ S # {} /\ n \in S
    BY <1>4
  <2> HIDE DEF S, n
  <2>2. Min(S) \in S /\ \A j \in S : Min(S) <= j
    BY <2>1, MinIsLeast
  <2>. QED
    BY <2>1, <2>2 DEF S
<1> HIDE DEF n, m
<1>7. Len(items) = m /\ DOMAIN items = 1 .. m /\ \A i \in 1 .. m : items[i] = order[i]
  BY <1>4, <1>5, <1>6, SubSeqProperties
<1> DEFINE f == [i \in 1 .. n |-> score(order[i])]
<1>8. \A i, j \in 1 .. n : i <= j => score(order[i]) >= score(order[j])
  <2>1. f \in [1 .. n -> Nat]
    BY <1>1
  <2>2. Descends(n, f)
    <3>1. ASSUME NEW i \in 1 .. (n - 1) PROVE f[i] >= f[i + 1]
      <4>1. i \in 1 .. n /\ i + 1 \in 1 .. n
        BY <1>4
      <4>2. order[i] \in K /\ order[i + 1] \in K
        BY <1>4, <4>1
      <4>3. MapOf(ls, c)[order[i]] = score(order[i]) /\ MapOf(ls, c)[order[i + 1]] = score(order[i + 1])
        BY <1>1, <4>2
      <4>4. f[i] = score(order[i]) /\ f[i + 1] = score(order[i + 1])
        BY <4>1
      <4> HIDE DEF f
      <4>5. MapOf(ls, c)[order[i]] >= MapOf(ls, c)[order[i + 1]]
        BY <1>2, <1>4
      <4>. QED
        BY <4>3, <4>4, <4>5
    <3> HIDE DEF f
    <3>. QED
      BY <3>1 DEF Descends
  <2>3. \A i \in 1 .. n : f[i] = score(order[i])
    OBVIOUS
  <2> HIDE DEF f
  <2>4. \A i, j \in 1 .. n : i <= j => f[i] >= f[j]
    BY <1>4, <2>1, <2>2, LaterIsLower
  <2>. QED
    BY <2>3, <2>4
<1>9. \A i \in 1 .. m : i \in 1 .. n
  BY <1>4, <1>6
<1>10. ToSet(items) = {order[i] : i \in 1 .. m} /\ K = {order[i] : i \in 1 .. n}
  BY <1>4, <1>7 DEF ToSet
<1>11. ToSet(items) \subseteq K
  BY <1>9, <1>10
<1>12. IsInjective(items)
  BY <1>4, <1>7, <1>9 DEF IsInjective
<1>13. ASSUME NEW i \in DOMAIN items, NEW j \in DOMAIN items, i < j
       PROVE  score(items[i]) >= score(items[j])
  BY <1>6, <1>7, <1>8, <1>9, <1>13
<1>14. ASSUME NEW key \in K \ ToSet(items), NEW item \in ToSet(items)
       PROVE  score(key) <= score(item)
  <2>1. PICK j \in 1 .. n : key = order[j]
    BY <1>10
  <2>2. PICK i \in 1 .. m : item = order[i]
    BY <1>10
  <2>3. j \notin 1 .. m
    BY <1>10, <2>1
  <2>4. i <= j /\ i \in 1 .. n
    BY <1>4, <1>6, <1>9, <2>3
  <2>5. score(order[i]) >= score(order[j]) /\ score(order[i]) \in Nat /\ score(order[j]) \in Nat
    BY <1>1, <1>8, <2>4
  <2>. QED
    BY <2>1, <2>2, <2>5
<1>15. Len(items) = Min({TopK, Cardinality(KeysOf(ls))})
  BY <1>7 DEF m, n, K
<1>. QED
  BY <1>11, <1>12, <1>13, <1>14, <1>15 DEF Best, K, score

-----------------------------------------------------------------------------
\* FusionKeepsTheBest is this promise about the variables.
LEMMA FusionIsBest ==
  FusionKeepsTheBest
    <=> (answer.from = "fusion" => Best(lists, decision.confidence, answer.items))
<1>1. \A key : Score(key) = ScoreIn(lists, decision.confidence, key)
  BY ScoreIsScoreIn
<1>. QED
  BY <1>1 DEF FusionKeepsTheBest, Best, KeysOf

\* The answer of a fusion is a best one: as many different results as there are, up
\* to the limit, in the order of their scores, and none left out that has a higher
\* score than one kept (executeHybrid, reciprocalRankFusion).
THEOREM FusionHolds == Spec => []FusionKeepsTheBest
<1> DEFINE Promise == answer.from = "fusion" => Best(lists, decision.confidence, answer.items)
<1>1. Init => Promise
  BY DEF Init
<1>2. Invariant /\ Promise /\ [Next]_vars => Promise'
  <2>1. SUFFICES ASSUME Invariant, Promise, [Next]_vars PROVE Promise'
    OBVIOUS
  <2>2. CASE Fuse
    <3>1. /\ lists' = lists /\ decision' = decision
          /\ \E items \in Fused(ScoreMap) : answer' = [from |-> "fusion", items |-> items]
      BY <2>2 DEF Fuse, Answer
    <3>2. PICK items \in Fused(ScoreMap) : answer' = [from |-> "fusion", items |-> items]
      BY <3>1
    <3>3. ScoreMap = MapOf(lists, decision.confidence)
      BY Zenon DEF ScoreMap, MapOf
    <3>4. decision.confidence \in Nat /\ TopK \in Nat
      BY <2>1, SearchConstants DEF Invariant, AnswerShape
    <3>5. /\ lists.semantic \in Rankings \cup {<<>>} /\ lists.structural \in Rankings \cup {<<>>}
      BY <2>1 DEF Invariant, AnswerShape
    <3>6. \A list \in Rankings \cup {<<>>} : list \in Seq(ToSet(list))
      <4>1. <<>> \in Seq(ToSet(<<>>))
        OBVIOUS
      <4>2. \A list \in Rankings : list \in Seq(ToSet(list))
        BY SearchConstants, Zenon
      <4>. QED
        BY <4>1, <4>2
    <3>7. Best(lists, decision.confidence, items)
      BY <3>2, <3>3, <3>4, <3>5, <3>6, FusedIsBest
    <3>8. answer'.items = items
      BY <3>2
    <3>. QED
      BY <3>1, <3>7, <3>8
  <2>3. CASE UNCHANGED vars
    BY <2>1, <2>3 DEF vars
  <2>4. CASE Next /\ ~Fuse
    <3>1. pc # "done"
      BY <2>4 DEF Next, Route, AskGraph, WalkStep, WalkReturns, WalkAnswers, WalkFails, SearchGraph,
         LookUp, LookUpFails, SkipGraph, NoExecutor, ExecuteOne, AskBoth
    <3>2. answer.from = "none"
      BY <2>1, <3>1 DEF Invariant, PlaceShape
    <3>3. answer' = answer \/ answer'.from \in {"none", "graph", "executor", "error"}
      <4>1. CASE Route \/ AskGraph \/ WalkStep \/ WalkReturns \/ WalkFails \/ LookUpFails
                  \/ SkipGraph \/ AskBoth
        BY <4>1 DEF Route, AskGraph, WalkStep, WalkReturns, WalkFails, LookUpFails, SkipGraph, AskBoth
      <4>2. CASE WalkAnswers \/ NoExecutor
        BY <4>2 DEF WalkAnswers, NoExecutor, Answer
      <4>3. CASE SearchGraph
        BY <4>3 DEF SearchGraph, Answer
      <4>4. CASE LookUp
        BY <4>4 DEF LookUp, Answer
      <4>5. CASE ExecuteOne
        BY <4>5 DEF ExecuteOne, Answer
      <4>. QED
        BY <2>4, <4>1, <4>2, <4>3, <4>4, <4>5 DEF Next
    <3>. QED
      BY <3>2, <3>3
  <2>. QED
    BY <2>1, <2>2, <2>3, <2>4
<1> HIDE DEF Promise
<1>3. Spec => []Promise
  BY <1>1, <1>2, Inductive, PTL DEF Spec
<1>4. Promise => FusionKeepsTheBest
  BY FusionIsBest DEF Promise
<1>. QED
  BY <1>3, <1>4, PTL

=============================================================================
