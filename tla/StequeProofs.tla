---------------------------- MODULE StequeProofs -----------------------------
(***************************************************************************)
(* The linked list of steque.c (Steque) is always well formed, and a       *)
(* sequence to its callers, for any number of nodes and items.             *)
(*                                                                         *)
(* The nodes of the list, in order, are a function p on 0 .. N-1, and each *)
(* operation has its function for the list that it leaves.                 *)
(***************************************************************************)
EXTENDS Steque, SequenceTheorems, FiniteSetTheorems, NaturalsInduction, TLAPS

-----------------------------------------------------------------------------
(***************************************************************************)
(* The invariant.                                                          *)
(***************************************************************************)
\* The nodes p[0] .. p[n - 1] are linked from f to b, and are those of lv.
Chain(f, b, nx, lv, p, n) ==
    /\ n \in Nat /\ p \in [0 .. n - 1 -> Node]
    /\ \A j, k \in 0 .. n - 1 : p[j] = p[k] => j = k
    /\ lv = {p[k] : k \in 0 .. n - 1}
    /\ f = (IF n = 0 THEN Null ELSE p[0])
    /\ b = (IF n = 0 THEN Null ELSE p[n - 1])
    /\ \A k \in 0 .. n - 1 : nx[p[k]] = IF k = n - 1 THEN Null ELSE p[k + 1]

ListInv ==
    /\ TypeOK
    /\ N = Cardinality(live)
    /\ \E p : Chain(front, back, next, live, p, N)

\* What the list is to its callers.
Items == [k \in 1 .. N |-> item[At[k - 1]]]

-----------------------------------------------------------------------------
(***************************************************************************)
(* Following the links.                                                    *)
(***************************************************************************)
LEMMA LeastElement ==
    ASSUME NEW T \in SUBSET Nat, T # {}
    PROVE  \E n \in T : \A m \in T : n <= m
<1>1. PICK n \in T : \A m \in T : ~(<<m, n>> \in OpToRel(<, Nat))
      BY NatLessThanWellFounded, WFMin, Zenon
<1>2. \A m \in T : ~(m < n)
      BY <1>1 DEF OpToRel
<1>. QED BY <1>2

\* A set that has 0 and the successors of its members has every natural.
LEMMA SetInduction ==
    ASSUME NEW S, 0 \in S, \A n \in Nat : n \in S => n + 1 \in S
    PROVE  \A n \in Nat : n \in S
<1> DEFINE T == Nat \ S
<1> SUFFICES ASSUME T # {} PROVE FALSE
    OBVIOUS
<1>1. T \in SUBSET Nat
      OBVIOUS
<1> HIDE DEF T
<1>2. PICK n \in T : \A m \in T : n <= m
      BY <1>1, LeastElement
<1>3. n \in Nat /\ n \notin S
      BY <1>2 DEF T
<1>4. n # 0 /\ n - 1 \in Nat /\ n - 1 \in S
      BY <1>2, <1>3 DEF T
<1>. QED BY <1>3, <1>4

LEMMA NodesCounted ==
    Cardinality(Node) \in Nat
BY NodeAssumption, FS_CardinalityType

\* One link from the node that g has for k - 1.
Link(f, nx, g, k) ==
    IF k = 0 THEN f ELSE IF g[k - 1] \in Node THEN nx[g[k - 1]] ELSE Undefined

Follows(f, nx, g) == g = [k \in 0 .. Cardinality(Node) |-> Link(f, nx, g, k)]

\* At, for any front and links.
Walk(f, nx) == CHOOSE g : Follows(f, nx, g)

\* The walk along a chain meets its nodes, then Null: the equation has that
\* solution, and all its solutions agree.
LEMMA WalkIs ==
    ASSUME NEW f, NEW b, NEW nx, NEW lv, NEW p, NEW n, Chain(f, b, nx, lv, p, n)
    PROVE  \A k \in 0 .. Cardinality(Node) :
             Walk(f, nx)[k] = IF k < n THEN p[k] ELSE IF k = n THEN Null ELSE Undefined
<1> DEFINE C == Cardinality(Node)
           h == [k \in 0 .. C |-> IF k < n THEN p[k] ELSE IF k = n THEN Null ELSE Undefined]
           A == Walk(f, nx)
<1>1. /\ C \in Nat /\ n \in Nat /\ p \in [0 .. n - 1 -> Node]
      /\ f = (IF n = 0 THEN Null ELSE p[0])
      /\ \A k \in 0 .. n - 1 : nx[p[k]] = IF k = n - 1 THEN Null ELSE p[k + 1]
      BY NodesCounted DEF Chain
<1> HIDE DEF C
<1>2. ASSUME NEW k \in 0 .. C, NEW g, k # 0 => g[k - 1] = h[k - 1]
      PROVE  Link(f, nx, g, k) = h[k]
  <2>1. CASE k = 0
        BY <1>1, <2>1 DEF Link
  <2>2. CASE k # 0
    <3>1. k - 1 \in 0 .. C /\ k \in Nat
          BY <1>1, <2>2
    <3>2. h[k - 1] = IF k - 1 < n THEN p[k - 1] ELSE IF k - 1 = n THEN Null ELSE Undefined
          BY <3>1
    <3>3. CASE k - 1 < n
      <4>1. k - 1 \in 0 .. n - 1
            BY <1>1, <3>1, <3>3
      <4>2. p[k - 1] \in Node /\ nx[p[k - 1]] = IF k - 1 = n - 1 THEN Null ELSE p[(k - 1) + 1]
            BY <1>1, <4>1
      <4>3. Link(f, nx, g, k) = nx[p[k - 1]]
            BY <1>2, <2>2, <3>2, <3>3, <4>2 DEF Link
      <4>4. (k - 1) + 1 = k /\ (k - 1 = n - 1 <=> k = n) /\ k <= n
            BY <1>1, <3>1, <3>3
      <4>5. h[k] = IF k < n THEN p[k] ELSE IF k = n THEN Null ELSE Undefined
            OBVIOUS
      <4>6. CASE k = n
            BY <1>1, <4>2, <4>3, <4>4, <4>5, <4>6
      <4>7. CASE k # n
        <5>1. k < n
              BY <1>1, <3>1, <4>4, <4>7
        <5>.  QED BY <4>2, <4>3, <4>4, <4>5, <4>7, <5>1
      <4>.  QED BY <4>6, <4>7
    <3>4. CASE ~(k - 1 < n)
      <4>1. ~(k < n) /\ k # n
            BY <1>1, <3>1, <3>4
      <4>2. h[k] = Undefined /\ h[k - 1] \notin Node
            BY <3>2, <3>4, <4>1, NullAssumption
      <4>.  QED BY <1>2, <2>2, <4>2 DEF Link
    <3>.  QED BY <3>3, <3>4
  <2>.  QED BY <2>1, <2>2
<1> HIDE DEF h
<1>3. Follows(f, nx, h)
  <2>1. h = [k \in 0 .. C |-> h[k]]
        BY DEF h
  <2>2. \A k \in 0 .. C : Link(f, nx, h, k) = h[k]
        BY <1>2
  <2>.  QED BY <2>1, <2>2 DEF Follows, C
<1>4. Follows(f, nx, A)
      BY <1>3 DEF Walk
<1>5. \A k \in 0 .. C : A[k] = Link(f, nx, A, k)
      BY <1>4 DEF Follows, C
<1> HIDE DEF A
<1> DEFINE S == {k \in Nat : k <= C => A[k] = h[k]}
<1>6. 0 \in S
  <2>1. 0 \in 0 .. C
        BY <1>1
  <2>2. A[0] = h[0]
        BY <1>2, <1>5, <2>1
  <2>.  QED BY <2>2
<1>7. ASSUME NEW k \in Nat, k \in S
      PROVE  k + 1 \in S
  <2>1. CASE k + 1 <= C
    <3>1. k + 1 \in 0 .. C /\ (k + 1) - 1 = k /\ k <= C
          BY <1>1, <2>1
    <3>2. A[k] = h[k]
          BY <1>7, <3>1
    <3>3. Link(f, nx, A, k + 1) = h[k + 1]
          BY <1>2, <3>1, <3>2
    <3>.  QED BY <1>5, <3>1, <3>3
  <2>2. CASE ~(k + 1 <= C)
        BY <2>2
  <2>.  QED BY <2>1, <2>2
<1>8. \A k \in Nat : k \in S
  <2>.  HIDE DEF S
  <2>.  QED BY <1>6, <1>7, SetInduction
<1>9. \A k \in 0 .. C : A[k] = h[k]
      BY <1>1, <1>8
<1>. QED BY <1>1, <1>9 DEF h, A, C

\* A chain of all the nodes that are allocated is what At and Items see.
LEMMA ChainBounds ==
    ASSUME NEW f, NEW b, NEW nx, NEW lv \in SUBSET Node, NEW p, NEW n,
           Chain(f, b, nx, lv, p, n), n = Cardinality(lv)
    PROVE  /\ n \in Nat /\ n <= Cardinality(Node) /\ IsFiniteSet(lv)
           /\ \A k \in 0 .. n - 1 : Walk(f, nx)[k] = p[k] /\ p[k] \in lv
           /\ Walk(f, nx)[n] = Null
<1>1. n \in Nat /\ IsFiniteSet(lv) /\ n <= Cardinality(Node)
      BY NodeAssumption, FS_Subset DEF Chain
<1>2. \A k \in 0 .. n : k \in 0 .. Cardinality(Node)
      BY <1>1, NodesCounted
<1>3. Walk(f, nx)[n] = Null
  <2>1. n \in 0 .. n /\ ~(n < n)
        BY <1>1
  <2>.  QED BY <1>2, <2>1, WalkIs
<1>4. ASSUME NEW k \in 0 .. n - 1 PROVE Walk(f, nx)[k] = p[k] /\ p[k] \in lv
  <2>1. k \in 0 .. n /\ k < n
        BY <1>1
  <2>2. p[k] \in lv
        BY DEF Chain
  <2>.  QED BY <1>2, <2>1, <2>2, WalkIs
<1>. QED BY <1>1, <1>3, <1>4

LEMMA AtIsWalk ==
    At = Walk(front, next) /\ At' = Walk(front', next')
<1>1. At = Walk(front, next)
      BY DEF At, Walk, Follows, Link
<1>2. At' = Walk(front', next')
      BY DEF At, Walk, Follows, Link
<1>. QED BY <1>1, <1>2

\* The list before a step.
LEMMA ListIs ==
    ASSUME ListInv
    PROVE  \E p :
             /\ Chain(front, back, next, live, p, N)
             /\ N \in Nat /\ N <= Cardinality(Node) /\ IsFiniteSet(live)
             /\ Items \in Seq(Item) /\ Len(Items) = N
             /\ \A k \in 1 .. N : Items[k] = item[p[k - 1]]
             /\ \A k \in 0 .. N - 1 : At[k] = p[k] /\ p[k] \in live
             /\ At[N] = Null
<1>1. PICK p : Chain(front, back, next, live, p, N)
      BY DEF ListInv
<1>2. live \in SUBSET Node /\ N = Cardinality(live)
      BY DEF ListInv, TypeOK
<1>3. /\ N \in Nat /\ N <= Cardinality(Node) /\ IsFiniteSet(live)
      /\ \A k \in 0 .. N - 1 : At[k] = p[k] /\ p[k] \in live
      /\ At[N] = Null
  <2>1. /\ N \in Nat
        /\ \A k \in 0 .. N - 1 : Walk(front, next)[k] = p[k] /\ p[k] \in live
        BY <1>1, <1>2, ChainBounds
  <2>2. Walk(front, next)[N] = Null
        BY <1>1, <1>2, ChainBounds
  <2>3. N <= Cardinality(Node) /\ IsFiniteSet(live)
        BY <1>1, <1>2, ChainBounds
  <2>.  QED BY <2>1, <2>2, <2>3, AtIsWalk
<1>4. \A k \in 1 .. N : k - 1 \in 0 .. N - 1
      BY <1>3
<1>5. \A k \in 1 .. N : Items[k] = item[p[k - 1]]
      BY <1>3, <1>4 DEF Items
<1>6. \A k \in 1 .. N : item[At[k - 1]] \in Item
      BY <1>2, <1>3, <1>4 DEF ListInv, TypeOK
<1>7. Items \in Seq(Item) /\ Len(Items) = N
  <2>1. Items \in [1 .. N -> Item]
        BY <1>6 DEF Items
  <2>.  QED BY <1>3, <2>1
<1>. QED BY <1>1, <1>3, <1>5, <1>7

\* The list after a step, given its nodes.
LEMMA ListFrom ==
    ASSUME TypeOK', N' = Cardinality(live'), NEW q,
           Chain(front', back', next', live', q, N')
    PROVE  /\ ListInv' /\ N' \in Nat
           /\ Items' \in Seq(Item) /\ Len(Items') = N'
           /\ \A k \in 1 .. N' : Items'[k] = item'[q[k - 1]]
<1>1. live' \in SUBSET Node /\ \A m \in live' : item'[m] \in Item
      BY DEF TypeOK
<1>2. /\ N' \in Nat
      /\ \A k \in 0 .. N' - 1 : Walk(front', next')[k] = q[k] /\ q[k] \in live'
      BY <1>1, ChainBounds
<1>3. \A k \in 1 .. N' : k - 1 \in 0 .. N' - 1
      BY <1>2
<1>4. \A k \in 1 .. N' : At'[k - 1] = q[k - 1]
      BY <1>2, <1>3, AtIsWalk
<1>5. Items' = [k \in 1 .. N' |-> item'[q[k - 1]]]
      BY <1>4 DEF Items
<1>6. Items' \in [1 .. N' -> Item]
      BY <1>1, <1>2, <1>3, <1>5
<1>7. Items' \in Seq(Item) /\ Len(Items') = N'
      BY <1>2, <1>6
<1>8. ListInv'
      BY DEF ListInv
<1>. QED BY <1>2, <1>5, <1>7, <1>8

\* A step that leaves the nodes and their items as they are.
LEMMA SameList ==
    ASSUME ListInv, UNCHANGED <<front, back, N, item, next, live>>
    PROVE  Items' = Items
BY DEF Items, At

-----------------------------------------------------------------------------
(***************************************************************************)
(* The operations.                                                         *)
(***************************************************************************)
\* A new node is none of the list.
LEMMA NewNodeIs ==
    ASSUME ListInv, NEW n \in Node, NEW i \in Item, NewNode(n, i)
    PROVE  /\ n \notin live /\ live' = live \cup {n} /\ live' \subseteq Node
           /\ Cardinality(live') = N + 1
           /\ item' \in [Node -> Item \cup {Undefined}]
           /\ item'[n] = i /\ \A m \in Node \ {n} : item'[m] = item[m]
           /\ \A m \in live' : item'[m] # Undefined
<1>1. IsFiniteSet(live) /\ N = Cardinality(live) /\ TypeOK
      BY ListIs DEF ListInv
<1>2. n \notin live /\ live' = live \cup {n} /\ item' = [item EXCEPT ![n] = i]
      BY DEF NewNode
<1>3. Cardinality(live') = N + 1
      BY <1>1, <1>2, FS_AddElement
<1>4. /\ item' \in [Node -> Item \cup {Undefined}]
      /\ item'[n] = i /\ \A m \in Node \ {n} : item'[m] = item[m]
      BY <1>1, <1>2 DEF TypeOK
<1>5. i # Undefined
      BY NullAssumption
<1>. QED BY <1>1, <1>2, <1>3, <1>4, <1>5 DEF TypeOK

\* steque_enqueue appends.
LEMMA EnqueueAppends ==
    ASSUME ListInv, NEW i \in Item, Enqueue(i)
    PROVE  ListInv' /\ Sequence!Enqueue(i)
<1>1. PICK n \in Node :
        /\ NewNode(n, i)
        /\ \/ /\ back = Null
              /\ front' = n
              /\ next' = [next EXCEPT ![n] = Null]
           \/ /\ back # Null
              /\ next' = [next EXCEPT ![n] = Null, ![back] = n]
              /\ UNCHANGED front
        /\ back' = n
        /\ N' = N + 1
        /\ Void
      BY DEF Enqueue
<1>2. PICK p :
        /\ Chain(front, back, next, live, p, N)
        /\ N \in Nat /\ N <= Cardinality(Node) /\ IsFiniteSet(live)
        /\ Items \in Seq(Item) /\ Len(Items) = N
        /\ \A k \in 1 .. N : Items[k] = item[p[k - 1]]
        /\ \A k \in 0 .. N - 1 : At[k] = p[k] /\ p[k] \in live
        /\ At[N] = Null
      BY ListIs
<1>3. /\ n \notin live /\ live' = live \cup {n} /\ live' \subseteq Node
      /\ Cardinality(live') = N + 1
      /\ item' \in [Node -> Item \cup {Undefined}]
      /\ item'[n] = i /\ \A m \in Node \ {n} : item'[m] = item[m]
      /\ \A m \in live' : item'[m] # Undefined
      BY <1>1, NewNodeIs
<1>4. TypeOK /\ next \in [Node -> Node \cup {Null, Undefined}] /\ live \subseteq Node
      BY DEF ListInv, TypeOK
<1>5. /\ p \in [0 .. N - 1 -> Node]
      /\ \A j, k \in 0 .. N - 1 : p[j] = p[k] => j = k
      /\ live = {p[k] : k \in 0 .. N - 1}
      /\ front = (IF N = 0 THEN Null ELSE p[0])
      /\ back = (IF N = 0 THEN Null ELSE p[N - 1])
      /\ \A k \in 0 .. N - 1 : next[p[k]] = IF k = N - 1 THEN Null ELSE p[k + 1]
      BY <1>2 DEF Chain
<1> DEFINE q == [k \in 0 .. N |-> IF k < N THEN p[k] ELSE n]
<1>6. /\ \A k \in 0 .. N - 1 : k \in 0 .. N /\ k < N /\ q[k] = p[k] /\ q[k] # n
      /\ q[N] = n /\ N' - 1 = N /\ N' \in Nat
  <2>1. \A k \in 0 .. N - 1 : k \in 0 .. N /\ k < N
        BY <1>2
  <2>2. N \in 0 .. N /\ ~(N < N) /\ N' - 1 = N /\ N' \in Nat
        BY <1>1, <1>2
  <2>.  QED BY <1>2, <1>3, <2>1, <2>2
<1>0. N \in Nat /\ N' - 1 = N
      BY <1>2, <1>6
<1>7. q \in [0 .. N -> Node] /\ \A k \in 0 .. N : k \in 0 .. N - 1 \/ k = N
  <2>1. \A k \in 0 .. N : k \in 0 .. N - 1 \/ k = N
        BY <1>2
  <2>2. \A k \in 0 .. N : q[k] \in Node
        BY <1>5, <1>6, <2>1
  <2>.  QED BY <2>1, <2>2
<1> HIDE DEF q
<1>8. /\ next' \in [Node -> Node \cup {Null, Undefined}]
      /\ \A m \in live \ {back} : next'[m] = next[m]
      /\ back # Null => next'[back] = n
      /\ next'[n] = Null
  <2>1. CASE back = Null
    <3>1. next' = [next EXCEPT ![n] = Null]
          BY <1>1, <2>1
    <3>.  QED BY <1>3, <1>4, <2>1, <3>1
  <2>2. CASE back # Null
    <3>1. next' = [next EXCEPT ![n] = Null, ![back] = n]
          BY <1>1, <2>2
    <3>2. N - 1 \in 0 .. N - 1
          BY <1>2, <1>5, <2>2
    <3>3. back \in live
          BY <1>2, <1>5, <2>2, <3>2
    <3>.  QED BY <1>3, <1>4, <3>1, <3>3
  <2>.  QED BY <2>1, <2>2
<1>9. Chain(front', back', next', live', q, N')
  <2>1. q \in [0 .. N' - 1 -> Node] /\ N' \in Nat
        BY <1>6, <1>7
  <2>2. \A j, k \in 0 .. N' - 1 : q[j] = q[k] => j = k
        BY <1>5, <1>6, <1>7
  <2>3. live' = {q[k] : k \in 0 .. N' - 1}
    <3>1. \A k \in 0 .. N : q[k] \in live'
          BY <1>2, <1>3, <1>6, <1>7
    <3>2. \A m \in live' : \E k \in 0 .. N : m = q[k]
      <4>1. N \in 0 .. N
            BY <1>2
      <4>.  QED BY <1>3, <1>5, <1>6, <4>1
    <3>.  QED BY <1>6, <3>1, <3>2
  <2>4. front' = (IF N' = 0 THEN Null ELSE q[0])
    <3>1. N' # 0
          BY <1>1, <1>2
    <3>2. CASE N = 0
      <4>1. back = Null
            BY <1>5, <3>2
      <4>.  QED BY <1>1, <1>6, <3>1, <3>2, <4>1
    <3>3. CASE N # 0
      <4>1. 0 \in 0 .. N - 1 /\ N - 1 \in 0 .. N - 1
            BY <1>2, <3>3
      <4>2. back # Null
            BY <1>5, <3>3, <4>1, NullAssumption
      <4>.  QED BY <1>1, <1>5, <1>6, <3>1, <3>3, <4>1, <4>2
    <3>.  QED BY <3>2, <3>3
  <2>5. back' = (IF N' = 0 THEN Null ELSE q[N' - 1])
        BY <1>1, <1>2, <1>6
  <2>6. ASSUME NEW k \in 0 .. N' - 1
        PROVE  next'[q[k]] = IF k = N' - 1 THEN Null ELSE q[k + 1]
    <3>1. CASE k = N
          BY <1>6, <1>8, <3>1
    <3>2. CASE k = N - 1 /\ k \in 0 .. N - 1
      <4>1. back = p[k] /\ back # Null /\ q[k] = back
            BY <1>2, <1>5, <1>6, <3>2, NullAssumption
      <4>2. k + 1 = N /\ k # N' - 1
            BY <1>0, <3>2
      <4>.  QED BY <1>6, <1>8, <4>1, <4>2
    <3>3. CASE k # N - 1 /\ k \in 0 .. N - 1
      <4>1. k + 1 \in 0 .. N - 1 /\ N - 1 \in 0 .. N - 1 /\ k # N' - 1
            BY <1>0, <3>3
      <4>2. p[k] # p[N - 1] /\ p[k] \in live /\ back = p[N - 1]
            BY <1>2, <1>5, <3>3, <4>1
      <4>3. next'[p[k]] = p[k + 1]
            BY <1>5, <1>8, <3>3, <4>2
      <4>.  QED BY <1>6, <3>3, <4>1, <4>3
    <3>4. k \in 0 .. N
          BY <1>6
    <3>.  QED BY <1>7, <3>1, <3>2, <3>3, <3>4
  <2>.  QED BY <2>1, <2>2, <2>3, <2>4, <2>5, <2>6 DEF Chain
<1>10. TypeOK'
  <2>1. \A m \in live' : next'[m] # Undefined
        BY <1>3, <1>4, <1>8, NullAssumption DEF TypeOK
  <2>2. front' \in Node \cup {Null} /\ back' \in Node \cup {Null} /\ N' \in Int
        BY <1>1, <1>4, <1>6 DEF TypeOK
  <2>3. result' = NoResult /\ exited' = exited
        BY <1>1 DEF Void
  <2>.  QED BY <1>3, <1>4, <1>8, <2>1, <2>2, <2>3 DEF TypeOK
<1>11. /\ ListInv' /\ N' \in Nat
       /\ Items' \in Seq(Item) /\ Len(Items') = N'
       /\ \A k \in 1 .. N' : Items'[k] = item'[q[k - 1]]
      BY <1>1, <1>3, <1>9, <1>10, ListFrom
<1>12. Items' = Append(Items, i)
  <2>1. /\ Append(Items, i) \in Seq(Item) /\ Len(Append(Items, i)) = N + 1
        /\ \A k \in 1 .. N : Append(Items, i)[k] = Items[k]
        /\ Append(Items, i)[N + 1] = i
        BY <1>2, AppendProperties
  <2>2. ASSUME NEW k \in 1 .. N + 1
        PROVE  Items'[k] = Append(Items, i)[k]
    <3>1. Items'[k] = item'[q[k - 1]]
          BY <1>1, <1>11
    <3>2. CASE k = N + 1
      <4>1. k - 1 = N
            BY <1>2, <3>2
      <4>.  QED BY <1>3, <1>6, <2>1, <3>1, <3>2, <4>1
    <3>3. CASE k # N + 1
      <4>1. k - 1 \in 0 .. N - 1 /\ k \in 1 .. N
            BY <1>2, <3>3
      <4>2. Items[k] = item[p[k - 1]]
            BY <1>2, <4>1
      <4>3. q[k - 1] = p[k - 1] /\ p[k - 1] \in Node \ {n}
            BY <1>5, <1>6, <4>1
      <4>.  QED BY <1>3, <2>1, <3>1, <4>1, <4>2, <4>3
    <3>.  QED BY <3>2, <3>3
  <2>.  QED BY <1>1, <1>11, <2>1, <2>2, SeqEqual
<1>. QED BY <1>1, <1>11, <1>12 DEF Sequence!Enqueue, Sequence!Void, Void, Items

\* The nodes of a chain.
LEMMA ChainNodes ==
    ASSUME ListInv, NEW p, Chain(front, back, next, live, p, N)
    PROVE  /\ p \in [0 .. N - 1 -> Node]
           /\ \A j, k \in 0 .. N - 1 : p[j] = p[k] => j = k
           /\ live = {p[k] : k \in 0 .. N - 1}
           /\ front = (IF N = 0 THEN Null ELSE p[0])
           /\ back = (IF N = 0 THEN Null ELSE p[N - 1])
           /\ \A k \in 0 .. N - 1 : next[p[k]] = IF k = N - 1 THEN Null ELSE p[k + 1]
           /\ TypeOK /\ next \in [Node -> Node \cup {Null, Undefined}] /\ live \subseteq Node
           /\ item \in [Node -> Item \cup {Undefined}] /\ Undefined \notin Item
           /\ \A m \in live : item[m] # Undefined /\ next[m] # Undefined
BY NullAssumption DEF Chain, ListInv, TypeOK

\* steque_push prepends.
LEMMA PushPrepends ==
    ASSUME ListInv, NEW i \in Item, Push(i)
    PROVE  ListInv' /\ Sequence!Push(i)
<1>1. PICK n \in Node :
        /\ NewNode(n, i)
        /\ next'  = [next EXCEPT ![n] = front]
        /\ back'  = IF back = Null THEN n ELSE back
        /\ front' = n
        /\ N' = N + 1
        /\ Void
      BY DEF Push
<1>2. PICK p :
        /\ Chain(front, back, next, live, p, N)
        /\ N \in Nat /\ N <= Cardinality(Node) /\ IsFiniteSet(live)
        /\ Items \in Seq(Item) /\ Len(Items) = N
        /\ \A k \in 1 .. N : Items[k] = item[p[k - 1]]
        /\ \A k \in 0 .. N - 1 : At[k] = p[k] /\ p[k] \in live
        /\ At[N] = Null
      BY ListIs
<1>3. /\ n \notin live /\ live' = live \cup {n} /\ live' \subseteq Node
      /\ Cardinality(live') = N + 1
      /\ item' \in [Node -> Item \cup {Undefined}]
      /\ item'[n] = i /\ \A m \in Node \ {n} : item'[m] = item[m]
      /\ \A m \in live' : item'[m] # Undefined
      BY <1>1, NewNodeIs
<1>4. /\ p \in [0 .. N - 1 -> Node]
      /\ \A j, k \in 0 .. N - 1 : p[j] = p[k] => j = k
      /\ live = {p[k] : k \in 0 .. N - 1}
      /\ front = (IF N = 0 THEN Null ELSE p[0])
      /\ back = (IF N = 0 THEN Null ELSE p[N - 1])
      /\ \A k \in 0 .. N - 1 : next[p[k]] = IF k = N - 1 THEN Null ELSE p[k + 1]
      /\ TypeOK /\ next \in [Node -> Node \cup {Null, Undefined}] /\ live \subseteq Node
      /\ \A m \in live : next[m] # Undefined
      BY <1>2, ChainNodes
<1>5. N \in Nat /\ N' \in Nat /\ N' - 1 = N /\ N' # 0
      BY <1>1, <1>2
<1> DEFINE q == [k \in 0 .. N |-> IF k = 0 THEN n ELSE p[k - 1]]
<1>6. /\ \A k \in 0 .. N : k = 0 \/ k - 1 \in 0 .. N - 1
      /\ \A k \in 0 .. N - 1 : k + 1 \in 0 .. N /\ k + 1 # 0 /\ (k + 1) - 1 = k
      /\ 0 \in 0 .. N
      BY <1>5
<1>7. q[0] = n /\ \A k \in 0 .. N - 1 : q[k + 1] = p[k]
      BY <1>6
<1>8. q \in [0 .. N -> Node] /\ \A k \in 0 .. N : k # 0 => q[k] = p[k - 1] /\ q[k] # n
  <2>1. \A k \in 0 .. N : k # 0 => q[k] = p[k - 1] /\ q[k] # n
        BY <1>2, <1>3, <1>6
  <2>2. \A k \in 0 .. N : q[k] \in Node
        BY <1>4, <1>6, <1>7, <2>1
  <2>.  QED BY <2>1, <2>2
<1> HIDE DEF q
<1>9. /\ next' \in [Node -> Node \cup {Null, Undefined}]
      /\ next'[n] = front /\ \A m \in live : next'[m] = next[m]
  <2>1. front \in Node \cup {Null}
        BY <1>4 DEF TypeOK
  <2>.  QED BY <1>1, <1>3, <1>4, <2>1
<1>10. Chain(front', back', next', live', q, N')
  <2>1. q \in [0 .. N' - 1 -> Node] /\ N' \in Nat
        BY <1>5, <1>8
  <2>2. ASSUME NEW j \in 0 .. N' - 1, NEW k \in 0 .. N' - 1, q[j] = q[k]
        PROVE  j = k
    <3>1. j \in 0 .. N /\ k \in 0 .. N
          BY <1>5
    <3>2. CASE j = 0 \/ k = 0
          BY <1>7, <1>8, <2>2, <3>1, <3>2
    <3>3. CASE j # 0 /\ k # 0
      <4>1. p[j - 1] = p[k - 1] /\ j - 1 \in 0 .. N - 1 /\ k - 1 \in 0 .. N - 1
            BY <1>6, <1>8, <2>2, <3>1, <3>3
      <4>2. j - 1 = k - 1
            BY <1>4, <4>1
      <4>.  QED BY <3>1, <4>2
    <3>.  QED BY <3>2, <3>3
  <2>3. live' = {q[k] : k \in 0 .. N' - 1}
    <3>1. \A k \in 0 .. N : q[k] \in live'
          BY <1>2, <1>3, <1>6, <1>7, <1>8
    <3>2. \A m \in live' : \E k \in 0 .. N : m = q[k]
      <4>1. \A k \in 0 .. N - 1 : \E j \in 0 .. N : p[k] = q[j]
            BY <1>6, <1>7
      <4>2. \A m \in live : \E k \in 0 .. N - 1 : m = p[k]
            BY <1>4
      <4>3. \A m \in live' : m = q[0] \/ m \in live
            BY <1>3, <1>7
      <4>.  QED BY <1>6, <4>1, <4>2, <4>3
    <3>.  QED BY <1>5, <3>1, <3>2
  <2>4. front' = (IF N' = 0 THEN Null ELSE q[0])
        BY <1>1, <1>5, <1>7
  <2>5. back' = (IF N' = 0 THEN Null ELSE q[N' - 1])
    <3>1. CASE N = 0
          BY <1>1, <1>4, <1>5, <1>7, <3>1
    <3>2. CASE N # 0
      <4>1. N - 1 \in 0 .. N - 1 /\ N \in 0 .. N
            BY <1>5, <3>2
      <4>2. back = q[N] /\ back # Null
            BY <1>4, <1>8, <3>2, <4>1, NullAssumption
      <4>.  QED BY <1>1, <1>5, <4>2
    <3>.  QED BY <3>1, <3>2
  <2>6. ASSUME NEW k \in 0 .. N' - 1
        PROVE  next'[q[k]] = IF k = N' - 1 THEN Null ELSE q[k + 1]
    <3>1. k \in 0 .. N
          BY <1>5
    <3>2. CASE k = 0
      <4>1. CASE N = 0
            BY <1>4, <1>5, <1>7, <1>9, <3>2, <4>1
      <4>2. CASE N # 0
        <5>1. 0 \in 0 .. N - 1 /\ q[0 + 1] = p[0]
              BY <1>5, <1>7, <4>2
        <5>.  QED BY <1>4, <1>5, <1>7, <1>9, <3>2, <4>2, <5>1
      <4>.  QED BY <4>1, <4>2
    <3>3. CASE k # 0
      <4>1. k - 1 \in 0 .. N - 1 /\ q[k] = p[k - 1] /\ p[k - 1] \in live
            BY <1>2, <1>6, <1>8, <3>1, <3>3
      <4>2. next'[q[k]] = IF k - 1 = N - 1 THEN Null ELSE p[(k - 1) + 1]
            BY <1>4, <1>9, <4>1
      <4>3. (k - 1) + 1 = k /\ (k - 1 = N - 1 <=> k = N)
        <5>1. N \in Int /\ k \in Int
              BY <1>5, <3>1
        <5>.  QED BY <5>1
      <4>4. k # N => q[k + 1] = p[k]
        <5>1. N \in Nat
              BY <1>5
        <5>2. k # N => k \in 0 .. N - 1
              BY <3>1, <5>1
        <5>.  QED BY <1>7, <5>2
      <4>.  QED BY <1>5, <4>2, <4>3, <4>4
    <3>.  QED BY <3>2, <3>3
  <2>.  QED BY <2>1, <2>2, <2>3, <2>4, <2>5, <2>6 DEF Chain
<1>11. TypeOK'
  <2>1. \A m \in live' : next'[m] # Undefined
        BY <1>3, <1>4, <1>9, NullAssumption DEF TypeOK
  <2>2. front' \in Node \cup {Null} /\ back' \in Node \cup {Null} /\ N' \in Int
        BY <1>1, <1>4, <1>5 DEF TypeOK
  <2>3. result' = NoResult /\ exited' = exited
        BY <1>1 DEF Void
  <2>.  QED BY <1>3, <1>4, <1>9, <2>1, <2>2, <2>3 DEF TypeOK
<1>12. /\ ListInv' /\ N' \in Nat
       /\ Items' \in Seq(Item) /\ Len(Items') = N'
       /\ \A k \in 1 .. N' : Items'[k] = item'[q[k - 1]]
      BY <1>1, <1>3, <1>10, <1>11, ListFrom
<1>13. Items' = <<i>> \o Items
  <2>1. /\ <<i>> \o Items \in Seq(Item) /\ Len(<<i>> \o Items) = 1 + N
        /\ \A k \in 1 .. 1 + N :
             (<<i>> \o Items)[k] = IF k <= 1 THEN i ELSE Items[k - 1]
    <3>1. <<i>> \in Seq(Item) /\ Len(<<i>>) = 1 /\ <<i>>[1] = i
          OBVIOUS
    <3>2. /\ <<i>> \o Items \in Seq(Item) /\ Len(<<i>> \o Items) = 1 + N
          /\ \A k \in 1 .. 1 + N :
               (<<i>> \o Items)[k] = IF k <= 1 THEN <<i>>[k] ELSE Items[k - 1]
          BY <1>2, <3>1, ConcatProperties
    <3>.  QED BY <1>5, <3>1, <3>2
  <2>2. ASSUME NEW k \in 1 .. N'
        PROVE  Items'[k] = (<<i>> \o Items)[k]
    <3>1. Items'[k] = item'[q[k - 1]] /\ k \in 1 .. 1 + N /\ k \in Nat
          BY <1>1, <1>5, <1>12
    <3>2. CASE k = 1
          BY <1>3, <1>7, <2>1, <3>1, <3>2
    <3>3. CASE k # 1
      <4>1. k - 1 \in 1 .. N /\ k - 1 \in 0 .. N /\ k - 1 # 0 /\ ~(k <= 1)
            BY <1>5, <3>1, <3>3
      <4>2. q[k - 1] = p[(k - 1) - 1] /\ q[k - 1] # n /\ q[k - 1] \in Node
            BY <1>8, <4>1
      <4>.  QED BY <1>2, <1>3, <2>1, <3>1, <4>1, <4>2
    <3>.  QED BY <3>2, <3>3
  <2>.  QED BY <1>1, <1>5, <1>12, <2>1, <2>2, SeqEqual
<1>. QED BY <1>1, <1>12, <1>13 DEF Sequence!Push, Sequence!Void, Void, Items

\* steque_pop takes the first item.
LEMMA PopTakesHead ==
    ASSUME ListInv, Pop
    PROVE  ListInv' /\ Sequence!Pop
<1>1. PICK p :
        /\ Chain(front, back, next, live, p, N)
        /\ N \in Nat /\ N <= Cardinality(Node) /\ IsFiniteSet(live)
        /\ Items \in Seq(Item) /\ Len(Items) = N
        /\ \A k \in 1 .. N : Items[k] = item[p[k - 1]]
        /\ \A k \in 0 .. N - 1 : At[k] = p[k] /\ p[k] \in live
        /\ At[N] = Null
      BY ListIs
<1>2. /\ p \in [0 .. N - 1 -> Node]
      /\ \A j, k \in 0 .. N - 1 : p[j] = p[k] => j = k
      /\ live = {p[k] : k \in 0 .. N - 1}
      /\ front = (IF N = 0 THEN Null ELSE p[0])
      /\ back = (IF N = 0 THEN Null ELSE p[N - 1])
      /\ \A k \in 0 .. N - 1 : next[p[k]] = IF k = N - 1 THEN Null ELSE p[k + 1]
      /\ TypeOK /\ next \in [Node -> Node \cup {Null, Undefined}] /\ live \subseteq Node
      /\ item \in [Node -> Item \cup {Undefined}] /\ Undefined \notin Item
      /\ \A m \in live : item[m] # Undefined /\ next[m] # Undefined
      BY <1>1, ChainNodes
<1>3. N \in Nat /\ N # 0 /\ 0 \in 0 .. N - 1 /\ N - 1 \in 0 .. N - 1
  <2>1. N # 0
        BY <1>2 DEF Pop
  <2>.  QED BY <1>1, <2>1
<1>4. N' = N - 1 /\ N' \in Nat /\ N' \in Int
      BY <1>3 DEF Pop
<1>5. PICK m \in live : m = p[0] /\ m = front /\ m \in Node
      BY <1>1, <1>2, <1>3
<1>6. /\ front' = next[m] /\ live' = live \ {m} /\ exited' = exited
      /\ item' = [item EXCEPT ![m] = Undefined] /\ next' = [next EXCEPT ![m] = Undefined]
      /\ back' = (IF next[m] = Null THEN Null ELSE back)
      /\ result' = [item |-> item[m]]
      BY <1>5 DEF Pop, BackAfterPop
<1>7. /\ item' \in [Node -> Item \cup {Undefined}] /\ next' \in [Node -> Node \cup {Null, Undefined}]
      /\ \A x \in live' : x \in live /\ x # m /\ item'[x] = item[x] /\ next'[x] = next[x]
      BY <1>2, <1>5, <1>6
<1>8. \A k \in 0 .. N' - 1 : k + 1 \in 0 .. N - 1 /\ k + 1 # 0 /\ k \in Nat
      BY <1>3, <1>4
<1>9. next[m] = (IF N' = 0 THEN Null ELSE p[1])
  <2>1. 0 = N - 1 <=> N' = 0
        BY <1>3, <1>4
  <2>2. next[p[0]] = IF 0 = N - 1 THEN Null ELSE p[0 + 1]
        BY <1>2, <1>3
  <2>.  QED BY <1>5, <2>1, <2>2
<1> DEFINE q == [k \in 0 .. N' - 1 |-> p[k + 1]]
<1>10. \A k \in 0 .. N' - 1 : q[k] = p[k + 1] /\ q[k] \in Node /\ q[k] \in live /\ q[k] # m
      BY <1>1, <1>2, <1>3, <1>5, <1>8
<1>11. q \in [0 .. N' - 1 -> Node]
      BY <1>10
<1> HIDE DEF q
<1>12. Chain(front', back', next', live', q, N')
  <2>1. ASSUME NEW j \in 0 .. N' - 1, NEW k \in 0 .. N' - 1, q[j] = q[k]
        PROVE  j = k
    <3>1. j + 1 = k + 1
          BY <1>2, <1>8, <1>10, <2>1
    <3>2. j \in Int /\ k \in Int
          OBVIOUS
    <3>.  QED BY <3>1, <3>2
  <2>2. live' = {q[k] : k \in 0 .. N' - 1}
    <3>1. \A k \in 0 .. N' - 1 : q[k] \in live'
          BY <1>6, <1>10
    <3>2. ASSUME NEW x \in live' PROVE \E k \in 0 .. N' - 1 : x = q[k]
      <4>1. PICK k \in 0 .. N - 1 : x = p[k]
            BY <1>2, <1>7
      <4>2. k # 0
            BY <1>5, <1>7, <4>1
      <4>3. k - 1 \in 0 .. N' - 1 /\ (k - 1) + 1 = k
            BY <1>3, <1>4, <4>2
      <4>4. q[k - 1] = p[(k - 1) + 1]
            BY <1>10, <4>3
      <4>.  QED BY <4>1, <4>3, <4>4
    <3>.  QED BY <3>1, <3>2
  <2>3. front' = (IF N' = 0 THEN Null ELSE q[0])
    <3>1. N' # 0 => q[0] = p[1]
      <4>1. N' # 0 => 0 \in 0 .. N' - 1
            BY <1>3, <1>4
      <4>.  QED BY <1>10, <4>1
    <3>.  QED BY <1>6, <1>9, <3>1
  <2>4. back' = (IF N' = 0 THEN Null ELSE q[N' - 1])
    <3>1. CASE N' = 0
          BY <1>6, <1>9, <3>1
    <3>2. CASE N' # 0
      <4>1. N' - 1 \in 0 .. N' - 1 /\ (N' - 1) + 1 = N - 1
            BY <1>3, <1>4, <3>2
      <4>2. q[N' - 1] = p[N - 1]
            BY <1>10, <4>1
      <4>3. 1 \in 0 .. N - 1
            BY <1>3, <1>4, <3>2
      <4>4. next[m] # Null
            BY <1>2, <1>9, <3>2, <4>3, NullAssumption
      <4>.  QED BY <1>2, <1>3, <1>6, <3>2, <4>2, <4>4
    <3>.  QED BY <3>1, <3>2
  <2>5. ASSUME NEW k \in 0 .. N' - 1
        PROVE  next'[q[k]] = IF k = N' - 1 THEN Null ELSE q[k + 1]
    <3>1. q[k] \in live' /\ q[k] = p[k + 1] /\ k + 1 \in 0 .. N - 1
          BY <1>6, <1>8, <1>10
    <3>2. next'[q[k]] = IF k + 1 = N - 1 THEN Null ELSE p[(k + 1) + 1]
          BY <1>2, <1>7, <3>1
    <3>3. k + 1 = N - 1 <=> k = N' - 1
      <4>1. k \in Int /\ N \in Int
            BY <1>3
      <4>.  QED BY <1>4, <4>1
    <3>4. k # N' - 1 => q[k + 1] = p[(k + 1) + 1]
      <4>1. k # N' - 1 => k + 1 \in 0 .. N' - 1
            BY <1>3, <1>4
      <4>.  QED BY <1>10, <4>1
    <3>.  QED BY <3>2, <3>3, <3>4
  <2>.  QED BY <1>4, <1>11, <2>1, <2>2, <2>3, <2>4, <2>5 DEF Chain
<1>13. Cardinality(live') = N'
  <2>1. N = Cardinality(live) /\ IsFiniteSet(live)
        BY <1>1 DEF ListInv
  <2>2. Cardinality(live \ {m}) = Cardinality(live) - 1
        BY <1>5, <2>1, FS_RemoveElement
  <2>.  QED BY <1>4, <1>6, <2>1, <2>2
<1>14. item[m] \in Item
      BY <1>2, <1>5
<1>15. TypeOK'
  <2>1. \A x \in live' : item'[x] # Undefined /\ next'[x] # Undefined
        BY <1>2, <1>7
  <2>2. front' \in Node \cup {Null} /\ back' \in Node \cup {Null} /\ live' \subseteq Node
    <3>1. N' # 0 => 1 \in 0 .. N - 1
          BY <1>3, <1>4
    <3>.  QED BY <1>2, <1>3, <1>6, <1>9, <3>1
  <2>3. result' \in [item : Item] /\ exited' \in BOOLEAN
        BY <1>2, <1>6, <1>14 DEF TypeOK
  <2>.  QED BY <1>4, <1>7, <2>1, <2>2, <2>3 DEF TypeOK
<1>16. /\ ListInv' /\ N' \in Nat
       /\ Items' \in Seq(Item) /\ Len(Items') = N'
       /\ \A k \in 1 .. N' : Items'[k] = item'[q[k - 1]]
      BY <1>12, <1>13, <1>15, ListFrom
<1>17. Items # <<>> /\ Head(Items) = item[m]
  <2>1. 1 \in 1 .. N /\ 1 - 1 = 0
        BY <1>3
  <2>2. Items[1] = item[m]
        BY <1>1, <1>5, <2>1
  <2>.  QED BY <1>1, <1>3, <2>2
<1>18. Items' = Tail(Items)
  <2>1. /\ Tail(Items) \in Seq(Item) /\ Len(Tail(Items)) = N - 1
        /\ \A k \in 1 .. Len(Tail(Items)) : Tail(Items)[k] = Items[k + 1]
        BY <1>1, <1>17, HeadTailProperties
  <2>2. ASSUME NEW k \in 1 .. N'
        PROVE  Items'[k] = Tail(Items)[k]
    <3>1. /\ k - 1 \in 0 .. N' - 1 /\ k + 1 \in 1 .. N
          /\ (k - 1) + 1 = k /\ (k + 1) - 1 = k
          BY <1>3, <1>4
    <3>2. Items[k + 1] = item[p[k]]
          BY <1>1, <3>1
    <3>3. q[k - 1] = p[k] /\ q[k - 1] \in live'
          BY <1>6, <1>10, <3>1
    <3>.  QED BY <1>4, <1>7, <1>16, <2>1, <3>2, <3>3
  <2>.  QED BY <1>4, <1>16, <2>1, <2>2, SeqEqual
<1>. QED BY <1>6, <1>16, <1>17, <1>18 DEF Sequence!Pop, Items

\* steque_cycle moves the first item to the end.
LEMMA CycleRotates ==
    ASSUME ListInv, Cycle
    PROVE  ListInv' /\ Sequence!Cycle
<1>1. PICK p :
        /\ Chain(front, back, next, live, p, N)
        /\ N \in Nat /\ N <= Cardinality(Node) /\ IsFiniteSet(live)
        /\ Items \in Seq(Item) /\ Len(Items) = N
        /\ \A k \in 1 .. N : Items[k] = item[p[k - 1]]
        /\ \A k \in 0 .. N - 1 : At[k] = p[k] /\ p[k] \in live
        /\ At[N] = Null
      BY ListIs
<1>2. /\ p \in [0 .. N - 1 -> Node]
      /\ \A j, k \in 0 .. N - 1 : p[j] = p[k] => j = k
      /\ live = {p[k] : k \in 0 .. N - 1}
      /\ front = (IF N = 0 THEN Null ELSE p[0])
      /\ back = (IF N = 0 THEN Null ELSE p[N - 1])
      /\ \A k \in 0 .. N - 1 : next[p[k]] = IF k = N - 1 THEN Null ELSE p[k + 1]
      /\ TypeOK /\ next \in [Node -> Node \cup {Null, Undefined}] /\ live \subseteq Node
      /\ item \in [Node -> Item \cup {Undefined}] /\ Undefined \notin Item
      /\ \A m \in live : item[m] # Undefined /\ next[m] # Undefined
      BY <1>1, ChainNodes
<1>3. /\ N' = N /\ item' = item /\ live' = live /\ result' = NoResult /\ exited' = exited
      /\ N = Cardinality(live)
      BY DEF Cycle, Void, ListInv
<1>4. CASE N = 0
  <2>1. back = Null
        BY <1>2, <1>4
  <2>2. UNCHANGED <<front, back, next>>
        BY <2>1 DEF Cycle, NothingToRotate
  <2>3. TypeOK'
        BY <1>2, <1>3, <2>2 DEF TypeOK
  <2>4. ListInv'
        BY <1>3, <2>2, <2>3 DEF ListInv
  <2>5. Items' = Items
        BY <1>3, <2>2, SameList
  <2>6. Items = <<>>
        BY <1>1, <1>4, EmptySeq
  <2>.  QED BY <1>3, <2>4, <2>5, <2>6 DEF Sequence!Cycle, Sequence!Void, Items
<1>5. CASE N # 0
  <2>1. N \in Nat /\ 0 \in 0 .. N - 1 /\ N - 1 \in 0 .. N - 1
        BY <1>1, <1>5
  <2>2. PICK m \in live : m = p[0] /\ m = front /\ m \in Node
        BY <1>1, <1>2, <1>5, <2>1
  <2>3. PICK l \in live : l = p[N - 1] /\ l = back /\ l \in Node
        BY <1>1, <1>2, <1>5, <2>1
  <2>4. PICK linked : linked = [next EXCEPT ![l] = m]
        OBVIOUS
  <2>5. back' = m /\ front' = linked[m] /\ next' = [linked EXCEPT ![m] = Null]
    <3>1. ~NothingToRotate
          BY <2>3, NullAssumption DEF NothingToRotate
    <3>.  QED BY <2>2, <2>3, <2>4, <3>1 DEF Cycle
  <2>6. /\ next' \in [Node -> Node \cup {Null, Undefined}] /\ next'[m] = Null
        /\ l # m => next'[l] = m
        /\ \A x \in Node : x # m /\ x # l => next'[x] = next[x]
        /\ linked[m] = IF l = m THEN m ELSE next[m]
        BY <1>2, <2>2, <2>3, <2>4, <2>5
  <2>7. l = m <=> N = 1
    <3>1. l = m => N - 1 = 0
          BY <1>2, <2>1, <2>2, <2>3
    <3>2. N - 1 = 0 <=> N = 1
          BY <2>1
    <3>.  QED BY <2>2, <2>3, <3>1, <3>2
  <2> DEFINE q == [k \in 0 .. N - 1 |-> IF k = N - 1 THEN p[0] ELSE p[k + 1]]
  <2>8. \A k \in 0 .. N - 1 : k # N - 1 => /\ k + 1 \in 0 .. N - 1 /\ k + 1 # 0
        BY <2>1
  <2>9. /\ q[N - 1] = m
        /\ \A k \in 0 .. N - 1 : k # N - 1 => q[k] = p[k + 1] /\ q[k] \in live /\ q[k] # m
    <3>1. q[N - 1] = m
          BY <2>1, <2>2
    <3>2. ASSUME NEW k \in 0 .. N - 1, k # N - 1
          PROVE  q[k] = p[k + 1] /\ q[k] \in live /\ q[k] # m
      <4>1. k + 1 \in 0 .. N - 1 /\ k + 1 # 0
            BY <2>8, <3>2
      <4>2. p[k + 1] \in live /\ p[k + 1] # p[0]
            BY <1>1, <1>2, <2>1, <4>1
      <4>.  QED BY <2>2, <3>2, <4>2
    <3>.  QED BY <3>1, <3>2
  <2>10. q \in [0 .. N - 1 -> Node] /\ \A k \in 0 .. N - 1 : q[k] \in live
        BY <1>2, <2>2, <2>9
  <2> HIDE DEF q
  <2>11. Chain(front', back', next', live', q, N')
    <3>1. ASSUME NEW j \in 0 .. N - 1, NEW k \in 0 .. N - 1, q[j] = q[k]
          PROVE  j = k
      <4>1. CASE j = N - 1 \/ k = N - 1
            BY <2>9, <3>1, <4>1
      <4>2. CASE j # N - 1 /\ k # N - 1
        <5>1. j + 1 = k + 1
              BY <1>2, <2>8, <2>9, <3>1, <4>2
        <5>2. j \in Int /\ k \in Int
              BY <2>1
        <5>.  QED BY <5>1, <5>2
      <4>.  QED BY <4>1, <4>2
    <3>2. live = {q[k] : k \in 0 .. N - 1}
      <4>1. ASSUME NEW x \in live PROVE \E k \in 0 .. N - 1 : x = q[k]
        <5>1. PICK k \in 0 .. N - 1 : x = p[k]
              BY <1>2
        <5>2. CASE k = 0
              BY <2>1, <2>2, <2>9, <5>1, <5>2
        <5>3. CASE k # 0
          <6>1. k - 1 \in 0 .. N - 1 /\ k - 1 # N - 1 /\ (k - 1) + 1 = k
                BY <2>1, <5>3
          <6>2. q[k - 1] = p[(k - 1) + 1]
                BY <2>9, <6>1
          <6>.  QED BY <5>1, <6>1, <6>2
        <5>.  QED BY <5>2, <5>3
      <4>.  QED BY <2>10, <4>1
    <3>3. front' = q[0]
      <4>1. CASE N = 1
            BY <2>1, <2>5, <2>6, <2>7, <2>9, <4>1
      <4>2. CASE N # 1
        <5>1. 0 # N - 1
              BY <2>1, <4>2
        <5>2. q[0] = p[0 + 1] /\ next[m] = p[0 + 1]
              BY <1>2, <2>1, <2>2, <2>9, <5>1
        <5>.  QED BY <2>5, <2>6, <2>7, <4>2, <5>2
      <4>.  QED BY <4>1, <4>2
    <3>4. ASSUME NEW k \in 0 .. N - 1
          PROVE  next'[q[k]] = IF k = N - 1 THEN Null ELSE q[k + 1]
      <4>1. CASE k = N - 1
            BY <2>6, <2>9, <4>1
      <4>2. CASE k # N - 1
        <5>1. k + 1 \in 0 .. N - 1 /\ k + 1 # 0 /\ q[k] = p[k + 1] /\ q[k] # m
              /\ q[k] \in Node
              BY <2>8, <2>9, <2>10, <4>2
        <5>2. CASE k + 1 = N - 1
              BY <2>3, <2>6, <2>9, <4>2, <5>1, <5>2
        <5>3. CASE k + 1 # N - 1
          <6>1. q[k] # l
                BY <1>2, <2>1, <2>3, <5>1, <5>3
          <6>2. next'[q[k]] = p[(k + 1) + 1]
                BY <1>2, <2>6, <5>1, <5>3, <6>1
          <6>3. q[k + 1] = p[(k + 1) + 1]
                BY <2>9, <5>1, <5>3
          <6>.  QED BY <4>2, <6>2, <6>3
        <5>.  QED BY <5>2, <5>3
      <4>.  QED BY <4>1, <4>2
    <3>5. back' = q[N - 1]
          BY <2>5, <2>9
    <3>.  QED BY <1>3, <1>5, <2>1, <2>10, <3>1, <3>2, <3>3, <3>4, <3>5 DEF Chain
  <2>12. front' \in Node
    <3>1. front' = q[0]
          BY <1>3, <1>5, <2>11 DEF Chain
    <3>.  QED BY <2>1, <2>10, <3>1
  <2>13. TypeOK'
    <3>1. \A x \in live : next'[x] # Undefined
          BY <1>2, <2>2, <2>6, NullAssumption
    <3>2. front' \in Node /\ back' \in Node
          BY <1>2, <2>2, <2>5, <2>12
    <3>.  QED BY <1>2, <1>3, <2>6, <3>1, <3>2 DEF TypeOK
  <2>15. /\ ListInv' /\ N' \in Nat
         /\ Items' \in Seq(Item) /\ Len(Items') = N'
         /\ \A k \in 1 .. N' : Items'[k] = item'[q[k - 1]]
        BY <1>3, <2>11, <2>13, ListFrom
  <2>16. Items # <<>> /\ Head(Items) = item[m] /\ item[m] \in Item
    <3>1. 1 \in 1 .. N /\ 1 - 1 = 0
          BY <2>1, <1>5
    <3>2. Items[1] = item[m]
          BY <1>1, <2>2, <3>1
    <3>.  QED BY <1>1, <1>2, <1>5, <3>2
  <2>17. Items' = Append(Tail(Items), Head(Items))
    <3>1. /\ Tail(Items) \in Seq(Item) /\ Len(Tail(Items)) = N - 1
          /\ \A k \in 1 .. N - 1 : Tail(Items)[k] = Items[k + 1]
          BY <1>1, <2>16, HeadTailProperties
    <3>2. /\ Append(Tail(Items), item[m]) \in Seq(Item)
          /\ Len(Append(Tail(Items), item[m])) = (N - 1) + 1
          /\ \A k \in 1 .. N - 1 : Append(Tail(Items), item[m])[k] = Tail(Items)[k]
          /\ Append(Tail(Items), item[m])[(N - 1) + 1] = item[m]
          BY <2>16, <3>1, AppendProperties
    <3>3. (N - 1) + 1 = N
          BY <2>1
    <3>4. ASSUME NEW k \in 1 .. N
          PROVE  Items'[k] = Append(Tail(Items), item[m])[k]
      <4>1. Items'[k] = item[q[k - 1]]
            BY <1>3, <2>15
      <4>2. CASE k = N
            BY <2>9, <3>2, <3>3, <4>1, <4>2
      <4>3. CASE k # N
        <5>1. /\ k - 1 \in 0 .. N - 1 /\ k - 1 # N - 1 /\ (k - 1) + 1 = k
              /\ k \in 1 .. N - 1 /\ k + 1 \in 1 .. N /\ (k + 1) - 1 = k
              BY <2>1, <4>3
        <5>2. q[k - 1] = p[k]
              BY <2>9, <5>1
        <5>3. Items[k + 1] = item[p[k]]
              BY <1>1, <5>1
        <5>.  QED BY <3>1, <3>2, <4>1, <5>1, <5>2, <5>3
      <4>.  QED BY <4>2, <4>3
    <3>.  QED BY <1>3, <2>15, <2>16, <3>2, <3>3, <3>4, SeqEqual
  <2>.  QED BY <1>3, <2>15, <2>16, <2>17 DEF Sequence!Cycle, Sequence!Void, Items
<1>. QED BY <1>4, <1>5

\* steque_destroy empties the list: N says how many nodes there are.
LEMMA DestroyEmpties ==
    ASSUME ListInv, Destroy
    PROVE  ListInv' /\ Sequence!Destroy
<1>1. PICK p :
        /\ Chain(front, back, next, live, p, N)
        /\ N \in Nat /\ N <= Cardinality(Node) /\ IsFiniteSet(live)
        /\ Items \in Seq(Item) /\ Len(Items) = N
        /\ \A k \in 1 .. N : Items[k] = item[p[k - 1]]
        /\ \A k \in 0 .. N - 1 : At[k] = p[k] /\ p[k] \in live
        /\ At[N] = Null
      BY ListIs
<1>2. /\ p \in [0 .. N - 1 -> Node] /\ live = {p[k] : k \in 0 .. N - 1}
      /\ back = (IF N = 0 THEN Null ELSE p[N - 1])
      /\ TypeOK /\ next \in [Node -> Node \cup {Null, Undefined}] /\ live \subseteq Node
      /\ item \in [Node -> Item \cup {Undefined}]
      BY <1>1, ChainNodes
<1>3. {At[k] : k \in 0 .. N - 1} = live
  <2>1. \A k \in 0 .. N - 1 : At[k] = p[k]
        BY <1>1
  <2>2. live = {p[k] : k \in 0 .. N - 1}
        BY <1>2
  <2>.  QED BY <2>1, <2>2
<1>4. /\ front' = Null /\ back' = Null /\ live' = {} /\ N' = 0
      /\ item' = [n \in Node |-> IF n \in live THEN Undefined ELSE item[n]]
      /\ next' = [n \in Node |-> IF n \in live THEN Undefined ELSE next[n]]
      /\ result' = NoResult /\ exited' = exited
  <2>1. /\ front' = Null /\ live' = live \ live /\ N' = 0
        /\ back' = (IF N > 0 /\ front' = Null THEN Null ELSE back)
        /\ item' = [n \in Node |-> IF n \in live THEN Undefined ELSE item[n]]
        /\ next' = [n \in Node |-> IF n \in live THEN Undefined ELSE next[n]]
        BY <1>1, <1>3 DEF Destroy
  <2>2. back' = Null
    <3>1. N > 0 \/ N = 0
          BY <1>1
    <3>.  QED BY <1>2, <2>1, <3>1
  <2>.  QED BY <2>1, <2>2 DEF Destroy, Void
<1>5. TypeOK'
  <2>1. item' \in [Node -> Item \cup {Undefined}]
        BY <1>2, <1>4
  <2>2. next' \in [Node -> Node \cup {Null, Undefined}]
        BY <1>2, <1>4
  <2>.  QED BY <1>2, <1>4, <2>1, <2>2 DEF TypeOK
<1>6. Cardinality(live') = N'
      BY <1>4, FS_EmptySet
<1> DEFINE q == [k \in 0 .. -1 |-> Null]
<1>7. Chain(front', back', next', live', q, N')
  <2>1. 0 .. 0 - 1 = {} /\ 0 .. -1 = {}
        OBVIOUS
  <2>2. Chain(Null, Null, next', {}, q, 0)
        BY <2>1 DEF Chain
  <2>.  QED BY <1>4, <2>2
<1> HIDE DEF q
<1>8. /\ ListInv' /\ N' \in Nat
      /\ Items' \in Seq(Item) /\ Len(Items') = N'
      BY <1>5, <1>6, <1>7, ListFrom
<1>9. Items' = <<>>
      BY <1>4, <1>8, EmptySeq
<1>. QED BY <1>4, <1>8, <1>9 DEF Sequence!Destroy, Sequence!Void, Items

\* steque_front, steque_size, steque_isempty and an exit change no node.
LEMMA AnswersRight ==
    ASSUME ListInv, Front \/ Size \/ IsEmpty \/ Underflow
    PROVE  /\ ListInv'
           /\ Sequence!Front \/ Sequence!Size \/ Sequence!IsEmpty \/ Sequence!Underflow
<1>1. PICK p :
        /\ Chain(front, back, next, live, p, N)
        /\ N \in Nat /\ N <= Cardinality(Node) /\ IsFiniteSet(live)
        /\ Items \in Seq(Item) /\ Len(Items) = N
        /\ \A k \in 1 .. N : Items[k] = item[p[k - 1]]
        /\ \A k \in 0 .. N - 1 : At[k] = p[k] /\ p[k] \in live
        /\ At[N] = Null
      BY ListIs
<1>2. /\ p \in [0 .. N - 1 -> Node]
      /\ front = (IF N = 0 THEN Null ELSE p[0])
      /\ TypeOK /\ item \in [Node -> Item \cup {Undefined}] /\ live \subseteq Node
      /\ \A m \in live : item[m] # Undefined
      BY <1>1, ChainNodes
<1>3. UNCHANGED <<front, back, N, item, next, live>>
      BY DEF Front, Size, IsEmpty, Underflow, Answer
<1>4. Items' = Items
      BY <1>3, SameList
<1>5. ASSUME result' \in {NoResult} \cup [item : Item] \cup [size : Int] \cup [isempty : BOOLEAN],
             exited' \in BOOLEAN
      PROVE  ListInv'
  <2>1. TypeOK'
        BY <1>2, <1>3, <1>5 DEF TypeOK
  <2>.  QED BY <1>3, <2>1 DEF ListInv
<1>6. Items = <<>> <=> N = 0
      BY <1>1, EmptySeq
<1>7. exited \in BOOLEAN /\ result \in {NoResult} \cup [item : Item] \cup [size : Int]
                                       \cup [isempty : BOOLEAN]
      BY <1>2 DEF TypeOK
<1>8. CASE Front
  <2>1. front # Null /\ result' = [item |-> item[front]] /\ exited' = exited
        BY <1>8 DEF Front, Answer
  <2>2. N # 0 /\ front = p[0] /\ 0 \in 0 .. N - 1 /\ 1 \in 1 .. N /\ 1 - 1 = 0
        BY <1>1, <1>2, <2>1
  <2>3. item[front] \in Item /\ Head(Items) = item[front]
    <3>1. Items[1] = item[p[0]] /\ p[0] \in live
          BY <1>1, <2>2
    <3>.  QED BY <1>1, <1>2, <1>6, <2>2, <3>1
  <2>4. ListInv'
        BY <1>5, <1>7, <2>1, <2>3
  <2>.  QED BY <1>4, <1>6, <2>1, <2>2, <2>3, <2>4 DEF Sequence!Front, Items
<1>9. CASE Size
  <2>1. result' = [size |-> N] /\ exited' = exited
        BY <1>9 DEF Size, Answer
  <2>2. ListInv'
        BY <1>1, <1>5, <1>7, <2>1
  <2>.  QED BY <1>1, <1>4, <2>1, <2>2 DEF Sequence!Size, Items
<1>10. CASE IsEmpty
  <2>1. result' = [isempty |-> N = 0] /\ exited' = exited
        BY <1>10 DEF IsEmpty, Answer
  <2>2. ListInv'
        BY <1>5, <1>7, <2>1
  <2>3. result' = [isempty |-> Items = <<>>]
        BY <1>6, <2>1
  <2>.  QED BY <1>4, <2>1, <2>2, <2>3 DEF Sequence!IsEmpty, Items
<1>11. CASE Underflow
  <2>1. front = Null /\ result' = result /\ exited' = TRUE
        BY <1>11 DEF Underflow
  <2>2. N = 0
    <3>1. N # 0 => 0 \in 0 .. N - 1
          BY <1>1
    <3>.  QED BY <1>2, <2>1, <3>1, NullAssumption
  <2>3. ListInv'
        BY <1>5, <1>7, <2>1
  <2>.  QED BY <1>4, <1>6, <2>1, <2>2, <2>3 DEF Sequence!Underflow, Items
<1>. QED BY <1>8, <1>9, <1>10, <1>11

-----------------------------------------------------------------------------
(***************************************************************************)
(* The invariant holds, and every step is one of the sequence.             *)
(***************************************************************************)
LEMMA ListInvInit ==
    Init => ListInv /\ Sequence!Init
<1> SUFFICES ASSUME Init PROVE ListInv /\ Sequence!Init
    OBVIOUS
<1>1. TypeOK
  <2>1. item \in [Node -> Item \cup {Undefined}] /\ next \in [Node -> Node \cup {Null, Undefined}]
        BY DEF Init
  <2>2. /\ front \in Node \cup {Null} /\ back \in Node \cup {Null} /\ live = {}
        /\ result = NoResult /\ exited = FALSE
        BY DEF Init
  <2>3. N \in Int
        BY DEF Init
  <2>.  QED BY <2>1, <2>2, <2>3 DEF TypeOK
<1> DEFINE q == [k \in 0 .. -1 |-> Null]
<1>2. Chain(front, back, next, live, q, N)
  <2>1. 0 .. 0 - 1 = {} /\ 0 .. -1 = {}
        OBVIOUS
  <2>2. Chain(Null, Null, next, {}, q, 0)
        BY <2>1 DEF Chain
  <2>.  QED BY <2>2 DEF Init
<1> HIDE DEF q
<1>3. N = Cardinality(live)
      BY FS_EmptySet DEF Init
<1>4. ListInv
      BY <1>1, <1>2, <1>3 DEF ListInv
<1>5. Items = <<>>
  <2>1. Items \in Seq(Item) /\ Len(Items) = N
        BY <1>4, ListIs
  <2>.  QED BY <2>1, EmptySeq DEF Init
<1>. QED BY <1>4, <1>5 DEF Init, Sequence!Init, Items

LEMMA ListInvStep ==
    ASSUME ListInv, [Next]_vars
    PROVE  ListInv' /\ [Sequence!Next]_(Sequence!vars)
<1>1. ASSUME Next
      PROVE  ListInv' /\ Sequence!Next
  <2>1. ~exited
        BY <1>1 DEF Next
  <2>2. ASSUME NEW i \in Item, Enqueue(i)
        PROVE  ListInv' /\ Sequence!Next
        BY <2>1, <2>2, EnqueueAppends DEF Sequence!Next
  <2>3. ASSUME NEW i \in Item, Push(i)
        PROVE  ListInv' /\ Sequence!Next
        BY <2>1, <2>3, PushPrepends DEF Sequence!Next
  <2>4. CASE Pop \/ Cycle \/ Destroy
        BY <2>1, <2>4, PopTakesHead, CycleRotates, DestroyEmpties DEF Sequence!Next
  <2>5. CASE Front \/ Size \/ IsEmpty \/ Underflow
        BY <2>1, <2>5, AnswersRight DEF Sequence!Next
  <2>.  QED BY <1>1, <2>2, <2>3, <2>4, <2>5 DEF Next
<1>2. ASSUME UNCHANGED vars
      PROVE  ListInv' /\ UNCHANGED Sequence!vars
  <2>1. UNCHANGED <<front, back, N, item, next, live>> /\ UNCHANGED <<result, exited>>
        BY <1>2 DEF vars
  <2>2. Items' = Items
        BY <2>1, SameList
  <2>3. ListInv'
        BY <2>1 DEF ListInv, TypeOK
  <2>.  QED BY <2>1, <2>2, <2>3 DEF Sequence!vars, Items
<1>. QED BY <1>1, <1>2

LEMMA ListInvHolds ==
    Spec => []ListInv
<1>1. Init => ListInv
      BY ListInvInit
<1>2. ListInv /\ [Next]_vars => ListInv'
      BY ListInvStep
<1>. QED BY <1>1, <1>2, PTL DEF Spec

\* After any calls of steque.c the nodes from front are exactly the allocated ones,
\* N counts them and back is the last of them: nothing leaks, nothing freed is
\* reached.
THEOREM ListWellFormed ==
    Spec => []WellFormed
<1>1. ASSUME ListInv PROVE WellFormed
  <2>1. PICK p :
          /\ Chain(front, back, next, live, p, N)
          /\ N \in Nat /\ N <= Cardinality(Node)
          /\ \A k \in 0 .. N - 1 : At[k] = p[k] /\ p[k] \in live
          /\ At[N] = Null
        BY <1>1, ListIs
  <2>2. /\ live = {p[k] : k \in 0 .. N - 1} /\ live \subseteq Node /\ TypeOK
        /\ back = (IF N = 0 THEN Null ELSE p[N - 1])
        BY <1>1, <2>1, ChainNodes
  <2>3. \A k \in 0 .. Cardinality(Node) : At[k] \in Node => k \in 0 .. N - 1
    <3>1. ASSUME NEW k \in 0 .. Cardinality(Node), At[k] \in Node
          PROVE  k < N
      <4>1. At[k] = IF k < N THEN p[k] ELSE IF k = N THEN Null ELSE Undefined
            BY <2>1, WalkIs, AtIsWalk
      <4>.  QED BY <3>1, <4>1, NullAssumption
    <3>.  QED BY <2>1, <3>1, NodesCounted
  <2>4. Linked = live
    <3>1. ASSUME NEW m \in live PROVE m \in Linked
      <4>1. PICK k \in 0 .. N - 1 : m = p[k]
            BY <2>2
      <4>2. k \in 0 .. Cardinality(Node) /\ m = At[k] /\ m \in Node
            BY <2>1, <2>2, <4>1, NodesCounted
      <4>.  QED BY <4>2 DEF Linked
    <3>2. ASSUME NEW m \in Linked PROVE m \in live
      <4>1. PICK k \in 0 .. Cardinality(Node) : m = At[k] /\ m \in Node
            BY DEF Linked
      <4>2. k \in 0 .. N - 1
            BY <2>3, <4>1
      <4>.  QED BY <2>1, <4>1, <4>2
    <3>.  QED BY <3>1, <3>2
  <2>5. N = Cardinality(live)
        BY <1>1 DEF ListInv
  <2>6. back = IF N = 0 THEN Null ELSE At[N - 1]
    <3>1. N # 0 => N - 1 \in 0 .. N - 1
          BY <2>1
    <3>.  QED BY <2>1, <2>2, <3>1
  <2>.  QED BY <2>1, <2>2, <2>4, <2>5, <2>6 DEF WellFormed
<1>. QED BY <1>1, ListInvHolds, PTL

\* To its callers steque.c is a sequence of items, for any number of nodes.
THEOREM ListImplementsSequence ==
    Spec => ImplementsSequence
<1>1. Init => Sequence!Init
      BY ListInvInit
<1>2. ListInv /\ [Next]_vars => [Sequence!Next]_(Sequence!vars)
      BY ListInvStep
<1>3. Spec => Sequence!Spec
      BY <1>1, <1>2, ListInvHolds, PTL DEF Spec, Sequence!Spec
<1>. QED BY <1>3 DEF ImplementsSequence
=============================================================================
