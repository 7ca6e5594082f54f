------------------------------- MODULE Steque --------------------------------
(***************************************************************************)
(* steque.c: a singly linked list with a pointer to its last node, in the  *)
(* copy of project3 (those of project1 and project4 are the same).  It is  *)
(* the queue of requests of three programs and the pool of segments of the *)
(* proxy and of the cache.  A node is an address that malloc returns; what *)
(* a freed or never written field holds is Undefined.                      *)
(***************************************************************************)
EXTENDS Integers, FiniteSets

CONSTANTS Node, Item, Null, NoResult, Undefined

ASSUME NodeAssumption == IsFiniteSet(Node)
ASSUME NullAssumption == Null \notin Node /\ Undefined \notin Node \cup {Null} \cup Item

VARIABLES
    front, back, N,     \* the fields of the steque_t
    item, next,         \* the fields of every node
    live,               \* the nodes allocated and not freed
    result,             \* what the last call returned
    exited              \* a call found nothing to return

vars == <<front, back, N, item, next, live, result, exited>>

\* No call returns, and nothing leads to, what a freed or unwritten field holds.
TypeOK ==
    /\ front \in Node \cup {Null}
    /\ back  \in Node \cup {Null}
    /\ N \in Int
    /\ item \in [Node -> Item \cup {Undefined}]
    /\ next \in [Node -> Node \cup {Null, Undefined}]
    /\ live \subseteq Node
    /\ \A n \in live : item[n] # Undefined /\ next[n] # Undefined
    /\ result \in {NoResult} \cup [item : Item]
                   \cup [size : Int] \cup [isempty : BOOLEAN]
    /\ exited \in BOOLEAN

\* steque_init
Init ==
    /\ front = Null /\ back = Null /\ N = 0
    /\ item = [n \in Node |-> Undefined]
    /\ next = [n \in Node |-> Undefined]
    /\ live = {}
    /\ result = NoResult
    /\ exited = FALSE

Void == result' = NoResult /\ UNCHANGED exited

\* malloc a node and fill it in.
NewNode(n, i) ==
    /\ n \notin live
    /\ live' = live \cup {n}
    /\ item' = [item EXCEPT ![n] = i]

Enqueue(i) ==
    \E n \in Node :
      /\ NewNode(n, i)
      /\ \/ /\ back = Null
            /\ front' = n
            /\ next' = [next EXCEPT ![n] = Null]
         \/ /\ back # Null
            /\ next' = [next EXCEPT ![n] = Null, ![back] = n]
            /\ UNCHANGED front
      /\ back' = n
      /\ N' = N + 1
      /\ Void

Push(i) ==
    \E n \in Node :
      /\ NewNode(n, i)
      /\ next'  = [next EXCEPT ![n] = front]
      /\ back'  = IF back = Null THEN n ELSE back
      /\ front' = n
      /\ N' = N + 1
      /\ Void

Answer(r) ==
    result' = r /\ UNCHANGED <<front, back, N, item, next, live, exited>>

Size    == Answer([size |-> N])
IsEmpty == Answer([isempty |-> N = 0])

\* A bug: back still points to the last node that was popped.
BackAfterPopKept == back

BackAfterPop == IF next[front] = Null THEN Null ELSE back

\* Unlink and free the first node.
Pop ==
    /\ front # Null
    /\ result' = [item |-> item[front]]
    /\ front' = next[front]
    /\ back'  = BackAfterPop
    /\ live'  = live \ {front}
    /\ item'  = [item EXCEPT ![front] = Undefined]
    /\ next'  = [next EXCEPT ![front] = Undefined]
    /\ N' = N - 1
    /\ UNCHANGED exited

\* A bug: the test for a list that needs no rotation takes in a list of two.
NothingToRotateOfPairs == back = Null \/ next[front] \in {back, Null}

NothingToRotate == back = Null

\* Rotate: the first node becomes the last.  The four assignments, in order.
Cycle ==
    /\ IF NothingToRotate
       THEN UNCHANGED <<front, back, next>>
       ELSE LET linked == [next EXCEPT ![back] = front] IN
              /\ back'  = front
              /\ front' = linked[front]
              /\ next'  = [linked EXCEPT ![front] = Null]
    /\ Void
    /\ UNCHANGED <<N, item, live>>

Front ==
    /\ front # Null
    /\ Answer([item |-> item[front]])

\* steque_pop and steque_front print an error and exit.
Underflow ==
    /\ front = Null
    /\ exited' = TRUE
    /\ UNCHANGED <<front, back, N, item, next, live, result>>

\* The node k links behind the front.
At[k \in 0 .. Cardinality(Node)] ==
    IF k = 0 THEN front
             ELSE IF At[k - 1] \in Node THEN next[At[k - 1]] ELSE Undefined

\* Pop until N says that nothing is left.
Destroy ==
    /\ \A k \in 0 .. N - 1 : At[k] \in Node
    /\ LET popped == {At[k] : k \in 0 .. N - 1} IN
         /\ front' = At[N]
         /\ back' = IF N > 0 /\ front' = Null THEN Null ELSE back
         /\ live' = live \ popped
         /\ item' = [n \in Node |-> IF n \in popped THEN Undefined ELSE item[n]]
         /\ next' = [n \in Node |-> IF n \in popped THEN Undefined ELSE next[n]]
         /\ N' = 0
    /\ Void

Next ==
    /\ ~exited
    /\ \/ \E i \in Item : Enqueue(i) \/ Push(i)
       \/ Size \/ IsEmpty \/ Pop \/ Cycle \/ Front \/ Underflow \/ Destroy

Spec == Init /\ [][Next]_vars

-----------------------------------------------------------------------------
Linked == {At[k] : k \in 0 .. Cardinality(Node)} \cap Node

\* The list always ends: the nodes from front are exactly the allocated ones,
\* N counts them, the last of them is back and points to NULL, so nothing
\* leaks and no freed node can be reached.
WellFormed ==
    /\ TypeOK
    /\ Linked = live
    /\ N = Cardinality(live)
    /\ At[N] = Null
    /\ back = IF N = 0 THEN Null ELSE At[N - 1]

Sequence == INSTANCE ItemSequence WITH
    items <- [k \in 1 .. N |-> item[At[k - 1]]]

\* To its callers the list is a sequence, whatever the order of the calls.
ImplementsSequence == Sequence!Spec
=============================================================================
