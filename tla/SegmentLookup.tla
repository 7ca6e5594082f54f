---------------------------- MODULE SegmentLookup ----------------------------
(***************************************************************************)
(* find_segment of simplecached.c, which every cache thread calls on the   *)
(* one segment_q without a lock.  It takes the front item and rotates the  *)
(* queue until the item is the segment that the request names.  A step is  *)
(* one access to the shared steque_t or to a shared node, the granularity  *)
(* at which the threads can interleave; nothing here is freed, so a node   *)
(* is named by the segment it holds.                                       *)
(***************************************************************************)
EXTENDS Integers, FiniteSets

CONSTANTS Threads, NumSegments

ASSUME NumSegmentsAssumption == NumSegments \in Nat \ {0}

Segments == 0 .. NumSegments - 1
Null == -1
Pointer == Segments \cup {Null}

VARIABLES
    queue,      \* segment_q, with the links of its nodes
    thread,     \* the access each thread is about to make, the segment it looks
                \* for, the item it took, two pointers it loaded, and, history,
                \* the iterations that ended without a match
    dead,       \* the process called exit or dereferenced NULL
    contended   \* history: two threads were inside find_segment at once

vars == <<queue, thread, dead, contended>>

\* The accesses of one iteration, in the order of the code.
Accesses == {"test_front", "load_item", "test_back",
             "link_back", "link_front", "link",
             "back_front", "set_back",
             "step_front", "step_next", "set_front",
             "cut_back", "cut", "compare"}

TypeOK ==
    /\ queue \in [front : Pointer, back : Pointer, next : [Segments -> Pointer]]
    /\ thread \in [Threads ->
         [pc : Accesses \cup {"idle"}, index : Segments, item : Pointer,
          r : Pointer, s : Pointer, rounds : 0 .. NumSegments]]
    /\ dead \in BOOLEAN /\ contended \in BOOLEAN

Idle == [pc |-> "idle", index |-> 0, item |-> Null, r |-> Null, s |-> Null,
         rounds |-> 0]

\* shm_create_segments pushed the segments in the order of their indices.
Init ==
    /\ queue  = [front |-> NumSegments - 1, back |-> 0,
                 next |-> [n \in Segments |-> n - 1]]
    /\ thread = [t \in Threads |-> Idle]
    /\ dead = FALSE /\ contended = FALSE

Inside(t) == thread[t].pc # "idle"

\* Another thread never looks for the same segment: the proxy uses a segment
\* for one request at a time.  The model's run ends with the calls that are the
\* first to overlap.
Call(t, i) ==
    /\ ~contended /\ ~Inside(t)
    /\ \A u \in Threads : Inside(u) => thread[u].index # i
    /\ thread' = [thread EXCEPT ![t].pc = "test_front", ![t].index = i]
    /\ contended' = \E u \in Threads : Inside(u)
    /\ UNCHANGED <<queue, dead>>

\* At t's access from: the code goes on to the access to, having loaded a
\* pointer into r or s,
Load(t, from, to, into, value) ==
    /\ thread[t].pc = from
    /\ thread' = [thread EXCEPT ![t] = [@ EXCEPT !.pc = to, ![into] = value]]
    /\ UNCHANGED queue

\* or stored one in the queue.
Store(t, from, to, stored) ==
    /\ thread[t].pc = from
    /\ thread' = [thread EXCEPT ![t].pc = to, ![t].r = Null, ![t].s = Null]
    /\ queue'  = stored

R(t) == thread[t].r

\* steque_front: test front, then load it again for its item.
StequeFront(t) ==
    /\ queue.front # Null
    /\ \/ Load(t, "test_front", "load_item", "r", Null)
       \/ Load(t, "load_item", "test_back", "item", queue.front)

\* this->back->next = this->front
LinkLast(t) ==
    \/ Load(t, "link_back", "link_front", "r", queue.back)
    \/ Load(t, "link_front", "link", "s", queue.front)
    \/ /\ R(t) # Null
       /\ Store(t, "link", "back_front", [queue EXCEPT !.next[R(t)] = thread[t].s])

\* this->back = this->front
MoveBack(t) ==
    \/ Load(t, "back_front", "set_back", "r", queue.front)
    \/ Store(t, "set_back", "step_front", [queue EXCEPT !.back = R(t)])

\* A bug: front stays where it is.
FrontAfterStays(t) == queue.front

FrontAfter(t) == R(t)

\* this->front = this->front->next
MoveFront(t) ==
    \/ Load(t, "step_front", "step_next", "r", queue.front)
    \/ R(t) # Null /\ Load(t, "step_next", "set_front", "r", queue.next[R(t)])
    \/ Store(t, "set_front", "cut_back", [queue EXCEPT !.front = FrontAfter(t)])

\* A bug: the new last node still points to the front.
LinkAfterLast(t) == queue.next[R(t)]

NullAfterLast(t) == Null

\* this->back->next = NULL
CutLast(t) ==
    \/ Load(t, "cut_back", "cut", "r", queue.back)
    \/ /\ R(t) # Null
       /\ Store(t, "cut", "compare",
                [queue EXCEPT !.next[R(t)] = NullAfterLast(t)])

\* steque_cycle returns at once if back is NULL.
StequeCycle(t) ==
    \/ Load(t, "test_back", IF queue.back = Null THEN "compare" ELSE "link_back",
            "r", Null)
    \/ LinkLast(t) \/ MoveBack(t) \/ MoveFront(t) \/ CutLast(t)

\* Return the segment that was asked for, else go round again: the loop's own
\* counter i stays 0.  Rounds are not counted once two calls overlapped.
Compare(t) ==
    /\ thread[t].pc = "compare"
    /\ thread' = [thread EXCEPT ![t] =
         IF @.item = @.index THEN Idle
         ELSE [@ EXCEPT !.pc = "test_front",
                        !.rounds = IF contended THEN 0 ELSE thread[t].rounds + 1]]
    /\ UNCHANGED queue

\* exit in steque_front, or SIGSEGV.
Dies(t) ==
    /\ \/ thread[t].pc \in {"test_front", "load_item"} /\ queue.front = Null
       \/ thread[t].pc \in {"link", "step_next", "cut"} /\ R(t) = Null
    /\ dead' = TRUE
    /\ UNCHANGED <<queue, thread, contended>>

Step(t) ==
    \/ Dies(t)
    \/ (StequeFront(t) \/ StequeCycle(t) \/ Compare(t)) /\ UNCHANGED <<dead, contended>>

Next == ~dead /\ \E t \in Threads : Step(t) \/ \E i \in Segments : Call(t, i)

Spec == Init /\ [][Next]_vars

-----------------------------------------------------------------------------
\* The node k links behind the front.
At[k \in 0 .. NumSegments] ==
    IF k = 0 THEN queue.front
             ELSE IF At[k - 1] = Null THEN Null ELSE queue.next[At[k - 1]]

\* Between two calls the queue holds every segment once, and back is its last
\* node: find_segment leaves the queue as it found it, but for the order.
RingIntact ==
    (\A t \in Threads : ~Inside(t)) =>
      /\ ~dead
      /\ {At[k] : k \in 0 .. NumSegments - 1} = Segments
      /\ queue.back = At[NumSegments - 1]
      /\ At[NumSegments] = Null

\* The queue is damaged, and a call dies, only after two calls overlapped:
\* what ProxyCache assumes of find_segment.  No pointer is ever another address.
IntactUnlessContended == TypeOK /\ (contended \/ (RingIntact /\ ~dead))

\* A call that no other overlaps returns in its first NumSegments iterations,
\* although nothing counts them.
LookupReturns ==
    contended \/ \A t \in Threads : thread[t].rounds < NumSegments
=============================================================================
