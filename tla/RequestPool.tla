----------------------------- MODULE RequestPool -----------------------------
(***************************************************************************)
(* The request queue of the multithreaded server of project1 (handler.c):  *)
(* gfserver's thread, the boss, enqueues a request for each connection and *)
(* signals; the workers dequeue and serve.  thread_main locks the mutex    *)
(* once, before its loop, and unlocks it once in every round of the loop:  *)
(* from its second round on a worker runs without the lock, and unlocks a  *)
(* mutex that it does not own.  A step is one access to the queue, so that *)
(* rounds can interleave as they do in the program.                        *)
(*                                                                         *)
(* The mutex is a normal one of NPTL: unlocking sets it free, whoever asks *)
(* for it, and so does pthread_cond_wait.  A node is named by the request  *)
(* it holds.  The first use of a freed node ends the model's run.          *)
(***************************************************************************)
EXTENDS Integers, FiniteSets

CONSTANTS Workers, MaxRequests

ASSUME WorkersAssumption     == IsFiniteSet(Workers)
ASSUME MaxRequestsAssumption == MaxRequests \in Nat

Requests == 1 .. MaxRequests
Null == 0

VARIABLES
    locked,     \* req_mutex
    queue,      \* request_queue, the links of its nodes and the freed ones
    boss,       \* the requests that gfserver passed to handler_get, where the
                \* boss is, and N as it read it
    worker,     \* where each worker is, its node, what it last loaded
    takenBy,    \* who dequeued each request
    dead,       \* the process called exit or used a freed node or NULL
    again,      \* history: a worker has started a second round
    overlapped  \* history: two threads were in the critical section at once

flags == <<dead, again, overlapped>>
vars  == <<locked, queue, boss, worker, takenBy, flags>>

TypeOK ==
    /\ locked \in BOOLEAN
    /\ dead \in BOOLEAN /\ again \in BOOLEAN /\ overlapped \in BOOLEAN
    /\ queue.front \in 0 .. MaxRequests /\ queue.back \in 0 .. MaxRequests
    /\ queue.N \in Int
    /\ queue.next \in [Requests -> 0 .. MaxRequests]
    /\ queue.freed \subseteq Requests
    /\ boss.arrived \in 0 .. MaxRequests /\ boss.n \in Int
    /\ boss.pc \in {"serve", "lock", "test", "first", "link", "set_back", "count",
                    "set_count", "signal", "unlock"}
    /\ worker \in [Workers ->
         [pc : {"lock", "isempty", "cond_wait", "wait", "pop", "item", "front",
                "next", "set_front", "back", "clear_back", "free", "count",
                "set_count", "unlock", "perform"},
          node : 0 .. MaxRequests, reg : Int]]
    /\ takenBy \in [Requests -> SUBSET Workers]

\* steque_init comes after the workers start: the queue is zero before it too.
Init ==
    /\ locked = FALSE
    /\ queue = [front |-> Null, back |-> Null, N |-> 0,
                next |-> [q \in Requests |-> Null], freed |-> {}]
    /\ boss = [arrived |-> 0, pc |-> "serve", n |-> 0]
    /\ worker  = [w \in Workers |-> [pc |-> "lock", node |-> Null, reg |-> 0]]
    /\ takenBy = [q \in Requests |-> {}]
    /\ dead = FALSE /\ again = FALSE /\ overlapped = FALSE

Dies ==
    /\ dead' = TRUE
    /\ UNCHANGED <<locked, queue, boss, worker, takenBy, again, overlapped>>

BossInside == boss.pc \notin {"serve", "lock"}
Inside(w)  == worker[w].pc \notin {"lock", "wait", "perform"}

\* A thread enters the critical section.
Enter ==
    overlapped' = (overlapped \/ BossInside \/ \E w \in Workers : Inside(w))

-----------------------------------------------------------------------------
(***************************************************************************)
(* handler_get, on the boss's thread.                                      *)
(***************************************************************************)
BossGoto(from, to) == boss.pc = from /\ boss' = [boss EXCEPT !.pc = to]

\* A connection sent a request: handler_get fills a node in.
HandlerGet ==
    /\ boss.pc = "serve" /\ boss.arrived < MaxRequests
    /\ boss' = [boss EXCEPT !.pc = "lock", !.arrived = @ + 1]
    /\ UNCHANGED <<locked, queue, worker, takenBy, flags>>

\* A bug: the boss does not lock the mutex.
BossMayLockAlways == TRUE

BossMayLock == ~locked

BossLock ==
    /\ BossMayLock
    /\ BossGoto("lock", "test")
    /\ locked' = TRUE /\ Enter
    /\ UNCHANGED <<queue, worker, takenBy, dead, again>>

\* steque_enqueue: the node is the first one, or it follows the last; then it
\* is the last, and counted.
Enqueue ==
    /\ \/ /\ BossGoto("test", IF queue.back = Null THEN "first" ELSE "link")
          /\ UNCHANGED queue
       \/ /\ BossGoto("first", "set_back")
          /\ queue' = [queue EXCEPT !.front = boss.arrived]
       \/ /\ queue.back \notin queue.freed \cup {Null}
          /\ BossGoto("link", "set_back")
          /\ queue' = [queue EXCEPT !.next[queue.back] = boss.arrived]
       \/ /\ BossGoto("set_back", "count")
          /\ queue' = [queue EXCEPT !.back = boss.arrived]
       \/ /\ boss.pc = "count"
          /\ boss' = [boss EXCEPT !.pc = "set_count", !.n = queue.N]
          /\ UNCHANGED queue
       \/ /\ boss.pc = "set_count"
          /\ boss'  = [boss EXCEPT !.pc = "signal", !.n = 0]
          /\ queue' = [queue EXCEPT !.N = boss.n + 1]
    /\ UNCHANGED <<locked, worker, takenBy, flags>>

EnqueueDies ==
    boss.pc = "link" /\ queue.back \in queue.freed \cup {Null} /\ Dies

\* A bug: nobody is signalled.
SignalledNobody == {}

Signalled == {w \in Workers : worker[w].pc = "wait"}

\* pthread_cond_signal wakes a waiting worker, which has to lock the mutex.
Signal ==
    /\ BossGoto("signal", "unlock")
    /\ \/ Signalled = {} /\ UNCHANGED worker
       \/ \E w \in Signalled : worker' = [worker EXCEPT ![w].pc = "lock"]
    /\ UNCHANGED <<locked, queue, takenBy, flags>>

BossUnlock ==
    /\ BossGoto("unlock", "serve")
    /\ locked' = FALSE
    /\ UNCHANGED <<queue, worker, takenBy, flags>>

BossStep == HandlerGet \/ BossLock \/ Enqueue \/ EnqueueDies \/ Signal \/ BossUnlock

-----------------------------------------------------------------------------
(***************************************************************************)
(* thread_main.                                                            *)
(***************************************************************************)
Goto(w, from, to) ==
    worker[w].pc = from /\ worker' = [worker EXCEPT ![w].pc = to]

\* Goto, with a value loaded.
Load(w, from, to, value) ==
    /\ worker[w].pc = from
    /\ worker' = [worker EXCEPT ![w].pc = to, ![w].reg = value]

\* pthread_mutex_lock before the loop, and inside pthread_cond_wait.
Lock(w) ==
    /\ ~locked
    /\ Goto(w, "lock", "isempty")
    /\ locked' = TRUE /\ Enter
    /\ UNCHANGED <<queue, boss, takenBy, dead, again>>

\* steque_isempty
TestEmpty(w) ==
    /\ Goto(w, "isempty", IF queue.N = 0 THEN "cond_wait" ELSE "pop")
    /\ UNCHANGED <<locked, queue, boss, takenBy, flags>>

\* pthread_cond_wait unlocks the mutex and sleeps.
CondWait(w) ==
    /\ Goto(w, "cond_wait", "wait")
    /\ locked' = FALSE
    /\ UNCHANGED <<queue, boss, takenBy, flags>>

SpuriousWakeup(w) ==
    /\ Goto(w, "wait", "lock")
    /\ UNCHANGED <<locked, queue, boss, takenBy, flags>>

\* steque_pop exits if front is NULL.  node = this->front; ans = node->item
TakeItem(w) ==
    /\ \/ queue.front # Null /\ Goto(w, "pop", "item") /\ UNCHANGED takenBy
       \/ /\ worker[w].pc = "item" /\ queue.front \notin queue.freed \cup {Null}
          /\ worker'  = [worker EXCEPT ![w].pc = "front", ![w].node = queue.front]
          /\ takenBy' = [takenBy EXCEPT ![queue.front] = @ \cup {w}]
    /\ UNCHANGED <<locked, queue, boss, flags>>

\* this->front = this->front->next
MoveFront(w) ==
    /\ \/ Load(w, "front", "next", queue.front) /\ UNCHANGED queue
       \/ /\ worker[w].reg \notin queue.freed \cup {Null}
          /\ Load(w, "next", "set_front", queue.next[worker[w].reg])
          /\ UNCHANGED queue
       \/ /\ Load(w, "set_front", "back", 0)
          /\ queue' = [queue EXCEPT !.front = worker[w].reg]
    /\ UNCHANGED <<locked, boss, takenBy, flags>>

\* if (this->front == NULL) this->back = NULL
ClearBack(w) ==
    /\ \/ /\ Goto(w, "back", IF queue.front = Null THEN "clear_back" ELSE "free")
          /\ UNCHANGED queue
       \/ /\ Goto(w, "clear_back", "free")
          /\ queue' = [queue EXCEPT !.back = Null]
    /\ UNCHANGED <<locked, boss, takenBy, flags>>

FreeNode(w) ==
    /\ worker[w].node \notin queue.freed
    /\ worker[w].pc = "free"
    /\ queue'  = [queue EXCEPT !.freed = @ \cup {worker[w].node}]
    /\ worker' = [worker EXCEPT ![w].pc = "count", ![w].node = Null]
    /\ UNCHANGED <<locked, boss, takenBy, flags>>

\* The queue is empty, a NULL or freed node is dereferenced, or a node is freed
\* twice.
BadNode(w) ==
    /\ \/ worker[w].pc = "pop"  /\ queue.front = Null
       \/ worker[w].pc = "item" /\ queue.front \in queue.freed \cup {Null}
       \/ worker[w].pc = "next" /\ worker[w].reg \in queue.freed \cup {Null}
       \/ worker[w].pc = "free" /\ worker[w].node \in queue.freed
    /\ Dies

CountDown(w) ==
    /\ \/ Load(w, "count", "set_count", queue.N) /\ UNCHANGED queue
       \/ /\ Load(w, "set_count", "unlock", 0)
          /\ queue' = [queue EXCEPT !.N = worker[w].reg - 1]
    /\ UNCHANGED <<locked, boss, takenBy, flags>>

\* Whoever holds it.
Unlock(w) ==
    /\ Goto(w, "unlock", "perform")
    /\ locked' = FALSE
    /\ UNCHANGED <<queue, boss, takenBy, flags>>

\* handler_perform returns, and the loop goes round: the mutex is not taken.
HandlerPerform(w) ==
    /\ Goto(w, "perform", "isempty")
    /\ again' = TRUE
    /\ Enter
    /\ UNCHANGED <<locked, queue, boss, takenBy, dead>>

WorkerStep(w) ==
    \/ Lock(w) \/ TestEmpty(w) \/ CondWait(w) \/ SpuriousWakeup(w)
    \/ TakeItem(w) \/ MoveFront(w) \/ ClearBack(w) \/ FreeNode(w)
    \/ BadNode(w) \/ CountDown(w) \/ Unlock(w) \/ HandlerPerform(w)

Next == ~dead /\ (BossStep \/ \E w \in Workers : WorkerStep(w))

Spec == Init /\ [][Next]_vars

-----------------------------------------------------------------------------
\* The requests from front, in order.
At[k \in 0 .. MaxRequests] ==
    IF k = 0 THEN queue.front
    ELSE IF At[k - 1] = Null THEN Null ELSE queue.next[At[k - 1]]

\* Outside the critical section the queue is a list of N requests that nobody
\* has taken and that ends in back.
QueueIntact ==
    ~BossInside /\ (\A w \in Workers : ~Inside(w)) =>
      /\ queue.N \in 0 .. MaxRequests
      /\ \A k \in 0 .. queue.N - 1 : At[k] \in Requests /\ takenBy[At[k]] = {}
      /\ At[queue.N] = Null
      /\ queue.back = IF queue.N = 0 THEN Null ELSE At[queue.N - 1]
      /\ queue.N = Cardinality({q \in 1 .. boss.arrived : takenBy[q] = {}})
                   - (IF boss.pc = "lock" THEN 1 ELSE 0)

\* No request is served twice: dequeuing is atomic.
TakenOnce == \A q \in Requests : Cardinality(takenBy[q]) <= 1

\* A worker does not sleep while a request is on the queue, unless others are
\* on their way to it.
WaitsOnlyWhenEmpty ==
    LET waiting == {w \in Workers : worker[w].pc = "wait"} IN
    ~BossInside /\ waiting # {} => queue.N <= Cardinality(Workers \ waiting)

\* The mutex protects the first request of every worker.
FirstRoundLocked == again \/ ~overlapped

\* As long as no two threads happen to be inside at the same time the pool
\* works: requests are taken once, the list keeps its shape, no wake-up is lost.
SafeUnlessOverlapped ==
    /\ TypeOK
    /\ overlapped \/ (~dead /\ QueueIntact /\ TakenOnce /\ WaitsOnlyWhenEmpty)
=============================================================================
