-------------------------- MODULE RequestPoolProofs ---------------------------
(***************************************************************************)
(* The request queue of the multithreaded server (RequestPool), for every  *)
(* number of workers and requests: the mutex protects the first round of   *)
(* every worker, and as long as no two threads are inside at once the      *)
(* queue is what it should be.                                             *)
(*                                                                         *)
(* The boss enqueues its requests in the order in which they arrive, so    *)
(* that the list is always an interval of them: those after the last one   *)
(* that was taken.                                                         *)
(***************************************************************************)
EXTENDS RequestPool, FiniteSetTheorems, NaturalsInduction, TLAPS

-----------------------------------------------------------------------------
(***************************************************************************)
(* The invariant.                                                          *)
(***************************************************************************)
Links == 0 .. MaxRequests

WorkerState ==
    [pc : {"lock", "isempty", "cond_wait", "wait", "pop", "item", "front", "next",
           "set_front", "back", "clear_back", "free", "count", "set_count", "unlock",
           "perform"},
     node : Links, reg : Int]

QueueState ==
    [front : Links, back : Links, N : Int, next : [Requests -> Links], freed : SUBSET Requests]

BossState ==
    [arrived : Links,
     pc : {"serve", "lock", "test", "first", "link", "set_back", "count", "set_count",
           "signal", "unlock"},
     n : Int]

Shapes ==
    /\ locked \in BOOLEAN /\ dead \in BOOLEAN /\ again \in BOOLEAN /\ overlapped \in BOOLEAN
    /\ queue \in QueueState /\ boss \in BossState
    /\ worker \in [Workers -> WorkerState]
    /\ takenBy \in [Requests -> SUBSET Workers]

Typed ==
    /\ Shapes
    /\ boss.pc # "serve" => boss.arrived # 0
    /\ \A w \in Workers :
         /\ worker[w].pc \in {"front", "next", "set_front", "back", "clear_back", "free"} =>
              worker[w].node # Null
         /\ worker[w].pc \in {"next", "set_front"} => worker[w].reg \in Links

\* At most one thread is in the critical section.
OneInside ==
    /\ BossInside => \A w \in Workers : ~Inside(w)
    /\ \A v, w \in Workers : Inside(v) /\ Inside(w) => v = w

\* While every worker is in its first round, whoever is inside holds the mutex.
FirstRound ==
    ~again => ~overlapped /\ (BossInside \/ (\E w \in Workers : Inside(w)) => locked)

\* The requests s+1 .. e as a list: its first and its last one, and the links.
First(s, e) == IF s < e THEN s + 1 ELSE Null
Last(s, e)  == IF s < e THEN e ELSE Null

Linked(s, e) ==
    \A q \in Requests : /\ s < q /\ q < e => queue.next[q] = q + 1
                        /\ q >= e => queue.next[q] = Null

Quiet(s, e) ==
    /\ queue.front = First(s, e) /\ queue.back = Last(s, e) /\ Linked(s, e)
    /\ queue.N = e - s /\ s <= e

\* The last request whose steque_enqueue has begun, unless the boss is inside.
Enqueued == IF boss.pc = "lock" THEN boss.arrived - 1 ELSE boss.arrived

\* The requests up to s were taken, each by one worker.
TakenTo(s) ==
    /\ s <= boss.arrived
    /\ queue.freed \subseteq 1 .. s
    /\ \A q \in Requests : IF q <= s THEN \E w \in Workers : takenBy[q] = {w}
                                     ELSE takenBy[q] = {}

\* How far the boss is with the list.
BossStage(s) == LET a == boss.arrived IN
    /\ s < a
    /\ boss.pc \in {"test", "first", "link"} => Quiet(s, a - 1)
    /\ boss.pc = "first" => s = a - 1
    /\ boss.pc = "link" => s < a - 1
    /\ boss.pc \in {"set_back", "count", "set_count"} =>
         queue.front = First(s, a) /\ Linked(s, a) /\ queue.N = a - 1 - s
    /\ boss.pc \in {"count", "set_count"} => queue.back = a
    /\ boss.pc = "set_count" => boss.n = queue.N
    /\ boss.pc = "signal" => Quiet(s, a)

\* How far worker w is with the list, s counting the request that it takes.
WorkerStage(w, s) == LET e == Enqueued
                         x == worker[w] IN
    /\ x.pc \in {"isempty", "cond_wait", "pop", "item", "unlock"} => Quiet(s, e)
    /\ x.pc = "cond_wait" => s = e
    /\ x.pc \in {"pop", "item"} => s < e
    /\ x.pc \in {"front", "next", "set_front"} => Quiet(s - 1, e)
    /\ x.pc = "next" => x.reg = s
    /\ x.pc = "set_front" => x.reg = First(s, e)
    /\ x.pc \in {"back", "clear_back", "free", "count", "set_count"} =>
         queue.front = First(s, e) /\ Linked(s, e) /\ queue.N = e - s + 1
    /\ x.pc \in {"back", "clear_back"} => queue.back = e
    /\ x.pc = "clear_back" => s = e
    /\ x.pc \in {"free", "count", "set_count"} => queue.back = Last(s, e)
    /\ x.pc \in {"front", "next", "set_front", "back", "clear_back", "free"} =>
         x.node = s /\ s \notin queue.freed /\ 1 <= s
    /\ x.pc \in {"front", "next", "set_front", "back", "clear_back", "free", "count",
                 "set_count"} => s <= e
    /\ x.pc = "set_count" => x.reg = queue.N

Stage(s) ==
    /\ TakenTo(s)
    /\ BossInside /\ boss.pc # "unlock" => BossStage(s)
    /\ \A w \in Workers : Inside(w) => WorkerStage(w, s)
    /\ (~BossInside \/ boss.pc = "unlock") /\ (\A w \in Workers : ~Inside(w)) =>
         Quiet(s, Enqueued)

Waiting == {w \in Workers : worker[w].pc = "wait"}

\* A signal is under way for every request that the workers that are awake do not
\* account for.
WaitInv ==
    Waiting # {} =>
      queue.N <= Cardinality(Workers \ Waiting) + (IF boss.pc = "signal" THEN 1 ELSE 0)

Good ==
    /\ ~dead /\ OneInside /\ WaitInv
    /\ \E s \in Links : Stage(s)

PoolInv == Typed /\ FirstRound /\ (overlapped \/ Good)

-----------------------------------------------------------------------------
(***************************************************************************)
(* Types.                                                                  *)
(***************************************************************************)
LEMMA ShapesSuffice ==
    ASSUME Shapes
    PROVE  TypeOK
BY DEF Shapes, TypeOK, QueueState, BossState, WorkerState, Links

\* Fields of the queue and of the boss.
LEMMA FieldsAre ==
    ASSUME Shapes
    PROVE  /\ queue.front \in Links /\ queue.back \in Links /\ queue.N \in Int
           /\ queue.next \in [Requests -> Links] /\ queue.freed \subseteq Requests
           /\ boss.arrived \in Links /\ boss.n \in Int
           /\ boss.pc \in {"serve", "lock", "test", "first", "link", "set_back", "count",
                           "set_count", "signal", "unlock"}
           /\ \A w \in Workers : worker[w] \in WorkerState
           /\ MaxRequests \in Nat /\ Links \subseteq Int /\ Requests = Links \ {Null}
           /\ Null = 0 /\ Null \in Links
<1>1. MaxRequests \in Nat
      BY MaxRequestsAssumption
<1>2. Links \subseteq Int /\ Requests = Links \ {Null} /\ Null = 0 /\ Null \in Links
      BY <1>1 DEF Links, Requests, Null
<1>. QED BY <1>1, <1>2 DEF Shapes, QueueState, BossState

\* The queue with some fields changed.
LEMMA QueueUpdates ==
    ASSUME Shapes
    PROVE  /\ \A v \in Links : /\ [queue EXCEPT !.front = v] \in QueueState
                               /\ [queue EXCEPT !.back = v] \in QueueState
           /\ \A v \in Int : [queue EXCEPT !.N = v] \in QueueState
           /\ \A q \in Requests, v \in Links : [queue EXCEPT !.next[q] = v] \in QueueState
           /\ \A q \in Requests : [queue EXCEPT !.freed = @ \cup {q}] \in QueueState
<1>1. queue \in QueueState
      BY DEF Shapes
<1>2. ASSUME NEW v \in Links
      PROVE  /\ [queue EXCEPT !.front = v] \in QueueState
             /\ [queue EXCEPT !.back = v] \in QueueState
      BY <1>1 DEF QueueState
<1>3. ASSUME NEW v \in Int PROVE [queue EXCEPT !.N = v] \in QueueState
      BY <1>1 DEF QueueState
<1>4. ASSUME NEW q \in Requests, NEW v \in Links
      PROVE  [queue EXCEPT !.next[q] = v] \in QueueState
      BY <1>1 DEF QueueState
<1>5. ASSUME NEW q \in Requests PROVE [queue EXCEPT !.freed = @ \cup {q}] \in QueueState
      BY <1>1 DEF QueueState
<1>. QED BY <1>2, <1>3, <1>4, <1>5

\* A worker that goes on without loading anything.
LEMMA GotoIs ==
    ASSUME Shapes, NEW w \in Workers, NEW from,
           NEW to \in {"lock", "isempty", "cond_wait", "wait", "pop", "item", "free",
                       "clear_back", "perform"},
           Goto(w, from, to)
    PROVE  \E x \in WorkerState :
             /\ worker' = [worker EXCEPT ![w] = x] /\ worker[w].pc = from
             /\ x.pc = to /\ x.node = worker[w].node /\ x.reg = worker[w].reg
<1> DEFINE x == [worker[w] EXCEPT !.pc = to]
<1>1. worker[w] \in WorkerState
      BY FieldsAre
<1>2. x \in WorkerState /\ x.pc = to /\ x.node = worker[w].node /\ x.reg = worker[w].reg
      BY <1>1 DEF WorkerState
<1>3. worker' = [worker EXCEPT ![w] = x] /\ worker[w].pc = from
      BY DEF Goto
<1>. QED BY <1>2, <1>3

\* A worker that has loaded a value.
LEMMA LoadIs ==
    ASSUME Shapes, NEW w \in Workers, NEW from, NEW value \in Int,
           NEW to \in {"next", "set_front", "back", "set_count", "unlock"},
           Load(w, from, to, value)
    PROVE  \E x \in WorkerState :
             /\ worker' = [worker EXCEPT ![w] = x] /\ worker[w].pc = from
             /\ x.pc = to /\ x.node = worker[w].node /\ x.reg = value
<1> DEFINE x == [worker[w] EXCEPT !.pc = to, !.reg = value]
<1>1. worker[w] \in WorkerState
      BY FieldsAre
<1>2. x \in WorkerState /\ x.pc = to /\ x.node = worker[w].node /\ x.reg = value
      BY <1>1 DEF WorkerState
<1>3. worker' = [worker EXCEPT ![w] = x] /\ worker[w].pc = from
      BY DEF Load
<1>. QED BY <1>2, <1>3

-----------------------------------------------------------------------------
(***************************************************************************)
(* Steps of a worker that is inside.                                       *)
(***************************************************************************)
LEMMA WorkerTyped ==
    ASSUME Typed, NEW w \in Workers, NEW x \in WorkerState,
           worker' = [worker EXCEPT ![w] = x], boss' = boss, queue' \in QueueState,
           locked' \in BOOLEAN, dead' \in BOOLEAN, again' \in BOOLEAN, overlapped' \in BOOLEAN,
           takenBy' \in [Requests -> SUBSET Workers],
           x.pc \in {"front", "next", "set_front", "back", "clear_back", "free"} => x.node # Null,
           x.pc \in {"next", "set_front"} => x.reg \in Links
    PROVE  /\ Typed' /\ worker'[w] = x
           /\ \A v \in Workers \ {w} : worker'[v] = worker[v]
<1>1. worker \in [Workers -> WorkerState] /\ boss \in BossState
      BY DEF Typed, Shapes
<1>2. worker'[w] = x /\ \A v \in Workers \ {w} : worker'[v] = worker[v]
      BY <1>1
<1>3. worker' \in [Workers -> WorkerState]
      BY <1>1
<1>4. Shapes'
      BY <1>1, <1>3 DEF Shapes
<1>5. \A v \in Workers :
        /\ worker'[v].pc \in {"front", "next", "set_front", "back", "clear_back", "free"} =>
             worker'[v].node # Null
        /\ worker'[v].pc \in {"next", "set_front"} => worker'[v].reg \in Links
      BY <1>2 DEF Typed
<1>. QED BY <1>2, <1>4, <1>5 DEF Typed

\* No worker falls asleep or wakes up, and no request is added.
LEMMA WaitSame ==
    ASSUME Shapes, WaitInv, queue'.N \in Int, queue'.N <= queue.N, boss' = boss,
           \A v \in Workers : worker'[v].pc = "wait" <=> worker[v].pc = "wait"
    PROVE  WaitInv'
<1>1. Waiting' = Waiting
      BY DEF Waiting
<1>2. IsFiniteSet(Workers \ Waiting) /\ Cardinality(Workers \ Waiting) \in Nat
      BY WorkersAssumption, FS_Subset, FS_CardinalityType
<1>3. queue.N \in Int
      BY FieldsAre
<1>. QED BY <1>1, <1>2, <1>3 DEF WaitInv

\* A worker that is inside does its next step there, or leaves.
LEMMA InvMoves ==
    ASSUME PoolInv, NEW w \in Workers, Inside(w), NEW x \in WorkerState,
           worker' = [worker EXCEPT ![w] = x], x.pc # "lock", boss' = boss,
           UNCHANGED flags, queue' \in QueueState, takenBy' \in [Requests -> SUBSET Workers],
           IF x.pc \in {"wait", "perform"} THEN locked' = FALSE ELSE locked' = locked,
           x.pc \in {"front", "next", "set_front", "back", "clear_back", "free"} => x.node # Null,
           x.pc \in {"next", "set_front"} => x.reg \in Links,
           overlapped \/ /\ WaitInv'
                         /\ \E s \in Links :
                              /\ TakenTo(s)'
                              /\ IF x.pc \in {"wait", "perform"} THEN Quiet(s, Enqueued)'
                                                                 ELSE WorkerStage(w, s)'
    PROVE  PoolInv'
<1>1. Typed /\ FirstRound /\ Shapes /\ locked \in BOOLEAN
      BY DEF PoolInv, Typed, Shapes
<1>2. dead' = dead /\ again' = again /\ overlapped' = overlapped
      BY DEF flags
<1>3. /\ Typed' /\ worker'[w] = x
      /\ \A v \in Workers \ {w} : worker'[v] = worker[v]
  <2>1. locked' \in BOOLEAN /\ dead \in BOOLEAN /\ again \in BOOLEAN /\ overlapped \in BOOLEAN
        BY <1>1 DEF Shapes
  <2>.  QED BY <1>1, <1>2, <2>1, WorkerTyped
<1>4. /\ \A v \in Workers \ {w} : Inside(v)' = Inside(v)
      /\ BossInside' = BossInside
      /\ Inside(w)' <=> x.pc \notin {"wait", "perform"}
      BY <1>3 DEF Inside, BossInside
<1>5. ASSUME OneInside
      PROVE  /\ OneInside' /\ ~BossInside /\ \A v \in Workers \ {w} : ~Inside(v)
      BY <1>4, <1>5 DEF OneInside
<1>6. FirstRound'
  <2>1. CASE again
        BY <1>2, <2>1 DEF FirstRound
  <2>2. CASE ~again
    <3>1. ~overlapped /\ OneInside /\ locked
          BY <1>1, <2>2 DEF PoolInv, Good, FirstRound
    <3>.  QED BY <1>2, <1>4, <1>5, <2>2, <3>1 DEF FirstRound
  <2>.  QED BY <2>1, <2>2
<1>7. CASE ~overlapped
  <2>1. OneInside /\ ~dead
        BY <1>7 DEF PoolInv, Good
  <2>2. PICK s \in Links :
          /\ TakenTo(s)'
          /\ IF x.pc \in {"wait", "perform"} THEN Quiet(s, Enqueued)' ELSE WorkerStage(w, s)'
        BY <1>7
  <2>3. Stage(s)'
        BY <1>4, <1>5, <2>1, <2>2 DEF Stage
  <2>.  QED BY <1>2, <1>3, <1>5, <1>6, <1>7, <2>1, <2>3 DEF PoolInv, Good
<1>. QED BY <1>2, <1>3, <1>6, <1>7 DEF PoolInv

\* What is known while only worker w is inside.
LEMMA OnlyInside ==
    ASSUME PoolInv, ~overlapped, NEW w \in Workers, Inside(w)
    PROVE  /\ WaitInv /\ ~BossInside /\ \A v \in Workers \ {w} : ~Inside(v)
           /\ \E s \in Links : \E e \in Links :
                /\ TakenTo(s) /\ WorkerStage(w, s) /\ e = Enqueued
                /\ s <= boss.arrived /\ e <= boss.arrived
<1>1. Good /\ Shapes /\ Typed
      BY DEF PoolInv, Typed
<1>2. ~BossInside /\ \A v \in Workers \ {w} : ~Inside(v)
      BY <1>1 DEF Good, OneInside
<1>3. PICK s \in Links : Stage(s)
      BY <1>1 DEF Good
<1>4. boss.arrived \in Links /\ (boss.pc = "lock" => boss.arrived # 0) /\ MaxRequests \in Nat
      BY <1>1, FieldsAre DEF Typed
<1>5. Enqueued \in Links /\ Enqueued <= boss.arrived
      BY <1>4 DEF Enqueued, Links
<1>. QED BY <1>1, <1>2, <1>3, <1>5 DEF Stage, TakenTo, Good

\* steque_isempty
LEMMA InvTestEmpty ==
    ASSUME PoolInv, NEW w \in Workers, TestEmpty(w)
    PROVE  PoolInv'
<1>1. Shapes /\ UNCHANGED <<locked, queue, boss, takenBy, flags>>
      BY DEF PoolInv, Typed, TestEmpty
<1>2. PICK to \in {"cond_wait", "pop"} :
        to = IF queue.N = 0 THEN "cond_wait" ELSE "pop"
      OBVIOUS
<1>3. PICK x \in WorkerState :
        /\ worker' = [worker EXCEPT ![w] = x] /\ worker[w].pc = "isempty"
        /\ x.pc = to
      BY <1>1, <1>2, GotoIs DEF TestEmpty
<1>4. Inside(w) /\ x.pc \in {"cond_wait", "pop"} /\ queue' \in QueueState
      /\ takenBy' \in [Requests -> SUBSET Workers] /\ queue.N \in Int
      BY <1>1, <1>2, <1>3, FieldsAre DEF Inside, Shapes
<1>5. worker'[w] = x /\ \A v \in Workers \ {w} : worker'[v] = worker[v]
      BY <1>1, <1>3 DEF Shapes
<1>6. ASSUME ~overlapped
      PROVE  WaitInv' /\ \E s \in Links : TakenTo(s)' /\ WorkerStage(w, s)'
  <2>1. PICK s \in Links, e \in Links :
          TakenTo(s) /\ WorkerStage(w, s) /\ e = Enqueued /\ WaitInv
        BY <1>4, <1>6, OnlyInside
  <2>2. TakenTo(s)' /\ Enqueued' = e /\ Quiet(s, e)' = Quiet(s, e)
        BY <1>1, <2>1 DEF TakenTo, Enqueued, Quiet, Linked
  <2>3. Quiet(s, e) /\ s <= e /\ queue.N = e - s
        BY <1>3, <2>1 DEF WorkerStage, Quiet
  <2>4. IF queue.N = 0 THEN s = e ELSE s < e
        BY <2>3, FieldsAre, <1>1
  <2>5. WorkerStage(w, s)'
        BY <1>2, <1>3, <1>5, <2>2, <2>3, <2>4 DEF WorkerStage
  <2>6. WaitInv'
        BY <1>1, <1>3, <1>4, <1>5, <2>1, WaitSame
  <2>.  QED BY <2>2, <2>5, <2>6
<1>. QED BY <1>1, <1>3, <1>4, <1>6, InvMoves

\* pthread_cond_wait: the worker sleeps while there are no requests.
LEMMA InvCondWait ==
    ASSUME PoolInv, NEW w \in Workers, CondWait(w)
    PROVE  PoolInv'
<1>1. Shapes /\ UNCHANGED <<queue, boss, takenBy, flags>> /\ locked' = FALSE
      BY DEF PoolInv, Typed, CondWait
<1>2. PICK x \in WorkerState :
        /\ worker' = [worker EXCEPT ![w] = x] /\ worker[w].pc = "cond_wait"
        /\ x.pc = "wait"
      BY <1>1, GotoIs DEF CondWait
<1>3. Inside(w) /\ queue' \in QueueState /\ takenBy' \in [Requests -> SUBSET Workers]
      BY <1>1, <1>2 DEF Inside, Shapes
<1>4. ASSUME ~overlapped
      PROVE  WaitInv' /\ \E s \in Links : TakenTo(s)' /\ Quiet(s, Enqueued)'
  <2>1. PICK s \in Links, e \in Links :
          TakenTo(s) /\ WorkerStage(w, s) /\ e = Enqueued /\ WaitInv
        BY <1>3, <1>4, OnlyInside
  <2>2. TakenTo(s)' /\ Enqueued' = e /\ Quiet(s, e)' = Quiet(s, e)
        BY <1>1, <2>1 DEF TakenTo, Enqueued, Quiet, Linked
  <2>3. Quiet(s, e) /\ s = e /\ queue.N = e - s
        BY <1>2, <2>1 DEF WorkerStage, Quiet
  <2>4. queue'.N = 0
        BY <1>1, <2>3, FieldsAre
  <2>5. Cardinality(Workers \ Waiting') \in Nat
    <3>1. IsFiniteSet(Workers \ Waiting')
          BY WorkersAssumption, FS_Subset
    <3>.  QED BY <3>1, FS_CardinalityType
  <2>6. WaitInv'
        BY <2>4, <2>5 DEF WaitInv
  <2>7. Quiet(s, Enqueued)'
        BY <2>2, <2>3
  <2>.  QED BY <2>2, <2>6, <2>7
<1>. QED BY <1>1, <1>2, <1>3, <1>4, InvMoves

\* steque_pop and the item of its node: the first request is taken.
LEMMA InvTakeItem ==
    ASSUME PoolInv, NEW w \in Workers, TakeItem(w)
    PROVE  PoolInv'
<1>1. Shapes /\ UNCHANGED <<locked, queue, boss, flags>> /\ queue' \in QueueState
      /\ queue.N \in Int /\ queue.front \in Links /\ worker \in [Workers -> WorkerState]
      /\ takenBy \in [Requests -> SUBSET Workers]
      BY FieldsAre DEF PoolInv, Typed, TakeItem, Shapes
<1>2. CASE queue.front # Null /\ Goto(w, "pop", "item") /\ UNCHANGED takenBy
  <2>1. PICK x \in WorkerState :
          /\ worker' = [worker EXCEPT ![w] = x] /\ worker[w].pc = "pop" /\ x.pc = "item"
        BY <1>1, <1>2, GotoIs
  <2>2. Inside(w) /\ worker'[w] = x /\ \A v \in Workers \ {w} : worker'[v] = worker[v]
        BY <1>1, <2>1 DEF Inside
  <2>3. ASSUME ~overlapped
        PROVE  WaitInv' /\ \E s \in Links : TakenTo(s)' /\ WorkerStage(w, s)'
    <3>1. PICK s \in Links, e \in Links :
            TakenTo(s) /\ WorkerStage(w, s) /\ e = Enqueued /\ WaitInv
          BY <2>2, <2>3, OnlyInside
    <3>2. TakenTo(s)' /\ Enqueued' = e /\ Quiet(s, e)' = Quiet(s, e)
          BY <1>1, <1>2, <3>1 DEF TakenTo, Enqueued, Quiet, Linked
    <3>3. Quiet(s, e) /\ s < e
          BY <2>1, <3>1 DEF WorkerStage
    <3>4. WorkerStage(w, s)'
          BY <2>1, <2>2, <3>2, <3>3 DEF WorkerStage
    <3>5. WaitInv'
          BY <1>1, <2>1, <2>2, <3>1, WaitSame
    <3>.  QED BY <3>2, <3>4, <3>5
  <2>.  QED BY <1>1, <1>2, <2>1, <2>2, <2>3, InvMoves
<1>3. CASE /\ worker[w].pc = "item" /\ queue.front \notin queue.freed \cup {Null}
           /\ worker'  = [worker EXCEPT ![w].pc = "front", ![w].node = queue.front]
           /\ takenBy' = [takenBy EXCEPT ![queue.front] = @ \cup {w}]
  <2>1. PICK q \in Requests : q = queue.front /\ q \notin queue.freed
        BY <1>1, <1>3, FieldsAre
  <2>2. PICK x \in WorkerState :
          worker' = [worker EXCEPT ![w] = x] /\ x.pc = "front" /\ x.node = q
    <3> DEFINE y == [worker[w] EXCEPT !.pc = "front", !.node = q]
    <3>1. y \in WorkerState /\ y.pc = "front" /\ y.node = q
          BY <1>1, <2>1 DEF WorkerState
    <3>2. worker' = [worker EXCEPT ![w] = y]
          BY <1>1, <1>3, <2>1
    <3>.  QED BY <3>1, <3>2
  <2>3. /\ Inside(w) /\ worker'[w] = x /\ \A v \in Workers \ {w} : worker'[v] = worker[v]
        /\ x.node # Null
        BY <1>1, <1>3, <2>1, <2>2, FieldsAre DEF Inside
  <2>4. /\ takenBy' \in [Requests -> SUBSET Workers] /\ takenBy'[q] = takenBy[q] \cup {w}
        /\ \A p \in Requests \ {q} : takenBy'[p] = takenBy[p]
        BY <1>1, <1>3, <2>1
  <2>5. ASSUME ~overlapped
        PROVE  WaitInv' /\ \E s \in Links : TakenTo(s)' /\ WorkerStage(w, s)'
    <3>1. PICK s \in Links, e \in Links :
            /\ TakenTo(s) /\ WorkerStage(w, s) /\ e = Enqueued /\ WaitInv
            /\ s <= boss.arrived /\ e <= boss.arrived
          BY <2>3, <2>5, OnlyInside
    <3>2. Quiet(s, e) /\ s < e
          BY <1>3, <3>1 DEF WorkerStage
    <3>3. q = s + 1 /\ s \in Int /\ e \in Int /\ boss.arrived \in Int
          BY <1>1, <2>1, <3>2, FieldsAre DEF Quiet, First
    <3>4. s + 1 \in Links
          BY <2>1, <3>3, FieldsAre, <1>1
    <3>5. TakenTo(s + 1)'
      <4>1. \A p \in Requests : p \in Int
            BY FieldsAre, <1>1
      <4>2. takenBy'[q] = {w}
            BY <2>1, <2>4, <3>1, <3>3, <4>1 DEF TakenTo
      <4>3. \A p \in Requests : IF p <= s + 1 THEN \E v \in Workers : takenBy'[p] = {v}
                                              ELSE takenBy'[p] = {}
            BY <2>4, <3>1, <3>3, <4>1, <4>2 DEF TakenTo
      <4>4. queue.freed \subseteq 1 .. s + 1 /\ s + 1 <= boss.arrived
            BY <3>1, <3>2, <3>3 DEF TakenTo
      <4>.  QED BY <1>1, <4>3, <4>4 DEF TakenTo
    <3>6. WorkerStage(w, s + 1)'
      <4>1. Enqueued' = e /\ Quiet(s, e)'
            BY <1>1, <3>1, <3>2 DEF Enqueued, Quiet, Linked
      <4>2. (s + 1) - 1 = s /\ s + 1 <= e /\ 1 <= s + 1
            BY <3>2, <3>3, FieldsAre, <1>1 DEF Links
      <4>3. s + 1 \notin queue'.freed
            BY <1>1, <2>1, <3>3
      <4>.  QED BY <2>2, <2>3, <3>3, <4>1, <4>2, <4>3 DEF WorkerStage
    <3>7. WaitInv'
          BY <1>1, <1>3, <2>2, <2>3, <3>1, WaitSame
    <3>.  QED BY <3>4, <3>5, <3>6, <3>7
  <2>.  QED BY <1>1, <2>2, <2>3, <2>4, <2>5, InvMoves
<1>. QED BY <1>2, <1>3 DEF TakeItem

\* A step inside that takes no request, given what it does to the list.
LEMMA InvListStep ==
    ASSUME PoolInv, NEW w \in Workers, Inside(w), NEW x \in WorkerState,
           worker' = [worker EXCEPT ![w] = x], x.pc \notin {"lock", "wait"},
           UNCHANGED <<boss, takenBy, flags>>, queue' \in QueueState,
           overlapped \/ queue'.N <= queue.N,
           IF x.pc = "perform" THEN locked' = FALSE ELSE locked' = locked,
           x.pc \in {"front", "next", "set_front", "back", "clear_back", "free"} => x.node # Null,
           x.pc \in {"next", "set_front"} => x.reg \in Links,
           ASSUME NEW s \in Links, NEW e \in Links, TakenTo(s), WorkerStage(w, s),
                  e = Enqueued, e = Enqueued', worker'[w] = x, ~overlapped
           PROVE  /\ queue'.freed \subseteq 1 .. s
                  /\ IF x.pc = "perform" THEN Quiet(s, e)' ELSE WorkerStage(w, s)'
    PROVE  PoolInv'
<1>1. Shapes
      BY DEF PoolInv, Typed
<1>2. worker'[w] = x /\ \A v \in Workers \ {w} : worker'[v] = worker[v]
      BY <1>1 DEF Shapes
<1>3. queue'.N \in Int /\ queue.N \in Int /\ worker[w].pc # "wait"
      BY FieldsAre, <1>1 DEF QueueState, Inside
<1>4. ASSUME ~overlapped
      PROVE  WaitInv' /\ \E s \in Links :
               /\ TakenTo(s)'
               /\ IF x.pc \in {"wait", "perform"} THEN Quiet(s, Enqueued)' ELSE WorkerStage(w, s)'
  <2>1. PICK s \in Links, e \in Links :
          /\ TakenTo(s) /\ WorkerStage(w, s) /\ e = Enqueued /\ WaitInv
        BY <1>4, OnlyInside
  <2>2. e = Enqueued'
        BY <2>1 DEF Enqueued
  <2>3. /\ queue'.freed \subseteq 1 .. s
        /\ IF x.pc = "perform" THEN Quiet(s, e)' ELSE WorkerStage(w, s)'
        BY <1>2, <1>4, <2>1, <2>2
  <2>4. TakenTo(s)'
        BY <2>1, <2>3 DEF TakenTo
  <2>5. Quiet(s, e)' => Quiet(s, Enqueued)'
        BY <2>2 DEF Quiet, Linked, First, Last
  <2>6. WaitInv'
        BY <1>1, <1>2, <1>3, <1>4, <2>1, WaitSame
  <2>.  QED BY <2>3, <2>4, <2>5, <2>6
<1>5. takenBy' \in [Requests -> SUBSET Workers] /\ boss' = boss /\ UNCHANGED flags
      BY <1>1 DEF Shapes
<1>. QED BY <1>4, <1>5, InvMoves

\* this->front = this->front->next
LEMMA InvMoveFront ==
    ASSUME PoolInv, NEW w \in Workers, MoveFront(w)
    PROVE  PoolInv'
<1>1. /\ Shapes /\ UNCHANGED <<boss, takenBy, flags>> /\ locked' = locked /\ queue \in QueueState
      /\ queue.N \in Int /\ queue.front \in Links /\ queue.next \in [Requests -> Links]
      /\ queue.freed \subseteq Requests /\ Requests = Links \ {Null} /\ Null = 0
      /\ Links \subseteq Int /\ MaxRequests \in Nat
      BY FieldsAre DEF PoolInv, Typed, MoveFront, Shapes
<1>2. /\ worker[w].pc \in {"front", "next", "set_front"} => worker[w].node # Null
      /\ worker[w].pc \in {"next", "set_front"} => worker[w].reg \in Links
      BY DEF PoolInv, Typed
<1>3. CASE Load(w, "front", "next", queue.front) /\ UNCHANGED queue
  <2>1. PICK x \in WorkerState :
          /\ worker' = [worker EXCEPT ![w] = x] /\ worker[w].pc = "front"
          /\ x.pc = "next" /\ x.node = worker[w].node /\ x.reg = queue.front
    <3>1. queue.front \in Int
          BY <1>1
    <3>.  QED BY <1>1, <1>3, <3>1, LoadIs
  <2>2. ASSUME NEW s \in Links, NEW e \in Links, TakenTo(s), WorkerStage(w, s),
               e = Enqueued, e = Enqueued', worker'[w] = x, ~overlapped
        PROVE  queue'.freed \subseteq 1 .. s /\ WorkerStage(w, s)'
    <3>1. Quiet(s - 1, e) /\ s <= e /\ 1 <= s /\ s \notin queue.freed /\ x.node = s
          BY <2>1, <2>2 DEF WorkerStage
    <3>2. x.reg = s
          BY <1>1, <2>1, <3>1 DEF Quiet, First
    <3>3. Quiet(s - 1, e)'
          BY <1>3, <3>1 DEF Quiet, Linked
    <3>.  QED BY <1>3, <2>1, <2>2, <3>1, <3>2, <3>3 DEF WorkerStage, TakenTo
  <2>3. Inside(w) /\ queue' \in QueueState /\ queue'.N <= queue.N /\ x.node # Null
        BY <1>1, <1>2, <1>3, <2>1 DEF Inside
  <2>.  QED BY <1>1, <2>1, <2>2, <2>3, InvListStep
<1>4. CASE /\ worker[w].reg \notin queue.freed \cup {Null}
           /\ Load(w, "next", "set_front", queue.next[worker[w].reg]) /\ UNCHANGED queue
  <2>1. worker[w].reg \in Requests /\ queue.next[worker[w].reg] \in Links
        BY <1>1, <1>2, <1>4 DEF Load
  <2>2. PICK x \in WorkerState :
          /\ worker' = [worker EXCEPT ![w] = x] /\ worker[w].pc = "next"
          /\ x.pc = "set_front" /\ x.node = worker[w].node
          /\ x.reg = queue.next[worker[w].reg]
    <3>1. queue.next[worker[w].reg] \in Int
          BY <1>1, <2>1
    <3>.  QED BY <1>1, <1>4, <3>1, LoadIs
  <2>3. ASSUME NEW s \in Links, NEW e \in Links, TakenTo(s), WorkerStage(w, s),
               e = Enqueued, e = Enqueued', worker'[w] = x, ~overlapped
        PROVE  queue'.freed \subseteq 1 .. s /\ WorkerStage(w, s)'
    <3>1. /\ Quiet(s - 1, e) /\ s <= e /\ 1 <= s /\ s \notin queue.freed /\ x.node = s
          /\ worker[w].reg = s
          BY <2>2, <2>3 DEF WorkerStage
    <3>2. x.reg = First(s, e)
          BY <1>1, <2>1, <2>2, <3>1 DEF Quiet, Linked, First
    <3>3. Quiet(s - 1, e)'
          BY <1>4, <3>1 DEF Quiet, Linked
    <3>.  QED BY <1>4, <2>2, <2>3, <3>1, <3>2, <3>3 DEF WorkerStage, TakenTo
  <2>4. Inside(w) /\ queue' \in QueueState /\ queue'.N <= queue.N /\ x.node # Null
        BY <1>1, <1>2, <1>4, <2>2 DEF Inside
  <2>.  QED BY <1>1, <2>1, <2>2, <2>3, <2>4, InvListStep
<1>5. CASE /\ Load(w, "set_front", "back", 0)
           /\ queue' = [queue EXCEPT !.front = worker[w].reg]
  <2>1. PICK x \in WorkerState :
          /\ worker' = [worker EXCEPT ![w] = x] /\ worker[w].pc = "set_front"
          /\ x.pc = "back" /\ x.node = worker[w].node
        BY <1>1, <1>5, LoadIs
  <2>2. /\ queue' \in QueueState /\ queue'.front = worker[w].reg /\ queue'.back = queue.back
        /\ queue'.N = queue.N /\ queue'.next = queue.next /\ queue'.freed = queue.freed
        BY <1>1, <1>2, <1>5, <2>1, QueueUpdates DEF QueueState
  <2>3. ASSUME NEW s \in Links, NEW e \in Links, TakenTo(s), WorkerStage(w, s),
               e = Enqueued, e = Enqueued', worker'[w] = x, ~overlapped
        PROVE  queue'.freed \subseteq 1 .. s /\ WorkerStage(w, s)'
    <3>1. /\ Quiet(s - 1, e) /\ s <= e /\ 1 <= s /\ s \notin queue.freed /\ x.node = s
          /\ worker[w].reg = First(s, e)
          BY <2>1, <2>3 DEF WorkerStage
    <3>2. queue.back = e /\ queue.N = e - s + 1
          BY <1>1, <3>1 DEF Quiet, Last
    <3>3. Linked(s, e)'
          BY <1>1, <2>2, <3>1 DEF Quiet, Linked
    <3>.  QED BY <2>1, <2>2, <2>3, <3>1, <3>2, <3>3 DEF WorkerStage, TakenTo
  <2>4. Inside(w) /\ queue'.N <= queue.N /\ x.node # Null
        BY <1>1, <1>2, <2>1, <2>2 DEF Inside
  <2>.  QED BY <1>1, <2>1, <2>2, <2>3, <2>4, InvListStep
<1>. QED BY <1>3, <1>4, <1>5 DEF MoveFront

\* if (this->front == NULL) this->back = NULL
LEMMA InvClearBack ==
    ASSUME PoolInv, NEW w \in Workers, ClearBack(w)
    PROVE  PoolInv'
<1>1. /\ Shapes /\ UNCHANGED <<boss, takenBy, flags>> /\ locked' = locked /\ queue \in QueueState
      /\ queue.N \in Int /\ queue.front \in Links /\ Null = 0 /\ Null \in Links
      /\ Links \subseteq Int /\ MaxRequests \in Nat
      BY FieldsAre DEF PoolInv, Typed, ClearBack, Shapes
<1>2. worker[w].pc \in {"back", "clear_back"} => worker[w].node # Null
      BY DEF PoolInv, Typed
<1>3. CASE /\ Goto(w, "back", IF queue.front = Null THEN "clear_back" ELSE "free")
           /\ UNCHANGED queue
  <2>1. PICK to \in {"clear_back", "free"} :
          to = IF queue.front = Null THEN "clear_back" ELSE "free"
        OBVIOUS
  <2>2. PICK x \in WorkerState :
          /\ worker' = [worker EXCEPT ![w] = x] /\ worker[w].pc = "back"
          /\ x.pc = to /\ x.node = worker[w].node
        BY <1>1, <1>3, <2>1, GotoIs
  <2>3. ASSUME NEW s \in Links, NEW e \in Links, TakenTo(s), WorkerStage(w, s),
               e = Enqueued, e = Enqueued', worker'[w] = x, ~overlapped
        PROVE  queue'.freed \subseteq 1 .. s /\ WorkerStage(w, s)'
    <3>1. /\ queue.front = First(s, e) /\ Linked(s, e) /\ queue.N = e - s + 1
          /\ s <= e /\ 1 <= s /\ s \notin queue.freed /\ x.node = s /\ queue.back = e
          BY <2>2, <2>3 DEF WorkerStage
    <3>2. IF queue.front = Null THEN s = e ELSE queue.back = Last(s, e)
          BY <1>1, <3>1 DEF First, Last
    <3>3. Linked(s, e)'
          BY <1>3, <3>1 DEF Linked
    <3>.  QED BY <1>3, <2>1, <2>2, <2>3, <3>1, <3>2, <3>3 DEF WorkerStage, TakenTo
  <2>4. /\ Inside(w) /\ queue' \in QueueState /\ queue'.N <= queue.N /\ x.node # Null
        /\ x.pc \in {"clear_back", "free"}
        BY <1>1, <1>2, <1>3, <2>1, <2>2 DEF Inside
  <2>.  QED BY <1>1, <2>2, <2>3, <2>4, InvListStep
<1>4. CASE Goto(w, "clear_back", "free") /\ queue' = [queue EXCEPT !.back = Null]
  <2>1. PICK x \in WorkerState :
          /\ worker' = [worker EXCEPT ![w] = x] /\ worker[w].pc = "clear_back"
          /\ x.pc = "free" /\ x.node = worker[w].node
        BY <1>1, <1>4, GotoIs
  <2>2. /\ queue' \in QueueState /\ queue'.front = queue.front /\ queue'.back = Null
        /\ queue'.N = queue.N /\ queue'.next = queue.next /\ queue'.freed = queue.freed
        BY <1>1, <1>4, QueueUpdates DEF QueueState
  <2>3. ASSUME NEW s \in Links, NEW e \in Links, TakenTo(s), WorkerStage(w, s),
               e = Enqueued, e = Enqueued', worker'[w] = x, ~overlapped
        PROVE  queue'.freed \subseteq 1 .. s /\ WorkerStage(w, s)'
    <3>1. /\ queue.front = First(s, e) /\ Linked(s, e) /\ queue.N = e - s + 1
          /\ s = e /\ 1 <= s /\ s \notin queue.freed /\ x.node = s
          BY <2>1, <2>3 DEF WorkerStage
    <3>2. Null = Last(s, e) /\ s <= e
          BY <1>1, <3>1 DEF Last
    <3>3. Linked(s, e)'
          BY <2>2, <3>1 DEF Linked
    <3>.  QED BY <2>1, <2>2, <2>3, <3>1, <3>2, <3>3 DEF WorkerStage, TakenTo
  <2>4. Inside(w) /\ queue'.N <= queue.N /\ x.node # Null
        BY <1>1, <1>2, <2>1, <2>2 DEF Inside
  <2>.  QED BY <1>1, <2>1, <2>2, <2>3, <2>4, InvListStep
<1>. QED BY <1>3, <1>4 DEF ClearBack

\* The node of the request that was taken is freed.
LEMMA InvFreeNode ==
    ASSUME PoolInv, NEW w \in Workers, FreeNode(w)
    PROVE  PoolInv'
<1>1. /\ Shapes /\ UNCHANGED <<boss, takenBy, flags>> /\ locked' = locked /\ queue \in QueueState
      /\ queue.N \in Int /\ Requests = Links \ {Null} /\ Null \in Links /\ Links \subseteq Int
      /\ worker[w] \in WorkerState /\ worker[w].pc = "free"
      BY FieldsAre DEF PoolInv, Typed, FreeNode, Shapes
<1>2. PICK q \in Requests : q = worker[w].node
      BY <1>1 DEF PoolInv, Typed, WorkerState
<1>3. /\ queue' \in QueueState /\ queue'.front = queue.front /\ queue'.back = queue.back
      /\ queue'.N = queue.N /\ queue'.next = queue.next /\ queue'.freed = queue.freed \cup {q}
  <2>1. queue' = [queue EXCEPT !.freed = @ \cup {q}]
        BY <1>2 DEF FreeNode
  <2>.  QED BY <1>1, <2>1, QueueUpdates DEF QueueState
<1>4. PICK x \in WorkerState : worker' = [worker EXCEPT ![w] = x] /\ x.pc = "count"
  <2> DEFINE y == [worker[w] EXCEPT !.pc = "count", !.node = Null]
  <2>1. y \in WorkerState /\ y.pc = "count"
        BY <1>1 DEF WorkerState
  <2>2. worker' = [worker EXCEPT ![w] = y]
        BY DEF FreeNode
  <2>.  QED BY <2>1, <2>2
<1>5. ASSUME NEW s \in Links, NEW e \in Links, TakenTo(s), WorkerStage(w, s),
             e = Enqueued, e = Enqueued', worker'[w] = x, ~overlapped
      PROVE  queue'.freed \subseteq 1 .. s /\ WorkerStage(w, s)'
  <2>1. /\ queue.front = First(s, e) /\ Linked(s, e) /\ queue.N = e - s + 1
        /\ s <= e /\ 1 <= s /\ q = s /\ queue.back = Last(s, e)
        BY <1>1, <1>2, <1>5 DEF WorkerStage
  <2>2. Linked(s, e)'
        BY <1>3, <2>1 DEF Linked
  <2>3. queue'.freed \subseteq 1 .. s
        BY <1>1, <1>3, <1>5, <2>1 DEF TakenTo
  <2>.  QED BY <1>3, <1>4, <1>5, <2>1, <2>2, <2>3 DEF WorkerStage
<1>6. Inside(w) /\ queue'.N <= queue.N
      BY <1>1, <1>3 DEF Inside
<1>. QED BY <1>1, <1>3, <1>4, <1>5, <1>6, InvListStep

\* queue->N--, a load and a store.
LEMMA InvCountDown ==
    ASSUME PoolInv, NEW w \in Workers, CountDown(w)
    PROVE  PoolInv'
<1>1. /\ Shapes /\ UNCHANGED <<boss, takenBy, flags>> /\ locked' = locked /\ queue \in QueueState
      /\ queue.N \in Int /\ Links \subseteq Int /\ worker[w] \in WorkerState
      BY FieldsAre DEF PoolInv, Typed, CountDown, Shapes
<1>2. CASE Load(w, "count", "set_count", queue.N) /\ UNCHANGED queue
  <2>1. PICK x \in WorkerState :
          /\ worker' = [worker EXCEPT ![w] = x] /\ worker[w].pc = "count"
          /\ x.pc = "set_count" /\ x.reg = queue.N
        BY <1>1, <1>2, LoadIs
  <2>2. ASSUME NEW s \in Links, NEW e \in Links, TakenTo(s), WorkerStage(w, s),
               e = Enqueued, e = Enqueued', worker'[w] = x, ~overlapped
        PROVE  queue'.freed \subseteq 1 .. s /\ WorkerStage(w, s)'
    <3>1. /\ queue.front = First(s, e) /\ Linked(s, e) /\ queue.N = e - s + 1
          /\ s <= e /\ queue.back = Last(s, e)
          BY <2>1, <2>2 DEF WorkerStage
    <3>2. Linked(s, e)'
          BY <1>2, <3>1 DEF Linked
    <3>.  QED BY <1>2, <2>1, <2>2, <3>1, <3>2 DEF WorkerStage, TakenTo
  <2>3. Inside(w) /\ queue' \in QueueState /\ queue'.N <= queue.N
        BY <1>1, <1>2, <2>1 DEF Inside
  <2>.  QED BY <1>1, <2>1, <2>2, <2>3, InvListStep
<1>3. CASE Load(w, "set_count", "unlock", 0) /\ queue' = [queue EXCEPT !.N = worker[w].reg - 1]
  <2>1. PICK x \in WorkerState :
          /\ worker' = [worker EXCEPT ![w] = x] /\ worker[w].pc = "set_count" /\ x.pc = "unlock"
        BY <1>1, <1>3, LoadIs
  <2>2. PICK n \in Int : n = worker[w].reg - 1
        BY <1>1 DEF WorkerState
  <2>3. /\ queue' \in QueueState /\ queue'.front = queue.front /\ queue'.back = queue.back
        /\ queue'.N = n /\ queue'.next = queue.next /\ queue'.freed = queue.freed
        BY <1>1, <1>3, <2>2, QueueUpdates DEF QueueState
  <2>4. ASSUME NEW s \in Links, NEW e \in Links, WorkerStage(w, s), e = Enqueued
        PROVE  /\ queue.front = First(s, e) /\ Linked(s, e) /\ queue.N = e - s + 1
               /\ s <= e /\ queue.back = Last(s, e) /\ n = e - s /\ n <= queue.N
    <3>1. /\ queue.front = First(s, e) /\ Linked(s, e) /\ queue.N = e - s + 1
          /\ s <= e /\ queue.back = Last(s, e) /\ worker[w].reg = queue.N
          BY <2>1, <2>4 DEF WorkerStage
    <3>.  QED BY <1>1, <2>2, <3>1
  <2>5. ASSUME NEW s \in Links, NEW e \in Links, TakenTo(s), WorkerStage(w, s),
               e = Enqueued, e = Enqueued', worker'[w] = x, ~overlapped
        PROVE  queue'.freed \subseteq 1 .. s /\ WorkerStage(w, s)'
    <3>1. Quiet(s, e)'
          BY <2>3, <2>4, <2>5 DEF Quiet, Linked
    <3>.  QED BY <2>1, <2>3, <2>5, <3>1 DEF WorkerStage, TakenTo
  <2>6. Inside(w) /\ x.pc = "unlock"
        BY <2>1 DEF Inside
  <2>7. ASSUME ~overlapped PROVE queue'.N <= queue.N
    <3>1. PICK s \in Links, e \in Links : WorkerStage(w, s) /\ e = Enqueued
          BY <2>6, <2>7, OnlyInside
    <3>.  QED BY <2>3, <2>4, <3>1
  <2>.  QED BY <1>1, <2>1, <2>3, <2>5, <2>6, <2>7, InvListStep
<1>. QED BY <1>2, <1>3 DEF CountDown

\* Outside the list is what it was.
LEMMA InvUnlock ==
    ASSUME PoolInv, NEW w \in Workers, Unlock(w)
    PROVE  PoolInv'
<1>1. /\ Shapes /\ UNCHANGED <<boss, takenBy, flags>> /\ locked' = FALSE /\ queue' = queue
      /\ queue \in QueueState /\ queue.N \in Int
      BY FieldsAre DEF PoolInv, Typed, Unlock, Shapes
<1>2. PICK x \in WorkerState :
        worker' = [worker EXCEPT ![w] = x] /\ worker[w].pc = "unlock" /\ x.pc = "perform"
      BY <1>1, GotoIs DEF Unlock
<1>3. ASSUME NEW s \in Links, NEW e \in Links, TakenTo(s), WorkerStage(w, s),
             e = Enqueued, e = Enqueued', worker'[w] = x, ~overlapped
      PROVE  queue'.freed \subseteq 1 .. s /\ Quiet(s, e)'
  <2>1. Quiet(s, e)
        BY <1>2, <1>3 DEF WorkerStage
  <2>.  QED BY <1>1, <1>3, <2>1 DEF Quiet, Linked, TakenTo
<1>4. Inside(w) /\ queue' \in QueueState /\ queue'.N <= queue.N
      BY <1>1, <1>2 DEF Inside
<1>. QED BY <1>1, <1>2, <1>3, <1>4, InvListStep

\* No worker meets an empty queue or a freed node, unless two were inside.
LEMMA InvBadNode ==
    ASSUME PoolInv, NEW w \in Workers, BadNode(w)
    PROVE  PoolInv'
<1>1. Shapes /\ UNCHANGED <<locked, queue, boss, worker, takenBy, again, overlapped>> /\ dead'
      BY DEF PoolInv, Typed, BadNode, Dies
<1>2. ASSUME ~overlapped PROVE FALSE
  <2>1. Inside(w)
        BY DEF BadNode, Inside
  <2>2. PICK s \in Links, e \in Links :
          TakenTo(s) /\ WorkerStage(w, s) /\ e = Enqueued /\ e <= boss.arrived
        BY <1>2, <2>1, OnlyInside
  <2>3. /\ Links \subseteq Int /\ Null = 0 /\ s \in Int /\ e \in Int /\ 0 <= s
        /\ worker[w] \in WorkerState
        BY <1>1, FieldsAre DEF Links
  <2>4. CASE worker[w].pc \in {"pop", "item"}
    <3>1. queue.front = s + 1
          BY <2>2, <2>4 DEF WorkerStage, Quiet, First
    <3>2. queue.front # Null /\ queue.front \notin queue.freed
          BY <2>2, <2>3, <3>1 DEF TakenTo
    <3>.  QED BY <2>4, <3>2 DEF BadNode
  <2>5. CASE worker[w].pc = "next"
    <3>1. worker[w].reg = s /\ s \notin queue.freed /\ 1 <= s
          BY <2>2, <2>5 DEF WorkerStage
    <3>.  QED BY <2>3, <2>5, <3>1 DEF BadNode
  <2>6. CASE worker[w].pc = "free"
    <3>1. worker[w].node = s /\ s \notin queue.freed
          BY <2>2, <2>6 DEF WorkerStage
    <3>.  QED BY <2>6, <3>1 DEF BadNode
  <2>.  QED BY <2>4, <2>5, <2>6 DEF BadNode
<1>3. Typed' /\ FirstRound'
  <2>1. Typed'
        BY <1>1 DEF PoolInv, Typed, Shapes
  <2>2. FirstRound'
        BY <1>1 DEF PoolInv, FirstRound, BossInside, Inside
  <2>.  QED BY <2>1, <2>2
<1>. QED BY <1>1, <1>2, <1>3 DEF PoolInv

-----------------------------------------------------------------------------
(***************************************************************************)
(* Steps of a worker that is outside.                                      *)
(***************************************************************************)
\* A worker enters the critical section.
LEMMA InvEnters ==
    ASSUME PoolInv, NEW w \in Workers, worker[w].pc \in {"lock", "perform"},
           NEW x \in WorkerState, worker' = [worker EXCEPT ![w] = x], x.pc = "isempty",
           UNCHANGED <<queue, boss, takenBy, dead>>, Enter,
           locked' \in BOOLEAN, again' \in BOOLEAN, again' \/ (~overlapped' /\ locked')
    PROVE  PoolInv'
<1>1. Typed /\ Shapes /\ overlapped \in BOOLEAN
      BY DEF PoolInv, Typed, Shapes
<1>2. overlapped' \in BOOLEAN /\ queue' \in QueueState /\ dead' \in BOOLEAN
      /\ takenBy' \in [Requests -> SUBSET Workers]
      BY <1>1 DEF Enter, Shapes
<1>3. /\ Typed' /\ worker'[w] = x
      /\ \A v \in Workers \ {w} : worker'[v] = worker[v]
      BY <1>1, <1>2, WorkerTyped
<1>4. FirstRound'
      BY <1>2 DEF FirstRound
<1>5. CASE overlapped'
      BY <1>3, <1>4, <1>5 DEF PoolInv
<1>6. CASE ~overlapped'
  <2>1. ~overlapped /\ ~BossInside /\ \A v \in Workers : ~Inside(v)
        BY <1>1, <1>6 DEF Enter
  <2>2. Good
        BY <2>1 DEF PoolInv
  <2>3. Inside(w)' /\ ~BossInside' /\ \A v \in Workers \ {w} : ~Inside(v)'
        BY <1>3, <2>1 DEF Inside, BossInside
  <2>4. OneInside'
        BY <2>3 DEF OneInside
  <2>5. WaitInv'
    <3>1. queue'.N = queue.N /\ queue.N \in Int
          BY <1>1, FieldsAre
    <3>.  QED BY <1>1, <1>3, <2>2, <3>1, WaitSame DEF Good
  <2>6. PICK s \in Links : Stage(s)
        BY <2>2 DEF Good
  <2>7. Quiet(s, Enqueued) /\ TakenTo(s)
        BY <2>1, <2>6 DEF Stage
  <2>8. TakenTo(s)' /\ Quiet(s, Enqueued)'
        BY <2>7 DEF TakenTo, Quiet, Linked, Enqueued
  <2>9. WorkerStage(w, s)'
        BY <1>3, <2>8 DEF WorkerStage
  <2>10. Stage(s)'
        BY <2>3, <2>8, <2>9 DEF Stage
  <2>.  QED BY <1>3, <1>4, <2>2, <2>4, <2>5, <2>10 DEF PoolInv, Good
<1>. QED BY <1>5, <1>6

\* pthread_mutex_lock, of a worker's first round or after a wait.
LEMMA InvLock ==
    ASSUME PoolInv, NEW w \in Workers, Lock(w)
    PROVE  PoolInv'
<1>1. Shapes /\ again \in BOOLEAN
      BY DEF PoolInv, Typed, Shapes
<1>2. PICK x \in WorkerState :
        worker' = [worker EXCEPT ![w] = x] /\ worker[w].pc = "lock" /\ x.pc = "isempty"
      BY <1>1, GotoIs DEF Lock
<1>3. again \/ ~overlapped'
      BY <1>1 DEF PoolInv, FirstRound, Lock, Enter
<1>4. UNCHANGED <<queue, boss, takenBy, dead>> /\ Enter /\ locked' = TRUE /\ again' = again
      BY DEF Lock
<1>. QED BY <1>1, <1>2, <1>3, <1>4, InvEnters

\* The loop goes round without the lock.
LEMMA InvHandlerPerform ==
    ASSUME PoolInv, NEW w \in Workers, HandlerPerform(w)
    PROVE  PoolInv'
<1>1. Shapes /\ locked \in BOOLEAN
      BY DEF PoolInv, Typed, Shapes
<1>2. PICK x \in WorkerState :
        worker' = [worker EXCEPT ![w] = x] /\ worker[w].pc = "perform" /\ x.pc = "isempty"
      BY <1>1, GotoIs DEF HandlerPerform
<1>3. UNCHANGED <<queue, boss, takenBy, dead>> /\ Enter /\ locked' = locked /\ again' = TRUE
      BY DEF HandlerPerform
<1>. QED BY <1>1, <1>2, <1>3, InvEnters

\* A worker wakes up.
LEMMA Woken ==
    ASSUME NEW w \in Waiting, Waiting' = Waiting \ {w}
    PROVE  /\ Cardinality(Workers \ Waiting) \in Nat
           /\ Cardinality(Workers \ Waiting') = Cardinality(Workers \ Waiting) + 1
<1>1. IsFiniteSet(Workers \ Waiting) /\ w \notin Workers \ Waiting
      BY WorkersAssumption, FS_Subset
<1>2. Workers \ Waiting' = (Workers \ Waiting) \cup {w}
      BY DEF Waiting
<1>. QED BY <1>1, <1>2, FS_AddElement, FS_CardinalityType

LEMMA InvSpuriousWakeup ==
    ASSUME PoolInv, NEW w \in Workers, SpuriousWakeup(w)
    PROVE  PoolInv'
<1>1. /\ Shapes /\ Typed /\ UNCHANGED <<locked, queue, boss, takenBy, flags>>
      /\ queue.N \in Int
      BY FieldsAre DEF PoolInv, Typed, SpuriousWakeup
<1>2. PICK x \in WorkerState :
        worker' = [worker EXCEPT ![w] = x] /\ worker[w].pc = "wait" /\ x.pc = "lock"
      BY <1>1, GotoIs DEF SpuriousWakeup
<1>3. /\ Typed' /\ worker'[w] = x
      /\ \A v \in Workers \ {w} : worker'[v] = worker[v]
  <2>1. /\ queue' \in QueueState /\ locked' \in BOOLEAN /\ dead' \in BOOLEAN
        /\ again' \in BOOLEAN /\ overlapped' \in BOOLEAN
        /\ takenBy' \in [Requests -> SUBSET Workers]
        BY <1>1 DEF Shapes, flags
  <2>.  QED BY <1>1, <1>2, <2>1, WorkerTyped
<1>4. /\ \A v \in Workers : Inside(v)' = Inside(v)
      /\ BossInside' = BossInside /\ Enqueued' = Enqueued
      BY <1>1, <1>2, <1>3 DEF Inside, BossInside, Enqueued
<1>5. FirstRound'
      BY <1>1, <1>4 DEF PoolInv, FirstRound, flags
<1>6. ASSUME Good PROVE Good'
  <2>1. WaitInv'
    <3>1. w \in Waiting /\ Waiting' = Waiting \ {w}
          BY <1>2, <1>3 DEF Waiting
    <3>2. /\ Cardinality(Workers \ Waiting) \in Nat
          /\ Cardinality(Workers \ Waiting') = Cardinality(Workers \ Waiting) + 1
          BY <3>1, Woken
    <3>3. queue.N <= Cardinality(Workers \ Waiting) + (IF boss.pc = "signal" THEN 1 ELSE 0)
          BY <1>6, <3>1 DEF Good, WaitInv
    <3>.  QED BY <1>1, <3>2, <3>3 DEF WaitInv
  <2>2. OneInside'
        BY <1>4, <1>6 DEF Good, OneInside
  <2>3. PICK s \in Links : Stage(s)
        BY <1>6 DEF Good
  <2>4. TakenTo(s)' /\ BossStage(s)' = BossStage(s) /\ Quiet(s, Enqueued)' = Quiet(s, Enqueued)
        BY <1>1, <1>4, <2>3 DEF Stage, TakenTo, BossStage, Quiet, Linked
  <2>5. ASSUME NEW v \in Workers, Inside(v) PROVE WorkerStage(v, s)'
    <3>1. WorkerStage(v, s) /\ worker'[v] = worker[v]
          BY <1>2, <1>3, <2>3, <2>5 DEF Stage, Inside
    <3>.  QED BY <1>1, <1>4, <3>1 DEF WorkerStage, Quiet, Linked
  <2>6. Stage(s)'
        BY <1>1, <1>4, <2>3, <2>4, <2>5 DEF Stage
  <2>.  QED BY <1>1, <1>6, <2>1, <2>2, <2>6 DEF Good, flags
<1>. QED BY <1>1, <1>3, <1>5, <1>6 DEF PoolInv, flags

-----------------------------------------------------------------------------
(***************************************************************************)
(* Steps of the boss.                                                      *)
(***************************************************************************)
\* A request arrives.
LEMMA InvHandlerGet ==
    ASSUME PoolInv, HandlerGet
    PROVE  PoolInv'
<1>1. /\ Shapes /\ Typed /\ UNCHANGED <<locked, queue, worker, takenBy, flags>>
      /\ boss.arrived \in Links /\ MaxRequests \in Nat /\ boss \in BossState
      /\ boss.pc = "serve" /\ boss.arrived < MaxRequests
      BY FieldsAre DEF PoolInv, Typed, HandlerGet, Shapes
<1>2. /\ boss' \in BossState /\ boss'.pc = "lock" /\ boss'.arrived = boss.arrived + 1
      /\ boss'.arrived # 0
  <2>1. boss.arrived + 1 \in Links /\ boss.arrived + 1 # 0
        BY <1>1 DEF Links
  <2>2. boss' = [boss EXCEPT !.pc = "lock", !.arrived = boss.arrived + 1]
        BY DEF HandlerGet
  <2>.  QED BY <1>1, <2>1, <2>2 DEF BossState
<1>3. Typed'
  <2>1. Shapes'
        BY <1>1, <1>2 DEF Shapes, flags
  <2>.  QED BY <1>1, <1>2, <2>1 DEF Typed
<1>4. /\ \A v \in Workers : Inside(v)' = Inside(v)
      /\ ~BossInside' /\ ~BossInside /\ Enqueued' = Enqueued
  <2>1. boss'.arrived - 1 = boss.arrived
        BY <1>1, <1>2 DEF Links
  <2>.  QED BY <1>1, <1>2, <2>1 DEF Inside, BossInside, Enqueued
<1>5. FirstRound'
      BY <1>1, <1>4 DEF PoolInv, FirstRound, flags
<1>6. ASSUME Good PROVE Good'
  <2>1. WaitInv' /\ OneInside'
        BY <1>1, <1>2, <1>4, <1>6 DEF Good, OneInside, WaitInv, Waiting
  <2>2. PICK s \in Links : Stage(s)
        BY <1>6 DEF Good
  <2>3. TakenTo(s)'
        BY <1>1, <1>2, <2>2 DEF Stage, TakenTo, Links
  <2>4. Quiet(s, Enqueued)' = Quiet(s, Enqueued)
        BY <1>1, <1>4 DEF Quiet, Linked
  <2>5. ASSUME NEW v \in Workers, Inside(v) PROVE WorkerStage(v, s)'
        BY <1>1, <1>4, <2>2, <2>5 DEF WorkerStage, Quiet, Linked, Stage
  <2>6. Stage(s)'
        BY <1>4, <2>2, <2>3, <2>4, <2>5 DEF Stage
  <2>.  QED BY <1>1, <1>6, <2>1, <2>6 DEF Good, flags
<1>. QED BY <1>1, <1>3, <1>5, <1>6 DEF PoolInv, flags

\* Moves of the boss.
LEMMA BossGotoIs ==
    ASSUME Shapes, NEW from,
           NEW to \in {"serve", "test", "first", "link", "set_back", "count", "unlock"},
           BossGoto(from, to)
    PROVE  /\ boss' \in BossState /\ boss.pc = from /\ boss'.pc = to
           /\ boss'.arrived = boss.arrived /\ boss'.n = boss.n
BY DEF BossGoto, Shapes, BossState

\* The boss enters the critical section.
LEMMA InvBossLock ==
    ASSUME PoolInv, BossLock
    PROVE  PoolInv'
<1>1. /\ Shapes /\ Typed /\ UNCHANGED <<queue, worker, takenBy, dead, again>>
      /\ locked' = TRUE /\ ~locked /\ Enter
      /\ boss.arrived \in Links /\ Links \subseteq Int
      BY FieldsAre DEF PoolInv, Typed, BossLock, BossMayLock
<1>2. /\ boss' \in BossState /\ boss.pc = "lock" /\ boss'.pc = "test"
      /\ boss'.arrived = boss.arrived
      BY <1>1, BossGotoIs DEF BossLock
<1>3. Typed'
  <2>1. Shapes'
        BY <1>1, <1>2 DEF Shapes, Enter
  <2>.  QED BY <1>1, <1>2, <2>1 DEF Typed
<1>4. \A v \in Workers : Inside(v)' = Inside(v)
      BY <1>1 DEF Inside
<1>5. again \/ ~overlapped'
      BY <1>1 DEF PoolInv, FirstRound, Enter, Shapes
<1>6. FirstRound'
      BY <1>1, <1>5 DEF FirstRound
<1>7. CASE overlapped'
      BY <1>3, <1>6, <1>7 DEF PoolInv
<1>8. CASE ~overlapped'
  <2>1. ~overlapped /\ ~BossInside /\ \A v \in Workers : ~Inside(v)
        BY <1>1, <1>8 DEF Enter, Shapes
  <2>2. Good
        BY <2>1 DEF PoolInv
  <2>3. BossInside' /\ OneInside'
        BY <1>2, <1>4, <2>1 DEF BossInside, OneInside
  <2>4. WaitInv'
        BY <1>1, <1>2, <2>2 DEF Good, WaitInv, Waiting
  <2>5. PICK s \in Links : Stage(s)
        BY <2>2 DEF Good
  <2>6. Quiet(s, boss.arrived - 1) /\ TakenTo(s) /\ s \in Int /\ boss.arrived \in Int
        BY <1>1, <1>2, <2>1, <2>5 DEF Stage, Enqueued
  <2>7. s < boss.arrived
        BY <2>6 DEF Quiet
  <2>8. TakenTo(s)'
        BY <1>1, <1>2, <2>6 DEF TakenTo
  <2>9. BossStage(s)'
        BY <1>1, <1>2, <2>6, <2>7 DEF BossStage, Quiet, Linked
  <2>10. Stage(s)'
        BY <1>2, <1>4, <2>1, <2>3, <2>8, <2>9 DEF Stage
  <2>.  QED BY <1>1, <1>3, <1>6, <2>2, <2>3, <2>4, <2>10 DEF PoolInv, Good
<1>. QED BY <1>7, <1>8

\* What is known while only the boss is inside.
LEMMA BossOnly ==
    ASSUME PoolInv, ~overlapped, BossInside, boss.pc # "unlock"
    PROVE  /\ WaitInv /\ ~dead /\ OneInside /\ \A v \in Workers : ~Inside(v)
           /\ \E s \in Links : TakenTo(s) /\ BossStage(s)
BY DEF PoolInv, Good, OneInside, Stage

\* A step of steque_enqueue, given what it does to the list.
LEMMA InvBossStep ==
    ASSUME PoolInv, BossInside, boss.pc \notin {"signal", "unlock"}, boss' \in BossState,
           boss'.pc \in {"first", "link", "set_back", "count", "set_count", "signal"},
           boss'.arrived = boss.arrived, queue' \in QueueState, queue'.freed = queue.freed,
           UNCHANGED <<locked, worker, takenBy, flags>>,
           ASSUME NEW s \in Links, ~overlapped, TakenTo(s), BossStage(s)
           PROVE  /\ BossStage(s)'
                  /\ queue'.N <= queue.N \/ (boss'.pc = "signal" /\ queue'.N <= queue.N + 1)
    PROVE  PoolInv'
<1>1. Shapes /\ Typed /\ queue.N \in Int
      BY FieldsAre DEF PoolInv, Typed
<1>2. Typed'
  <2>1. Shapes'
        BY <1>1 DEF Shapes, flags
  <2>2. boss'.arrived # 0
        BY <1>1 DEF Typed, BossInside
  <2>.  QED BY <1>1, <2>1, <2>2 DEF Typed
<1>3. (\A v \in Workers : Inside(v)' = Inside(v)) /\ BossInside'
      BY DEF Inside, BossInside
<1>4. FirstRound'
      BY <1>3 DEF PoolInv, FirstRound, flags
<1>5. ASSUME ~overlapped PROVE Good'
  <2>1. /\ WaitInv /\ ~dead /\ OneInside /\ \A v \in Workers : ~Inside(v)
        BY <1>5, BossOnly
  <2>2. PICK s \in Links : TakenTo(s) /\ BossStage(s)
        BY <1>5, BossOnly
  <2>3. /\ BossStage(s)'
        /\ queue'.N <= queue.N \/ (boss'.pc = "signal" /\ queue'.N <= queue.N + 1)
        BY <1>5, <2>2
  <2>4. TakenTo(s)'
        BY <2>2 DEF TakenTo
  <2>5. Stage(s)'
        BY <1>3, <2>1, <2>3, <2>4 DEF Stage
  <2>6. WaitInv'
    <3>1. Waiting' = Waiting
          BY DEF Waiting
    <3>2. Cardinality(Workers \ Waiting) \in Nat
          BY WorkersAssumption, FS_Subset, FS_CardinalityType
    <3>3. Waiting # {} => queue.N <= Cardinality(Workers \ Waiting)
          BY <1>1, <2>1, <3>2 DEF WaitInv
    <3>4. queue'.N \in Int
          BY DEF QueueState
    <3>.  QED BY <1>1, <2>3, <3>1, <3>2, <3>3, <3>4 DEF WaitInv
  <2>7. OneInside' /\ ~dead'
        BY <1>3, <2>1 DEF OneInside, flags
  <2>.  QED BY <2>5, <2>6, <2>7 DEF Good
<1>. QED BY <1>2, <1>4, <1>5 DEF PoolInv, flags

\* steque_enqueue
LEMMA InvEnqueue ==
    ASSUME PoolInv, Enqueue
    PROVE  PoolInv'
<1>1. /\ Shapes /\ UNCHANGED <<locked, worker, takenBy, flags>>
      /\ queue \in QueueState /\ boss \in BossState
      /\ queue.N \in Int /\ queue.back \in Links /\ boss.arrived \in Links /\ boss.n \in Int
      /\ Links \subseteq Int /\ MaxRequests \in Nat /\ Null = 0 /\ Requests = Links \ {Null}
      /\ queue.next \in [Requests -> Links]
      BY FieldsAre DEF PoolInv, Typed, Enqueue, Shapes
<1>2. \A s \in Links : TakenTo(s) => s \in Int /\ 0 <= s /\ s <= boss.arrived
      BY <1>1 DEF TakenTo, Links
<1>3. CASE BossGoto("test", IF queue.back = Null THEN "first" ELSE "link") /\ UNCHANGED queue
  <2>1. PICK to \in {"first", "link"} : to = IF queue.back = Null THEN "first" ELSE "link"
        OBVIOUS
  <2>2. /\ boss' \in BossState /\ boss.pc = "test" /\ boss'.pc = to
        /\ boss'.arrived = boss.arrived
        BY <1>1, <1>3, <2>1, BossGotoIs
  <2>3. ASSUME NEW s \in Links, TakenTo(s), BossStage(s)
        PROVE  BossStage(s)' /\ queue'.N <= queue.N
    <3>1. Quiet(s, boss.arrived - 1) /\ s < boss.arrived
          BY <2>2, <2>3 DEF BossStage
    <3>2. IF queue.back = Null THEN s = boss.arrived - 1 ELSE s < boss.arrived - 1
          BY <1>1, <1>2, <2>3, <3>1 DEF Quiet, Last
    <3>3. BossStage(s)'
          BY <1>3, <2>1, <2>2, <3>1, <3>2 DEF BossStage, Quiet, Linked
    <3>.  QED BY <1>1, <1>3, <3>3
  <2>.  QED BY <1>1, <1>3, <2>2, <2>3, InvBossStep DEF BossInside
<1>4. CASE BossGoto("first", "set_back") /\ queue' = [queue EXCEPT !.front = boss.arrived]
  <2>1. /\ boss' \in BossState /\ boss.pc = "first" /\ boss'.pc = "set_back"
        /\ boss'.arrived = boss.arrived
        BY <1>1, <1>4, BossGotoIs
  <2>2. /\ queue' \in QueueState /\ queue'.front = boss.arrived /\ queue'.back = queue.back
        /\ queue'.N = queue.N /\ queue'.next = queue.next /\ queue'.freed = queue.freed
        BY <1>1, <1>4, QueueUpdates DEF QueueState
  <2>3. ASSUME NEW s \in Links, TakenTo(s), BossStage(s)
        PROVE  BossStage(s)' /\ queue'.N <= queue.N
    <3>1. Quiet(s, boss.arrived - 1) /\ s = boss.arrived - 1
          BY <2>1, <2>3 DEF BossStage
    <3>2. s < boss.arrived /\ boss.arrived = First(s, boss.arrived)
          BY <1>1, <1>2, <2>3, <3>1 DEF First
    <3>3. \A q \in Requests : /\ ~(s < q /\ q < boss.arrived)
                              /\ q >= boss.arrived => q >= boss.arrived - 1
      <4>1. \A q \in Requests : q \in Int
            BY <1>1
      <4>2. s \in Int /\ boss.arrived \in Int /\ s = boss.arrived - 1
            BY <1>1, <1>2, <2>3, <3>1
      <4>.  QED BY <4>1, <4>2
    <3>4. \A q \in Requests : q >= boss.arrived => queue.next[q] = Null
          BY <3>1, <3>3 DEF Quiet, Linked
    <3>5. queue.N = boss.arrived - 1 - s
          BY <3>1 DEF Quiet
    <3>6. BossStage(s)'
          BY <2>1, <2>2, <3>2, <3>3, <3>4, <3>5 DEF BossStage, Linked
    <3>.  QED BY <1>1, <2>2, <3>6
  <2>.  QED BY <1>1, <2>1, <2>2, <2>3, InvBossStep DEF BossInside
<1>5. CASE /\ queue.back \notin queue.freed \cup {Null} /\ BossGoto("link", "set_back")
           /\ queue' = [queue EXCEPT !.next[queue.back] = boss.arrived]
  <2>1. /\ boss' \in BossState /\ boss.pc = "link" /\ boss'.pc = "set_back"
        /\ boss'.arrived = boss.arrived
        BY <1>1, <1>5, BossGotoIs
  <2>2. PICK b \in Requests : b = queue.back
        BY <1>1, <1>5
  <2>3. /\ queue' \in QueueState /\ queue'.front = queue.front
        /\ queue'.N = queue.N /\ queue'.freed = queue.freed
        /\ queue'.next[b] = boss.arrived
        /\ \A q \in Requests \ {b} : queue'.next[q] = queue.next[q]
        BY <1>1, <1>5, <2>2, QueueUpdates DEF QueueState
  <2>4. ASSUME NEW s \in Links, TakenTo(s), BossStage(s)
        PROVE  BossStage(s)' /\ queue'.N <= queue.N
    <3>1. Quiet(s, boss.arrived - 1) /\ s < boss.arrived - 1
          BY <2>1, <2>4 DEF BossStage
    <3>2. b = boss.arrived - 1 /\ s < boss.arrived /\ s \in Int /\ boss.arrived \in Int
          BY <1>1, <1>2, <2>2, <2>4, <3>1 DEF Quiet, Last
    <3>3. queue.front = First(s, boss.arrived)
          BY <3>1, <3>2 DEF Quiet, First
    <3>4. ASSUME NEW q \in Requests
          PROVE  /\ s < q /\ q < boss.arrived => queue'.next[q] = q + 1
                 /\ q >= boss.arrived => queue'.next[q] = Null
      <4>1. q \in Int
            BY <1>1
      <4>2. CASE q = b
            BY <2>3, <3>2, <4>1, <4>2
      <4>3. CASE q # b
            BY <2>3, <3>1, <3>2, <4>1, <4>3 DEF Quiet, Linked
      <4>.  QED BY <4>2, <4>3
    <3>5. queue.N = boss.arrived - 1 - s
          BY <3>1 DEF Quiet
    <3>6. BossStage(s)'
          BY <2>1, <2>3, <3>2, <3>3, <3>4, <3>5 DEF BossStage, Linked
    <3>.  QED BY <1>1, <2>3, <3>6
  <2>.  QED BY <1>1, <2>1, <2>3, <2>4, InvBossStep DEF BossInside
<1>6. CASE BossGoto("set_back", "count") /\ queue' = [queue EXCEPT !.back = boss.arrived]
  <2>1. /\ boss' \in BossState /\ boss.pc = "set_back" /\ boss'.pc = "count"
        /\ boss'.arrived = boss.arrived
        BY <1>1, <1>6, BossGotoIs
  <2>2. /\ queue' \in QueueState /\ queue'.front = queue.front /\ queue'.back = boss.arrived
        /\ queue'.N = queue.N /\ queue'.next = queue.next /\ queue'.freed = queue.freed
        BY <1>1, <1>6, QueueUpdates DEF QueueState
  <2>3. ASSUME NEW s \in Links, TakenTo(s), BossStage(s)
        PROVE  BossStage(s)' /\ queue'.N <= queue.N
    <3>1. BossStage(s)'
          BY <2>1, <2>2, <2>3 DEF BossStage, Linked
    <3>.  QED BY <1>1, <2>2, <3>1
  <2>.  QED BY <1>1, <2>1, <2>2, <2>3, InvBossStep DEF BossInside
<1>7. CASE /\ boss.pc = "count" /\ boss' = [boss EXCEPT !.pc = "set_count", !.n = queue.N]
           /\ UNCHANGED queue
  <2>1. /\ boss' \in BossState /\ boss'.pc = "set_count" /\ boss'.n = queue.N
        /\ boss'.arrived = boss.arrived
        BY <1>1, <1>7 DEF BossState
  <2>2. ASSUME NEW s \in Links, TakenTo(s), BossStage(s)
        PROVE  BossStage(s)' /\ queue'.N <= queue.N
    <3>1. BossStage(s)'
          BY <1>7, <2>1, <2>2 DEF BossStage, Linked
    <3>.  QED BY <1>1, <1>7, <3>1
  <2>.  QED BY <1>1, <1>7, <2>1, <2>2, InvBossStep DEF BossInside
<1>8. CASE /\ boss.pc = "set_count" /\ boss' = [boss EXCEPT !.pc = "signal", !.n = 0]
           /\ queue' = [queue EXCEPT !.N = boss.n + 1]
  <2>1. /\ boss' \in BossState /\ boss'.pc = "signal" /\ boss'.arrived = boss.arrived
    <3>1. boss' = [boss EXCEPT !.pc = "signal", !.n = 0]
          BY <1>8
    <3>2. boss \in BossState /\ 0 \in Int
          BY <1>1
    <3>.  QED BY <3>1, <3>2 DEF BossState
  <2>2. PICK m \in Int : m = boss.n + 1
        BY <1>1
  <2>3. /\ queue' \in QueueState /\ queue'.front = queue.front /\ queue'.back = queue.back
        /\ queue'.N = m /\ queue'.next = queue.next /\ queue'.freed = queue.freed
        BY <1>1, <1>8, <2>2, QueueUpdates DEF QueueState
  <2>4. ASSUME NEW s \in Links, TakenTo(s), BossStage(s)
        PROVE  BossStage(s)' /\ queue'.N <= queue.N + 1
    <3>1. /\ queue.front = First(s, boss.arrived) /\ Linked(s, boss.arrived)
          /\ queue.N = boss.arrived - 1 - s /\ queue.back = boss.arrived
          /\ boss.n = queue.N /\ s < boss.arrived
          BY <1>8, <2>4 DEF BossStage
    <3>2. queue.back = Last(s, boss.arrived) /\ m = boss.arrived - s /\ s <= boss.arrived
          BY <1>1, <1>2, <2>2, <2>4, <3>1 DEF Last
    <3>3. BossStage(s)'
          BY <2>1, <2>3, <3>1, <3>2 DEF BossStage, Quiet, Linked
    <3>.  QED BY <1>1, <2>2, <2>3, <3>1, <3>3
  <2>.  QED BY <1>1, <1>8, <2>1, <2>3, <2>4, InvBossStep DEF BossInside
<1>. QED BY <1>3, <1>4, <1>5, <1>6, <1>7, <1>8 DEF Enqueue

\* The last node is there, unless two threads were inside.
LEMMA InvEnqueueDies ==
    ASSUME PoolInv, EnqueueDies
    PROVE  PoolInv'
<1>1. /\ Shapes /\ UNCHANGED <<locked, queue, boss, worker, takenBy, again, overlapped>>
      /\ dead' = TRUE
      /\ boss.pc = "link" /\ queue.back \in queue.freed \cup {Null}
      BY DEF PoolInv, Typed, EnqueueDies, Dies
<1>2. ASSUME ~overlapped PROVE FALSE
  <2>1. PICK s \in Links : TakenTo(s) /\ BossStage(s)
        BY <1>1, <1>2, BossOnly DEF BossInside
  <2>2. s \in Int /\ 0 <= s /\ boss.arrived \in Int /\ Null = 0
        BY <1>1, FieldsAre DEF Links
  <2>3. queue.back = boss.arrived - 1 /\ s < boss.arrived - 1
        BY <1>1, <2>1 DEF BossStage, Quiet, Last
  <2>.  QED BY <1>1, <2>1, <2>2, <2>3 DEF TakenTo
<1>3. Typed' /\ FirstRound'
  <2>1. Typed'
        BY <1>1 DEF PoolInv, Typed, Shapes
  <2>2. FirstRound'
        BY <1>1 DEF PoolInv, FirstRound, BossInside, Inside
  <2>.  QED BY <2>1, <2>2
<1>. QED BY <1>1, <1>2, <1>3 DEF PoolInv

\* pthread_cond_signal: the worker it wakes up accounts for the new request.
LEMMA InvSignal ==
    ASSUME PoolInv, Signal
    PROVE  PoolInv'
<1>1. /\ Shapes /\ Typed /\ UNCHANGED <<locked, queue, takenBy, flags>>
      /\ queue.N \in Int
      BY FieldsAre DEF PoolInv, Typed, Signal
<1>2. /\ boss' \in BossState /\ boss.pc = "signal" /\ boss'.pc = "unlock"
      /\ boss'.arrived = boss.arrived
      BY <1>1, BossGotoIs DEF Signal
<1>3. \/ Waiting = {} /\ worker' = worker
      \/ \E v \in Waiting : worker' = [worker EXCEPT ![v].pc = "lock"]
      BY DEF Signal, Signalled, Waiting
<1>4. /\ worker' \in [Workers -> WorkerState]
      /\ \A v \in Workers : /\ worker'[v] = worker[v]
                               \/ (worker[v].pc = "wait" /\ worker'[v].pc = "lock")
      /\ \/ Waiting = {} /\ Waiting' = {}
         \/ \E v \in Waiting : Waiting' = Waiting \ {v}
  <2>1. CASE Waiting = {} /\ worker' = worker
        BY <1>1, <2>1 DEF Shapes, Waiting
  <2>2. ASSUME NEW v \in Waiting, worker' = [worker EXCEPT ![v].pc = "lock"]
        PROVE  /\ worker' \in [Workers -> WorkerState]
               /\ worker[v].pc = "wait" /\ worker'[v].pc = "lock"
               /\ \A u \in Workers \ {v} : worker'[u] = worker[u]
               /\ Waiting' = Waiting \ {v}
    <3>1. /\ worker \in [Workers -> WorkerState] /\ v \in Workers /\ worker[v].pc = "wait"
          /\ worker[v] \in WorkerState
          BY <1>1 DEF Shapes, Waiting
    <3>2. [worker[v] EXCEPT !.pc = "lock"] \in WorkerState
          BY <3>1 DEF WorkerState
    <3>3. /\ worker' \in [Workers -> WorkerState]
          /\ worker'[v] = [worker[v] EXCEPT !.pc = "lock"]
          /\ \A u \in Workers \ {v} : worker'[u] = worker[u]
          BY <2>2, <3>1, <3>2
    <3>4. worker'[v].pc = "lock"
          BY <3>1, <3>3 DEF WorkerState
    <3>5. Waiting' = Waiting \ {v}
          BY <3>1, <3>3, <3>4 DEF Waiting
    <3>.  QED BY <3>1, <3>3, <3>4, <3>5
  <2>.  QED BY <1>3, <2>1, <2>2
<1>5. Typed'
  <2>1. Shapes'
        BY <1>1, <1>2, <1>4 DEF Shapes, flags
  <2>2. boss'.arrived # 0
        BY <1>1, <1>2 DEF Typed
  <2>.  QED BY <1>1, <1>2, <1>4, <2>1, <2>2 DEF Typed
<1>6. /\ \A v \in Workers : Inside(v)' = Inside(v)
      /\ BossInside' /\ BossInside /\ Enqueued' = boss.arrived
      BY <1>2, <1>4 DEF Inside, BossInside, Enqueued
<1>7. FirstRound'
      BY <1>1, <1>6 DEF PoolInv, FirstRound, flags
<1>8. ASSUME ~overlapped PROVE Good'
  <2>1. WaitInv /\ ~dead /\ OneInside /\ \A v \in Workers : ~Inside(v)
        BY <1>2, <1>6, <1>8, BossOnly
  <2>2. PICK s \in Links : TakenTo(s) /\ BossStage(s)
        BY <1>2, <1>6, <1>8, BossOnly
  <2>3. TakenTo(s)'
        BY <1>1, <1>2, <2>2 DEF TakenTo
  <2>4. Quiet(s, Enqueued)'
        BY <1>1, <1>2, <1>6, <2>2 DEF BossStage, Quiet, Linked
  <2>5. Stage(s)'
        BY <1>2, <1>6, <2>1, <2>3, <2>4 DEF Stage
  <2>6. WaitInv'
    <3>1. CASE Waiting' = {}
          BY <3>1 DEF WaitInv
    <3>2. ASSUME NEW v \in Waiting, Waiting' = Waiting \ {v}
          PROVE  WaitInv'
      <4>1. /\ Cardinality(Workers \ Waiting) \in Nat
            /\ Cardinality(Workers \ Waiting') = Cardinality(Workers \ Waiting) + 1
            BY <3>2, Woken
      <4>2. queue.N <= Cardinality(Workers \ Waiting) + 1
            BY <1>2, <2>1 DEF WaitInv
      <4>.  QED BY <1>1, <1>2, <4>1, <4>2 DEF WaitInv
    <3>.  QED BY <1>4, <3>1, <3>2
  <2>7. OneInside' /\ ~dead'
        BY <1>1, <1>6, <2>1 DEF OneInside, flags
  <2>.  QED BY <2>5, <2>6, <2>7 DEF Good
<1>. QED BY <1>1, <1>5, <1>7, <1>8 DEF PoolInv, flags

\* The boss leaves.
LEMMA InvBossUnlock ==
    ASSUME PoolInv, BossUnlock
    PROVE  PoolInv'
<1>1. /\ Shapes /\ Typed /\ UNCHANGED <<queue, worker, takenBy, flags>> /\ locked' = FALSE
      BY DEF PoolInv, Typed, BossUnlock
<1>2. /\ boss' \in BossState /\ boss.pc = "unlock" /\ boss'.pc = "serve"
      /\ boss'.arrived = boss.arrived
      BY <1>1, BossGotoIs DEF BossUnlock
<1>3. Typed'
  <2>1. Shapes'
        BY <1>1, <1>2 DEF Shapes, flags
  <2>.  QED BY <1>1, <1>2, <2>1 DEF Typed
<1>4. /\ \A v \in Workers : Inside(v)' = Inside(v)
      /\ BossInside /\ ~BossInside' /\ Enqueued' = Enqueued
      BY <1>1, <1>2 DEF Inside, BossInside, Enqueued
<1>5. ASSUME ~overlapped PROVE Good' /\ \A v \in Workers : ~Inside(v)'
  <2>1. Good /\ \A v \in Workers : ~Inside(v)
        BY <1>4, <1>5 DEF PoolInv, Good, OneInside
  <2>2. WaitInv' /\ OneInside' /\ ~dead'
        BY <1>1, <1>2, <1>4, <2>1 DEF Good, WaitInv, Waiting, OneInside, flags
  <2>3. PICK s \in Links : Stage(s)
        BY <2>1 DEF Good
  <2>4. TakenTo(s) /\ Quiet(s, Enqueued)
        BY <1>2, <2>1, <2>3 DEF Stage
  <2>5. TakenTo(s)' /\ Quiet(s, Enqueued)'
        BY <1>1, <1>2, <1>4, <2>4 DEF TakenTo, Quiet, Linked
  <2>6. Stage(s)'
        BY <1>4, <2>1, <2>5 DEF Stage
  <2>.  QED BY <1>4, <2>1, <2>2, <2>6 DEF Good
<1>6. FirstRound'
      BY <1>1, <1>4, <1>5 DEF PoolInv, FirstRound, flags
<1>. QED BY <1>1, <1>3, <1>5, <1>6 DEF PoolInv, flags

-----------------------------------------------------------------------------
(***************************************************************************)
(* The invariant holds.                                                    *)
(***************************************************************************)
LEMMA PoolInvInit ==
    Init => PoolInv
<1> SUFFICES ASSUME Init PROVE PoolInv
    OBVIOUS
<1>1. MaxRequests \in Nat /\ 0 \in Links /\ Null = 0 /\ Null \in Links /\ Requests \subseteq Nat
      BY MaxRequestsAssumption DEF Links, Null, Requests
<1>2. Shapes
  <2>1. queue \in QueueState
        BY <1>1 DEF Init, QueueState
  <2>2. boss \in BossState
        BY <1>1 DEF Init, BossState
  <2>3. worker \in [Workers -> WorkerState]
        BY <1>1 DEF Init, WorkerState
  <2>4. takenBy \in [Requests -> SUBSET Workers]
        BY DEF Init
  <2>.  QED BY <2>1, <2>2, <2>3, <2>4 DEF Init, Shapes
<1>3. Typed
      BY <1>2 DEF Typed, Init
<1>4. ~BossInside /\ (\A w \in Workers : ~Inside(w)) /\ Waiting = {} /\ Enqueued = 0
      BY DEF Init, BossInside, Inside, Waiting, Enqueued
<1>5. FirstRound /\ OneInside /\ WaitInv
      BY <1>4 DEF FirstRound, OneInside, WaitInv, Init
<1>6. Quiet(0, 0)
      BY <1>1 DEF Quiet, First, Last, Linked, Init
<1>7. TakenTo(0)
      BY <1>1 DEF TakenTo, Init, Requests
<1>8. Stage(0)
      BY <1>4, <1>6, <1>7 DEF Stage
<1>. QED BY <1>1, <1>3, <1>5, <1>8 DEF PoolInv, Good, Init

LEMMA PoolInvStep ==
    ASSUME PoolInv, [Next]_vars
    PROVE  PoolInv'
<1>1. CASE BossStep
      BY <1>1, InvHandlerGet, InvBossLock, InvEnqueue, InvEnqueueDies, InvSignal, InvBossUnlock
      DEF BossStep
<1>2. ASSUME NEW w \in Workers, WorkerStep(w)
      PROVE  PoolInv'
      BY <1>2, InvLock, InvTestEmpty, InvCondWait, InvSpuriousWakeup, InvTakeItem,
         InvMoveFront, InvClearBack, InvFreeNode, InvBadNode, InvCountDown, InvUnlock,
         InvHandlerPerform
      DEF WorkerStep
<1>3. CASE UNCHANGED vars
  <2>1. /\ locked' = locked /\ queue' = queue /\ boss' = boss /\ worker' = worker
        /\ takenBy' = takenBy /\ dead' = dead /\ again' = again /\ overlapped' = overlapped
        BY <1>3 DEF vars, flags
  <2>2. /\ BossInside' = BossInside /\ \A w \in Workers : Inside(w)' = Inside(w)
        /\ Enqueued' = Enqueued /\ Waiting' = Waiting
        BY <2>1 DEF BossInside, Inside, Enqueued, Waiting
  <2>3. Typed' /\ FirstRound'
        BY <2>1, <2>2 DEF PoolInv, Typed, Shapes, FirstRound
  <2>4. ASSUME Good PROVE Good'
    <3>1. PICK s \in Links : Stage(s)
          BY <2>4 DEF Good
    <3>2. BossInside /\ boss.pc # "unlock" => BossStage(s)'
          BY <2>1, <3>1 DEF Stage, BossStage, Quiet, Linked
    <3>3. \A w \in Workers : Inside(w) => WorkerStage(w, s)'
          BY <2>1, <2>2, <3>1 DEF Stage, WorkerStage, Quiet, Linked
    <3>4. TakenTo(s)' /\ (Quiet(s, Enqueued) => Quiet(s, Enqueued)')
          BY <2>1, <2>2, <3>1 DEF Stage, TakenTo, Quiet, Linked
    <3>5. Stage(s)'
          BY <2>1, <2>2, <3>1, <3>2, <3>3, <3>4 DEF Stage
    <3>.  QED BY <2>1, <2>2, <2>4, <3>5 DEF Good, OneInside, WaitInv
  <2>.  QED BY <2>1, <2>3, <2>4 DEF PoolInv
<1>. QED BY <1>1, <1>2, <1>3 DEF Next

LEMMA PoolInvHolds ==
    Spec => []PoolInv
<1>1. Init => PoolInv
      BY PoolInvInit
<1>2. PoolInv /\ [Next]_vars => PoolInv'
      BY PoolInvStep
<1>. QED BY <1>1, <1>2, PTL DEF Spec

\* The mutex protects the first round of every worker: no two threads are in the
\* critical section before one has started its second round, which it does
\* without the lock (thread_main locks once, before its loop).
THEOREM MutexProtectsFirstRound ==
    Spec => []FirstRoundLocked
<1>1. PoolInv => FirstRoundLocked
      BY DEF PoolInv, Typed, Shapes, FirstRound, FirstRoundLocked
<1>. QED BY <1>1, PoolInvHolds, PTL

-----------------------------------------------------------------------------
(***************************************************************************)
(* What the invariant says of the list as it is read from its front.       *)
(***************************************************************************)
LEMMA LeastElement ==
    ASSUME NEW T \in SUBSET Nat, T # {}
    PROVE  \E n \in T : \A m \in T : n <= m
<1>1. PICK n \in T : \A m \in T : ~(<<m, n>> \in OpToRel(<, Nat))
      BY NatLessThanWellFounded, WFMin, Zenon
<1>2. \A m \in T : ~(m < n)
      BY <1>1 DEF OpToRel
<1>. QED BY <1>2

\* A set that has 0 and the successors of its members has every natural.
LEMMA SetInduction ==
    ASSUME NEW S, 0 \in S, \A n \in Nat : n \in S => n + 1 \in S
    PROVE  \A n \in Nat : n \in S
<1> DEFINE T == Nat \ S
<1> SUFFICES ASSUME T # {} PROVE FALSE
    OBVIOUS
<1>1. T \in SUBSET Nat
      OBVIOUS
<1> HIDE DEF T
<1>2. PICK n \in T : \A m \in T : n <= m
      BY <1>1, LeastElement
<1>3. n \in Nat /\ n \notin S
      BY <1>2 DEF T
<1>4. n # 0 /\ n - 1 \in Nat /\ n - 1 \in S
      BY <1>2, <1>3 DEF T
<1>. QED BY <1>3, <1>4

\* The k-th request of the list s+1 .. e: At's equation has a solution, so that At
\* is one, and all of its solutions agree.
LEMMA AtIs ==
    ASSUME Shapes, NEW s \in Links, NEW e \in Links, Quiet(s, e)
    PROVE  \A k \in 0 .. MaxRequests : At[k] = IF s + k < e THEN s + k + 1 ELSE Null
<1> DEFINE f == [k \in 0 .. MaxRequests |-> IF s + k < e THEN s + k + 1 ELSE Null]
           Step(g, k) == IF k = 0 THEN queue.front
                         ELSE IF g[k - 1] = Null THEN Null ELSE queue.next[g[k - 1]]
<1>1. /\ MaxRequests \in Nat /\ Null = 0 /\ Requests = Links \ {Null}
      /\ s \in Nat /\ e \in Nat /\ e <= MaxRequests /\ s <= e
      BY FieldsAre DEF Links, Quiet
<1>2. queue.front = First(s, e) /\ Linked(s, e)
      BY DEF Quiet
<1>3. ASSUME NEW k \in 0 .. MaxRequests, NEW g, k # 0 => g[k - 1] = f[k - 1]
      PROVE  Step(g, k) = f[k]
  <2>1. CASE k = 0
        BY <1>1, <1>2, <2>1 DEF First
  <2>2. CASE k # 0
    <3>1. k - 1 \in 0 .. MaxRequests /\ k \in Nat
          BY <1>1, <2>2
    <3>2. f[k - 1] = IF s + k <= e THEN s + k ELSE Null
          BY <1>1, <3>1
    <3>3. CASE s + k <= e
      <4>1. s + k \in Requests /\ s + k # Null /\ s < s + k
            BY <1>1, <2>2, <3>1, <3>3 DEF Links
      <4>2. queue.next[s + k] = IF s + k < e THEN s + k + 1 ELSE Null
            BY <1>1, <1>2, <3>1, <4>1 DEF Linked
      <4>3. g[k - 1] = s + k
            BY <1>3, <2>2, <3>2, <3>3
      <4>.  QED BY <2>2, <4>1, <4>2, <4>3
    <3>4. CASE ~(s + k <= e)
      <4>1. g[k - 1] = Null /\ f[k] = Null
            BY <1>1, <1>3, <2>2, <3>1, <3>2, <3>4
      <4>.  QED BY <2>2, <4>1
    <3>.  QED BY <3>3, <3>4
  <2>.  QED BY <2>1, <2>2
<1> HIDE DEF f, Step
<1>4. f = [k \in 0 .. MaxRequests |-> Step(f, k)]
  <2>1. f = [k \in 0 .. MaxRequests |-> f[k]]
        BY DEF f
  <2>2. \A k \in 0 .. MaxRequests : Step(f, k) = f[k]
        BY <1>3
  <2>.  QED BY <2>1, <2>2
<1>5. At = [k \in 0 .. MaxRequests |-> Step(At, k)]
  <2> DEFINE Solves(g) == g = [k \in 0 .. MaxRequests |-> Step(g, k)]
  <2>1. At = CHOOSE g : Solves(g)
        BY DEF At, Step
  <2>2. Solves(f)
        BY <1>4
  <2>.  HIDE DEF Solves
  <2>3. Solves(At)
        BY <2>1, <2>2
  <2>.  QED BY <2>3 DEF Solves
<1>6. \A k \in 0 .. MaxRequests : At[k] = Step(At, k)
      BY <1>5
<1> DEFINE S == {k \in Nat : k <= MaxRequests => At[k] = f[k]}
<1>7. 0 \in S
  <2>1. 0 \in 0 .. MaxRequests
        BY <1>1
  <2>2. At[0] = f[0]
        BY <1>3, <1>6, <2>1
  <2>.  QED BY <2>2
<1>8. ASSUME NEW k \in Nat, k \in S
      PROVE  k + 1 \in S
  <2>1. CASE k + 1 <= MaxRequests
    <3>1. k + 1 \in 0 .. MaxRequests /\ (k + 1) - 1 = k /\ k <= MaxRequests
          BY <1>1, <2>1
    <3>2. At[k] = f[k]
          BY <1>8, <3>1
    <3>3. Step(At, k + 1) = f[k + 1]
          BY <1>3, <3>1, <3>2
    <3>.  QED BY <1>6, <3>1, <3>3
  <2>2. CASE ~(k + 1 <= MaxRequests)
        BY <2>2
  <2>.  QED BY <2>1, <2>2
<1>9. \A k \in Nat : k \in S
  <2>.  HIDE DEF S
  <2>.  QED BY <1>7, <1>8, SetInduction
<1>10. \A k \in 0 .. MaxRequests : At[k] = f[k]
      BY <1>1, <1>9
<1>. QED BY <1>1, <1>10 DEF f

LEMMA SafetyFollows ==
    ASSUME PoolInv
    PROVE  SafeUnlessOverlapped
<1>1. TypeOK /\ Shapes /\ MaxRequests \in Nat /\ Null = 0 /\ Requests = Links \ {Null}
      /\ boss.arrived \in Links /\ queue.N \in Int
      BY ShapesSuffice, FieldsAre DEF PoolInv, Typed
<1>2. ASSUME ~overlapped
      PROVE  ~dead /\ QueueIntact /\ TakenOnce /\ WaitsOnlyWhenEmpty
  <2>1. Good
        BY <1>2 DEF PoolInv
  <2>2. PICK s \in Links : Stage(s)
        BY <2>1 DEF Good
  <2>3. TakenTo(s) /\ s \in Nat /\ s <= boss.arrived /\ boss.arrived \in Nat
        BY <1>1, <2>2 DEF Stage, TakenTo, Links
  <2>4. TakenOnce
    <3>1. ASSUME NEW q \in Requests PROVE Cardinality(takenBy[q]) <= 1
      <4>1. CASE q <= s
        <5>1. PICK w \in Workers : takenBy[q] = {w}
              BY <2>3, <4>1 DEF TakenTo
        <5>.  QED BY <5>1, FS_Singleton
      <4>2. CASE ~(q <= s)
        <5>1. takenBy[q] = {}
              BY <2>3, <4>2 DEF TakenTo
        <5>.  QED BY <5>1, FS_EmptySet
      <4>.  QED BY <4>1, <4>2
    <3>.  QED BY <3>1 DEF TakenOnce
  <2>5. WaitsOnlyWhenEmpty
    <3>1. Cardinality(Workers \ Waiting) \in Nat
          BY WorkersAssumption, FS_Subset, FS_CardinalityType
    <3>2. ~BossInside /\ Waiting # {} => queue.N <= Cardinality(Workers \ Waiting)
          BY <1>1, <2>1, <3>1 DEF Good, WaitInv, BossInside
    <3>.  QED BY <3>2 DEF WaitsOnlyWhenEmpty, Waiting
  <2>6. ASSUME ~BossInside, \A w \in Workers : ~Inside(w)
        PROVE  /\ queue.N \in 0 .. MaxRequests
               /\ \A k \in 0 .. queue.N - 1 : At[k] \in Requests /\ takenBy[At[k]] = {}
               /\ At[queue.N] = Null
               /\ queue.back = IF queue.N = 0 THEN Null ELSE At[queue.N - 1]
               /\ queue.N = Cardinality({q \in 1 .. boss.arrived : takenBy[q] = {}})
                            - (IF boss.pc = "lock" THEN 1 ELSE 0)
    <3>1. PICK e \in Links :
            /\ e = IF boss.pc = "lock" THEN boss.arrived - 1 ELSE boss.arrived
            /\ Quiet(s, e)
      <4>1. Quiet(s, Enqueued) /\ Enqueued \in Links
        <5>1. boss.pc = "lock" => boss.arrived # 0
              BY DEF PoolInv, Typed
        <5>.  QED BY <1>1, <2>2, <2>6, <5>1 DEF Stage, Enqueued, Links
      <4>.  QED BY <4>1 DEF Enqueued
    <3>2. queue.N = e - s /\ s <= e /\ queue.back = Last(s, e) /\ e \in Nat /\ e <= MaxRequests
          BY <1>1, <3>1 DEF Quiet, Links
    <3>3. \A k \in 0 .. MaxRequests : At[k] = IF s + k < e THEN s + k + 1 ELSE Null
          BY <1>1, <3>1, AtIs
    <3>4. queue.N \in 0 .. MaxRequests
          BY <1>1, <2>3, <3>2
    <3>5. ASSUME NEW k \in 0 .. queue.N - 1
          PROVE  At[k] \in Requests /\ takenBy[At[k]] = {}
      <4>1. k \in 0 .. MaxRequests /\ s + k < e /\ k \in Nat
            BY <1>1, <2>3, <3>2, <3>4
      <4>2. At[k] = s + k + 1
            BY <3>3, <4>1
      <4>3. s + k + 1 \in Requests /\ ~(s + k + 1 <= s)
            BY <1>1, <2>3, <3>2, <4>1 DEF Links
      <4>.  QED BY <2>3, <4>2, <4>3 DEF TakenTo
    <3>6. At[queue.N] = Null
      <4>1. s + queue.N = e
            BY <2>3, <3>2
      <4>.  QED BY <3>2, <3>3, <3>4, <4>1
    <3>7. queue.back = IF queue.N = 0 THEN Null ELSE At[queue.N - 1]
      <4>1. CASE queue.N = 0
            BY <2>3, <3>2, <4>1 DEF Last
      <4>2. CASE queue.N # 0
        <5>1. queue.N - 1 \in 0 .. MaxRequests /\ s + (queue.N - 1) + 1 = e /\ s < e
              BY <1>1, <2>3, <3>2, <3>4, <4>2
        <5>2. At[queue.N - 1] = e
              BY <2>3, <3>2, <3>3, <5>1
        <5>.  QED BY <3>2, <4>2, <5>1, <5>2 DEF Last
      <4>.  QED BY <4>1, <4>2
    <3>8. Cardinality({q \in 1 .. boss.arrived : takenBy[q] = {}}) = boss.arrived - s
      <4>1. {q \in 1 .. boss.arrived : takenBy[q] = {}} = s + 1 .. boss.arrived
        <5>1. \A q \in 1 .. boss.arrived : q \in Requests /\ q \in Nat
              BY <1>1 DEF Links
        <5>2. \A q \in 1 .. boss.arrived : takenBy[q] = {} <=> ~(q <= s)
              BY <2>3, <5>1 DEF TakenTo
        <5>.  QED BY <2>3, <5>2
      <4>2. Cardinality(s + 1 .. boss.arrived) = IF s + 1 > boss.arrived THEN 0
                                                 ELSE boss.arrived - (s + 1) + 1
        <5>1. s + 1 \in Int /\ boss.arrived \in Int
              BY <2>3
        <5>.  QED BY <5>1, FS_Interval
      <4>3. Cardinality(s + 1 .. boss.arrived) = boss.arrived - s
            BY <2>3, <4>2
      <4>.  QED BY <4>1, <4>3
    <3>9. queue.N = (boss.arrived - s) - (IF boss.pc = "lock" THEN 1 ELSE 0)
          BY <2>3, <3>1, <3>2
    <3>.  QED BY <3>4, <3>5, <3>6, <3>7, <3>8, <3>9
  <2>7. QueueIntact
        BY <2>6 DEF QueueIntact
  <2>.  QED BY <2>1, <2>4, <2>5, <2>7 DEF Good
<1>. QED BY <1>1, <1>2 DEF SafeUnlessOverlapped

\* As long as no two threads are in the critical section at once, every request is
\* dequeued once, the queue is a list of the requests that nobody has taken, its
\* length and last node are right, no freed node is used, and a worker sleeps only
\* if the others are awake for what is queued: steque.c and the signal of
\* handler_get are right under the mutex that thread_main fails to keep.
THEOREM PoolSafeUnlessOverlapped ==
    Spec => []SafeUnlessOverlapped
<1>1. PoolInv => SafeUnlessOverlapped
      BY SafetyFollows
<1>. QED BY <1>1, PoolInvHolds, PTL
=============================================================================
