--------------------------- MODULE MinifyPoolProofs ---------------------------
(***************************************************************************)
(* A program of MinifyPool that ends with success has done all of its      *)
(* list: for every list and every number of threads.                       *)
(***************************************************************************)
EXTENDS MinifyPool, TLAPS

-----------------------------------------------------------------------------
(***************************************************************************)
(* The invariant: where each request of the list is.                       *)
(***************************************************************************)
\* The requests taken from the queue are the first ones of the list.
Taken == Len(workload) - Len(queue)

QueueInv ==
    /\ Len(queue) <= Len(workload)
    /\ \A k \in DOMAIN queue : queue[k] = Taken + k

\* The output of request i is named once.
Alone(i) == \A j \in DOMAIN workload \ {i} : workload[j][2] # workload[i][2]

\* A worker has a request from Test to Done, the result for it from the reply on,
\* and what it has written is of that result.
WorkerInv(w) == LET r == worker[w] IN
    /\ r.pc \in {"none", "lock", "test", "left"} => r.request = None /\ r.reply = None
    /\ r.pc \in {"read", "call", "wait", "open", "write"} => r.request \in 1 .. Taken
    /\ r.pc \in {"read", "call"} => r.reply = None
    /\ r.pc \in {"call", "wait", "open", "write"} => InputOf(w) \notin Missing
    /\ r.pc \in {"open", "write"} => r.reply # None
    /\ r.reply # None => r.reply = InputOf(w) /\ InputOf(w) \notin Bad
    /\ r.pc # "write" => r.written = 0
    /\ r.pc = "write" /\ Alone(r.request) =>
         \A k \in Parts : k <= r.written => disk[OutputOf(w)][k] = r.reply
    /\ r.pc = "left" => queue = <<>>

\* No two workers have the same request.
Distinct ==
    \A v, w \in Workers :
      v # w /\ worker[v].request = worker[w].request => worker[v].request = None

\* The server has only calls that are waited for.
CallsInv ==
    /\ \A w \in Workers : w \in calls \/ w = serving =>
         worker[w].pc = "wait" /\ worker[w].reply = None
    /\ serving \notin calls

Finished(i) ==
    /\ workload[i][1] \notin Missing \cup Bad
    /\ i \in unwritten \/ ~Alone(i) \/ disk[workload[i][2]] = [k \in Parts |-> workload[i][1]]

\* A request that was taken is at a worker or finished.
NoneLost ==
    \A i \in 1 .. Taken : (\A w \in Workers : worker[w].request # i) => Finished(i)

\* main joins the threads in turn.
MainInv ==
    /\ main.pc = "join" => \A w \in Workers : w < main.thread => worker[w].pc = "left"
    /\ exit = 0 => \A w \in Workers : worker[w].pc = "left"

MinifyInv ==
    /\ TypeOK /\ QueueInv /\ Distinct /\ CallsInv /\ NoneLost /\ MainInv
    /\ \A w \in Workers : WorkerInv(w)

WorkerState ==
    [pc : {"none", "lock", "test", "read", "call", "wait", "open", "write", "left"},
     request : DOMAIN workload \cup {None}, reply : Input \cup {None},
     written : {0} \cup Parts]

\* The list does not change, and its entries are pairs.
LEMMA WorkloadIs ==
    ASSUME TypeOK
    PROVE  /\ Len(workload) \in Nat /\ DOMAIN workload = 1 .. Len(workload)
           /\ \A i \in DOMAIN workload : workload[i][1] \in Input /\ workload[i][2] \in Output
           /\ Len(queue) \in Nat /\ DOMAIN queue = 1 .. Len(queue) /\ Taken \in Int
           /\ \A i \in DOMAIN workload : i # None
<1>1. workload \in Seq(Input \X Output)
      BY WorkloadsAssumption DEF TypeOK
<1>2. Len(workload) \in Nat /\ DOMAIN workload = 1 .. Len(workload)
      BY <1>1
<1>3. \A i \in DOMAIN workload : workload[i] \in Input \X Output
      BY <1>1
<1>4. \A i \in DOMAIN workload : workload[i][1] \in Input /\ workload[i][2] \in Output
      BY <1>3
<1>5. Len(queue) \in Nat /\ DOMAIN queue = 1 .. Len(queue)
      BY DEF TypeOK
<1>6. \A i \in DOMAIN workload : i # None
      BY <1>2, NoneAssumption
<1>. QED BY <1>2, <1>4, <1>5, <1>6 DEF Taken

\* What a worker has; None is no request.
LEMMA WorkerIs ==
    ASSUME MinifyInv, NEW w \in Workers
    PROVE  LET r == worker[w] IN
           /\ r \in WorkerState /\ WorkerInv(w)
           /\ r.request # None => r.request \in DOMAIN workload /\ r.request \in 1 .. Taken
                                  /\ InputOf(w) \in Input /\ OutputOf(w) \in Output
           /\ r.request = None => r.pc \in {"none", "lock", "test", "left"}
           /\ r.written \in 0 .. 2
<1> DEFINE r == worker[w]
<1>1. TypeOK /\ WorkerInv(w)
      BY DEF MinifyInv
<1>2. r \in WorkerState
      BY <1>1 DEF TypeOK, WorkerState
<1>3. /\ r.pc \in {"none", "lock", "test", "read", "call", "wait", "open", "write", "left"}
      /\ r.request \in DOMAIN workload \cup {None} /\ r.written \in 0 .. 2
      BY <1>2 DEF WorkerState, Parts
<1>4. r.request # None =>
        r.request \in DOMAIN workload /\ r.request \in 1 .. Taken
      BY <1>1, <1>3 DEF WorkerInv
<1>5. r.request # None => InputOf(w) \in Input /\ OutputOf(w) \in Output
      BY <1>1, <1>4, WorkloadIs DEF InputOf, OutputOf
<1>6. r.request = None => r.pc \in {"none", "lock", "test", "left"}
      BY <1>1, <1>3, NoneAssumption DEF WorkerInv
<1>. QED BY <1>1, <1>2, <1>3, <1>4, <1>5, <1>6

\* A worker keeps its invariant while neither it nor its output is touched.
LEMMA WorkerFrame ==
    ASSUME MinifyInv, NEW w \in Workers, worker'[w] = worker[w], UNCHANGED lists,
           \A k \in Parts : worker[w].request # None /\ Alone(worker[w].request) =>
             disk'[OutputOf(w)][k] = disk[OutputOf(w)][k]
    PROVE  WorkerInv(w)'
<1>1. WorkerInv(w) /\ (worker[w].pc = "write" => worker[w].request # None)
      BY WorkerIs
<1>2. /\ UNCHANGED <<workload, queue>> /\ InputOf(w)' = InputOf(w)
      /\ OutputOf(w)' = OutputOf(w) /\ Taken' = Taken
      /\ Alone(worker[w].request)' = Alone(worker[w].request)
      BY DEF lists, InputOf, OutputOf, Taken, Alone
<1>. QED BY <1>1, <1>2 DEF WorkerInv

\* A step of one worker with its request, or of the server for it, in which no file
\* changes.
LEMMA Local ==
    ASSUME MinifyInv, NEW w \in Workers, NEW r \in WorkerState,
           worker' = [worker EXCEPT ![w] = r], r.request = worker[w].request,
           worker[w].pc # "left", exit = None,
           UNCHANGED <<lists, files, exit>>,
           TypeOK', CallsInv',
           main'.pc = "join" => main' = main,
           WorkerInv(w)'
    PROVE  MinifyInv'
<1>1. worker \in [Workers -> WorkerState]
      BY DEF MinifyInv, TypeOK, WorkerState
<1>2. worker'[w] = r /\ \A v \in Workers \ {w} : worker'[v] = worker[v]
      BY <1>1
<1>3. \A v \in Workers : worker'[v].request = worker[v].request
      BY <1>2
<1>4. QueueInv' /\ Distinct'
      BY <1>3 DEF MinifyInv, QueueInv, Distinct, Taken, lists
<1>5. NoneLost'
  <2>1. Taken' = Taken /\ \A i : Finished(i) => Finished(i)'
        BY DEF Taken, Finished, Alone, lists, files
  <2>.  QED BY <1>3, <2>1 DEF MinifyInv, NoneLost
<1>6. MainInv'
      BY <1>2, NoneAssumption DEF MinifyInv, MainInv
<1>7. ASSUME NEW v \in Workers PROVE WorkerInv(v)'
      BY <1>2, <1>7, WorkerFrame DEF files
<1>. QED BY <1>4, <1>5, <1>6, <1>7 DEF MinifyInv

-----------------------------------------------------------------------------
(***************************************************************************)
(* The steps.                                                              *)
(***************************************************************************)
\* The program ends before main returns.
LEMMA InvExit ==
    ASSUME MinifyInv, UNCHANGED <<lists, main, mutex, worker, serverVars, files>>,
           exit' \in {1, 2, 3}
    PROVE  MinifyInv'
<1>1. UNCHANGED <<workload, queue, main, mutex, worker, calls, serving, serverUp, disk,
                  unwritten>>
      BY DEF lists, serverVars, files
<1>2. TypeOK'
      BY <1>1 DEF MinifyInv, TypeOK
<1>3. QueueInv' /\ Distinct' /\ CallsInv' /\ NoneLost'
      BY <1>1 DEF MinifyInv, QueueInv, Distinct, CallsInv, NoneLost, Taken, Finished, Alone
<1>4. MainInv'
      BY <1>1 DEF MinifyInv, MainInv
<1>5. ASSUME NEW w \in Workers PROVE WorkerInv(w)'
      BY <1>1, WorkerFrame DEF lists
<1>. QED BY <1>2, <1>3, <1>4, <1>5 DEF MinifyInv

\* main starts a thread.
LEMMA InvCreate ==
    ASSUME MinifyInv, exit = None, CreateThread
    PROVE  MinifyInv'
<1>1. UNCHANGED <<lists, mutex, serverVars, files>>
      BY DEF CreateThread
<1>2. TypeOK /\ worker \in [Workers -> WorkerState] /\ main.pc = "create"
      BY DEF MinifyInv, TypeOK, WorkerState, CreateThread
<1>3. main \in [pc : {"create", "join"}, thread : 1 .. NThreads + 1]
      BY <1>2 DEF TypeOK
<1>4. CASE /\ main.thread <= NThreads /\ Goto(main.thread, "none", "lock")
           /\ main' = [main EXCEPT !.thread = @ + 1] /\ UNCHANGED exit
  <2>1. main.thread \in Workers /\ main.thread + 1 \in 1 .. NThreads + 1
        BY <1>3, <1>4, NThreadsAssumption DEF Workers
  <2>2. PICK w \in Workers : w = main.thread
        BY <2>1
  <2> DEFINE r == [worker[w] EXCEPT !.pc = "lock"]
  <2>3. worker[w].pc = "none" /\ worker' = [worker EXCEPT ![w] = r]
        BY <1>4, <2>2 DEF Goto
  <2>4. main' \in [pc : {"create", "join"}, thread : 1 .. NThreads + 1] /\ main'.pc = "create"
        BY <1>2, <1>3, <1>4, <2>1
  <2>5. worker[w] \in WorkerState /\ WorkerInv(w)
        BY <1>2, <2>1 DEF MinifyInv
  <2>6. /\ r \in WorkerState /\ r.pc = "lock" /\ r.request = worker[w].request
        /\ r.reply = worker[w].reply /\ r.written = worker[w].written
        BY <2>5 DEF WorkerState
  <2> HIDE DEF r
  <2>7. /\ worker'[w] = r /\ \A v \in Workers \ {w} : worker'[v] = worker[v]
        /\ worker' \in [Workers -> WorkerState]
        BY <1>2, <2>1, <2>3, <2>6
  <2>8. TypeOK'
    <3>1. mutex # None => worker'[mutex].pc = "test"
          BY <1>2, <2>1, <2>3, <2>7 DEF TypeOK
    <3>.  QED BY <1>1, <1>2, <1>4, <2>4, <2>7, <3>1
              DEF TypeOK, WorkerState, lists, serverVars, files
  <2>9. CallsInv'
        BY <1>1, <2>1, <2>3, <2>7 DEF MinifyInv, CallsInv, serverVars
  <2>10. WorkerInv(w)'
    <3>1. r.request = None /\ r.reply = None /\ r.written = 0
          BY <2>3, <2>5, <2>6 DEF WorkerInv
    <3>.  QED BY <2>6, <2>7, <3>1 DEF WorkerInv
  <2>11. UNCHANGED <<lists, files, exit>> /\ worker[w].pc # "left" /\ main'.pc # "join"
        BY <1>1, <1>4, <2>3, <2>4
  <2>.  QED BY <2>1, <2>3, <2>6, <2>8, <2>9, <2>10, <2>11, Local
<1>5. CASE main' = [pc |-> "join", thread |-> 1] /\ UNCHANGED <<worker, exit>>
  <2>1. UNCHANGED <<workload, queue, mutex, worker, calls, serving, serverUp, disk,
                    unwritten, exit>>
        BY <1>1, <1>5 DEF lists, serverVars, files
  <2>2. main' \in [pc : {"create", "join"}, thread : 1 .. NThreads + 1]
        BY <1>5, NThreadsAssumption
  <2>3. TypeOK'
        BY <1>2, <2>1, <2>2 DEF TypeOK
  <2>4. QueueInv' /\ Distinct' /\ CallsInv' /\ NoneLost'
        BY <2>1 DEF MinifyInv, QueueInv, Distinct, CallsInv, NoneLost, Taken, Finished, Alone
  <2>5. MainInv'
    <3>1. \A w \in Workers : ~(w < 1)
          BY NThreadsAssumption DEF Workers
    <3>.  QED BY <1>5, <2>1, <3>1 DEF MinifyInv, MainInv
  <2>6. ASSUME NEW w \in Workers PROVE WorkerInv(w)'
        BY <2>1, WorkerFrame DEF lists
  <2>.  QED BY <2>3, <2>4, <2>5, <2>6 DEF MinifyInv
<1>6. CASE exit' = 2 /\ UNCHANGED <<main, worker>>
      BY <1>1, <1>6, InvExit
<1>. QED BY <1>4, <1>5, <1>6 DEF CreateThread

\* main joins a thread, or returns when all have left.
LEMMA InvJoin ==
    ASSUME MinifyInv, exit = None, JoinThread
    PROVE  MinifyInv'
<1>1. /\ UNCHANGED <<workload, queue, mutex, worker, calls, serving, serverUp, disk,
                     unwritten>>
      /\ main.pc = "join"
      BY DEF JoinThread, lists, serverVars, files
<1>2. main \in [pc : {"create", "join"}, thread : 1 .. NThreads + 1] /\ MainInv
      BY DEF MinifyInv, TypeOK
<1>3. QueueInv' /\ Distinct' /\ CallsInv' /\ NoneLost'
      BY <1>1 DEF MinifyInv, QueueInv, Distinct, CallsInv, NoneLost, Taken, Finished, Alone
<1>4. ASSUME NEW w \in Workers PROVE WorkerInv(w)'
      BY <1>1, WorkerFrame DEF lists
<1>5. TypeOK' /\ MainInv'
  <2>1. CASE /\ main.thread <= NThreads /\ worker[main.thread].pc = "left"
             /\ main' = [main EXCEPT !.thread = @ + 1] /\ UNCHANGED exit
    <3>1. main.thread \in Int /\ main.thread + 1 \in 1 .. NThreads + 1
          BY <1>2, <2>1, NThreadsAssumption
    <3>2. main' \in [pc : {"create", "join"}, thread : 1 .. NThreads + 1]
          /\ main'.thread = main.thread + 1
          BY <1>2, <2>1, <3>1
    <3>3. \A w \in Workers : w < main.thread + 1 => w < main.thread \/ w = main.thread
          BY <3>1, NThreadsAssumption DEF Workers
    <3>4. TypeOK'
          BY <1>1, <2>1, <3>2 DEF MinifyInv, TypeOK
    <3>5. exit' # 0
          BY <2>1, NoneAssumption
    <3>.  QED BY <1>1, <1>2, <2>1, <3>2, <3>3, <3>4, <3>5 DEF MainInv
  <2>2. CASE main.thread > NThreads /\ exit' = 0 /\ UNCHANGED main
    <3>1. \A w \in Workers : w < main.thread
          BY <1>2, <2>2, NThreadsAssumption DEF Workers
    <3>2. TypeOK'
          BY <1>1, <2>2 DEF MinifyInv, TypeOK
    <3>.  QED BY <1>1, <1>2, <2>2, <3>1, <3>2 DEF MainInv
  <2>.  QED BY <2>1, <2>2 DEF JoinThread
<1>. QED BY <1>3, <1>4, <1>5 DEF MinifyInv

\* The types after a step of a worker that does not hold the mutex.
LEMMA Moved ==
    ASSUME MinifyInv, NEW w \in Workers, NEW r \in WorkerState,
           worker' = [worker EXCEPT ![w] = r], worker[w].pc # "test",
           UNCHANGED <<lists, main, mutex, exit>>,
           calls' \subseteq Workers, serving' \in Workers \cup {None}, serverUp' \in BOOLEAN,
           disk' \in [Output -> [Parts -> Input \cup {None}]],
           unwritten' \subseteq DOMAIN workload
    PROVE  /\ TypeOK' /\ worker'[w] = r
           /\ \A v \in Workers \ {w} : worker'[v] = worker[v]
<1>1. TypeOK /\ worker \in [Workers -> WorkerState]
      BY DEF MinifyInv, TypeOK, WorkerState
<1>2. /\ worker'[w] = r /\ \A v \in Workers \ {w} : worker'[v] = worker[v]
      /\ worker' \in [Workers -> WorkerState]
      BY <1>1
<1>3. mutex' # None => worker'[mutex'].pc = "test"
      BY <1>1, <1>2 DEF TypeOK
<1>. QED BY <1>1, <1>2, <1>3 DEF TypeOK, WorkerState, lists

\* What a change of pc alone gives.
LEMMA GotoIs ==
    ASSUME MinifyInv, NEW w \in Workers, NEW from,
           NEW to \in {"test", "call", "wait", "open", "write", "left"}, Goto(w, from, to)
    PROVE  \E r \in WorkerState :
             /\ worker' = [worker EXCEPT ![w] = r] /\ worker[w].pc = from
             /\ r.pc = to /\ r.request = worker[w].request
             /\ r.reply = worker[w].reply /\ r.written = worker[w].written
<1> DEFINE r == [worker[w] EXCEPT !.pc = to]
<1>1. worker[w] \in WorkerState
      BY WorkerIs
<1>2. /\ r \in WorkerState /\ r.pc = to /\ r.request = worker[w].request
      /\ r.reply = worker[w].reply /\ r.written = worker[w].written
      BY <1>1 DEF WorkerState
<1>3. worker' = [worker EXCEPT ![w] = r] /\ worker[w].pc = from
      BY DEF Goto
<1>. QED BY <1>2, <1>3

\* A worker locks the queue.
LEMMA InvLock ==
    ASSUME MinifyInv, exit = None, NEW w \in Workers, Lock(w)
    PROVE  MinifyInv'
<1>1. UNCHANGED <<lists, main, serverVars, files, exit>> /\ mutex' = w
      BY DEF Lock
<1>2. PICK r \in WorkerState :
        /\ worker' = [worker EXCEPT ![w] = r] /\ worker[w].pc = "lock"
        /\ r.pc = "test" /\ r.request = worker[w].request
        /\ r.reply = worker[w].reply /\ r.written = worker[w].written
      BY GotoIs DEF Lock
<1>3. TypeOK /\ worker \in [Workers -> WorkerState] /\ WorkerInv(w)
      BY DEF MinifyInv, TypeOK, WorkerState
<1>4. /\ worker'[w] = r /\ \A v \in Workers \ {w} : worker'[v] = worker[v]
      /\ worker' \in [Workers -> WorkerState]
      BY <1>2, <1>3
<1>5. TypeOK'
      BY <1>1, <1>2, <1>3, <1>4 DEF TypeOK, WorkerState, lists, serverVars, files
<1>6. CallsInv'
      BY <1>1, <1>2, <1>4 DEF MinifyInv, CallsInv, serverVars
<1>7. WorkerInv(w)'
  <2>1. r.request = None /\ r.reply = None /\ r.written = 0
        BY <1>2, <1>3 DEF WorkerInv
  <2>.  QED BY <1>2, <1>4, <2>1 DEF WorkerInv
<1>8. UNCHANGED <<lists, files, exit>> /\ main' = main /\ worker[w].pc # "left"
      BY <1>1, <1>2
<1>. QED BY <1>2, <1>5, <1>6, <1>7, <1>8, Local

\* read_from_file.
LEMMA InvReadFromFile ==
    ASSUME MinifyInv, exit = None, NEW w \in Workers, ReadFromFile(w)
    PROVE  MinifyInv'
<1>1. UNCHANGED <<lists, main, mutex, serverVars, files>>
      BY DEF ReadFromFile
<1>2. CASE Goto(w, "read", "call") /\ InputOf(w) \notin Missing /\ UNCHANGED exit
  <2>1. PICK r \in WorkerState :
          /\ worker' = [worker EXCEPT ![w] = r] /\ worker[w].pc = "read"
          /\ r.pc = "call" /\ r.request = worker[w].request
          /\ r.reply = worker[w].reply /\ r.written = worker[w].written
        BY <1>2, GotoIs
  <2>2. TypeOK /\ WorkerInv(w)
        BY DEF MinifyInv
  <2>3. /\ calls' = calls /\ serving' = serving /\ serverUp' = serverUp /\ disk' = disk
        /\ unwritten' = unwritten /\ UNCHANGED <<lists, main, mutex, exit>>
        BY <1>1, <1>2 DEF serverVars, files
  <2>4. /\ TypeOK' /\ worker'[w] = r
        /\ \A v \in Workers \ {w} : worker'[v] = worker[v]
    <3>1. /\ calls \subseteq Workers /\ serving \in Workers \cup {None} /\ serverUp \in BOOLEAN
          /\ disk \in [Output -> [Parts -> Input \cup {None}]]
          /\ unwritten \subseteq DOMAIN workload
          BY <2>2 DEF TypeOK
    <3>.  QED BY <2>1, <2>3, <3>1, Moved
  <2>5. CallsInv'
        BY <2>1, <2>3, <2>4 DEF MinifyInv, CallsInv
  <2>6. WorkerInv(w)'
        BY <1>2, <2>1, <2>2, <2>3, <2>4 DEF WorkerInv, InputOf, OutputOf, Taken, lists
  <2>7. UNCHANGED <<lists, files, exit>> /\ main' = main /\ worker[w].pc # "left"
        BY <1>1, <2>1, <2>3
  <2>.  QED BY <2>1, <2>4, <2>5, <2>6, <2>7, Local
<1>3. CASE exit' = 1 /\ UNCHANGED worker
      BY <1>1, <1>3, InvExit
<1>. QED BY <1>2, <1>3 DEF ReadFromFile

\* minify_via_rpc sends its call.
LEMMA InvCall ==
    ASSUME MinifyInv, exit = None, NEW w \in Workers, Call(w)
    PROVE  MinifyInv'
<1>1. PICK r \in WorkerState :
        /\ worker' = [worker EXCEPT ![w] = r] /\ worker[w].pc = "call"
        /\ r.pc = "wait" /\ r.request = worker[w].request
        /\ r.reply = worker[w].reply /\ r.written = worker[w].written
      BY GotoIs DEF Call
<1>2. TypeOK /\ WorkerInv(w) /\ CallsInv
      BY DEF MinifyInv
<1>3. /\ calls' = calls \cup {w} /\ serving' = serving /\ serverUp' = serverUp
      /\ disk' = disk /\ unwritten' = unwritten /\ UNCHANGED <<lists, files, main, mutex, exit>>
      BY DEF Call, files
<1>4. /\ TypeOK' /\ worker'[w] = r
      /\ \A v \in Workers \ {w} : worker'[v] = worker[v]
  <2>1. /\ calls' \subseteq Workers /\ serving \in Workers \cup {None} /\ serverUp \in BOOLEAN
        /\ disk \in [Output -> [Parts -> Input \cup {None}]]
        /\ unwritten \subseteq DOMAIN workload
        BY <1>2, <1>3 DEF TypeOK
  <2>.  QED BY <1>1, <1>3, <2>1, Moved
<1>5. CallsInv'
  <2>1. serving # w /\ worker'[w].pc = "wait" /\ worker'[w].reply = None
        BY <1>1, <1>2, <1>4 DEF WorkerInv, CallsInv
  <2>.  QED BY <1>2, <1>3, <1>4, <2>1 DEF CallsInv
<1>6. WorkerInv(w)'
      BY <1>1, <1>2, <1>3, <1>4 DEF WorkerInv, InputOf, OutputOf, Taken, lists
<1>7. UNCHANGED <<lists, files, exit>> /\ main' = main /\ worker[w].pc # "left"
      BY <1>1, <1>3
<1>. QED BY <1>1, <1>4, <1>5, <1>6, <1>7, Local

\* The call fails.
LEMMA InvCallFails ==
    ASSUME MinifyInv, NEW w \in Workers, CallFails(w)
    PROVE  MinifyInv'
      BY InvExit DEF CallFails

\* The reply has come.
LEMMA InvCallReturns ==
    ASSUME MinifyInv, exit = None, NEW w \in Workers, CallReturns(w)
    PROVE  MinifyInv'
<1>1. PICK r \in WorkerState :
        /\ worker' = [worker EXCEPT ![w] = r] /\ worker[w].pc = "wait"
        /\ r.pc = "open" /\ r.request = worker[w].request
        /\ r.reply = worker[w].reply /\ r.written = worker[w].written
      BY GotoIs DEF CallReturns
<1>2. TypeOK /\ WorkerInv(w) /\ CallsInv /\ worker[w].reply # None
      BY DEF MinifyInv, CallReturns
<1>3. /\ calls' = calls /\ serving' = serving /\ serverUp' = serverUp
      /\ disk' = disk /\ unwritten' = unwritten /\ UNCHANGED <<lists, files, main, mutex, exit>>
      BY DEF CallReturns, serverVars, files
<1>4. /\ TypeOK' /\ worker'[w] = r
      /\ \A v \in Workers \ {w} : worker'[v] = worker[v]
  <2>1. /\ calls \subseteq Workers /\ serving \in Workers \cup {None} /\ serverUp \in BOOLEAN
        /\ disk \in [Output -> [Parts -> Input \cup {None}]]
        /\ unwritten \subseteq DOMAIN workload
        BY <1>2 DEF TypeOK
  <2>.  QED BY <1>1, <1>3, <2>1, Moved
<1>5. CallsInv'
      BY <1>2, <1>3, <1>4 DEF CallsInv
<1>6. WorkerInv(w)'
      BY <1>1, <1>2, <1>3, <1>4 DEF WorkerInv, InputOf, OutputOf, Taken, lists
<1>7. UNCHANGED <<lists, files, exit>> /\ main' = main /\ worker[w].pc # "left"
      BY <1>1, <1>3
<1>. QED BY <1>1, <1>4, <1>5, <1>6, <1>7, Local

\* A step of one worker that touches at most the output of its request: neither the
\* other workers nor the other requests notice.
LEMMA OutputStep ==
    ASSUME MinifyInv, NEW w \in Workers, worker[w].request # None,
           UNCHANGED lists, unwritten \subseteq unwritten',
           \A p \in Output \ {OutputOf(w)} : disk'[p] = disk[p],
           \A v \in Workers \ {w} : worker'[v] = worker[v]
    PROVE  /\ \A v \in Workers \ {w} : WorkerInv(v)'
           /\ \A i \in DOMAIN workload \ {worker[w].request} : Finished(i) => Finished(i)'
           /\ Taken' = Taken
<1>1. TypeOK /\ worker[w].request \in DOMAIN workload
      BY WorkerIs DEF MinifyInv
<1>2. UNCHANGED <<workload, queue>> /\ Taken' = Taken
      BY DEF lists, Taken
<1>3. ASSUME NEW i \in DOMAIN workload \ {worker[w].request}, Alone(i)
      PROVE  disk'[workload[i][2]] = disk[workload[i][2]]
      BY <1>1, <1>3, WorkloadIs DEF Alone, OutputOf
<1>4. ASSUME NEW v \in Workers \ {w} PROVE WorkerInv(v)'
  <2>1. worker[v].request # None =>
          worker[v].request \in DOMAIN workload \ {worker[w].request}
        BY WorkerIs DEF MinifyInv, Distinct
  <2>2. ASSUME worker[v].request # None, Alone(worker[v].request)
        PROVE  disk'[OutputOf(v)] = disk[OutputOf(v)]
        BY <1>3, <2>1, <2>2 DEF OutputOf
  <2>.  QED BY <2>2, WorkerFrame
<1>5. ASSUME NEW i \in DOMAIN workload \ {worker[w].request}, Finished(i)
      PROVE  Finished(i)'
      BY <1>2, <1>3, <1>5 DEF Finished, Alone
<1>. QED BY <1>2, <1>4, <1>5

\* A worker that is done with its request has finished it.
LEMMA InvDone ==
    ASSUME MinifyInv, exit = None, NEW w \in Workers, Done(w),
           worker[w].pc \in {"open", "write"},
           UNCHANGED <<lists, main, mutex, serverVars, disk, exit>>,
           \/ unwritten' = unwritten \cup {worker[w].request}
           \/ unwritten' = unwritten /\ worker[w].pc = "write" /\ worker[w].written = 2
    PROVE  MinifyInv'
<1> DEFINE r == [pc |-> "lock", request |-> None, reply |-> None, written |-> 0]
<1>0. PICK i \in DOMAIN workload : i = worker[w].request
      BY WorkerIs, NoneAssumption DEF MinifyInv, WorkerInv
<1>1. TypeOK /\ WorkerInv(w) /\ CallsInv /\ worker \in [Workers -> WorkerState]
      BY DEF MinifyInv, TypeOK, WorkerState
<1>2. /\ calls' = calls /\ serving' = serving /\ serverUp' = serverUp /\ disk' = disk
      /\ UNCHANGED <<lists, main, mutex, exit>> /\ unwritten \subseteq unwritten'
      BY DEF serverVars
<1>3. /\ i \in DOMAIN workload /\ i \in 1 .. Taken /\ i # None
      /\ InputOf(w) \in Input /\ OutputOf(w) \in Output
      BY WorkerIs, <1>0, <1>1, NoneAssumption DEF WorkerInv
<1>4. /\ TypeOK' /\ worker'[w] = r
      /\ \A v \in Workers \ {w} : worker'[v] = worker[v]
  <2>1. r \in WorkerState
        BY DEF WorkerState
  <2>2. worker' = [worker EXCEPT ![w] = r] /\ worker[w].pc # "test"
        BY DEF Done
  <2>3. /\ calls \subseteq Workers /\ serving \in Workers \cup {None} /\ serverUp \in BOOLEAN
        /\ disk \in [Output -> [Parts -> Input \cup {None}]]
        /\ unwritten' \subseteq DOMAIN workload
        BY <1>0, <1>1, <1>3 DEF TypeOK
  <2>   HIDE DEF r
  <2>.  QED BY <1>2, <2>1, <2>2, <2>3, Moved
<1>5. Finished(i)'
  <2>1. workload[i][1] \notin Missing \cup Bad
        BY <1>0, <1>1 DEF WorkerInv, InputOf
  <2>2. CASE unwritten' = unwritten \cup {i}
        BY <1>2, <2>1, <2>2 DEF Finished, Alone, lists
  <2>3. CASE worker[w].pc = "write" /\ worker[w].written = 2
    <3>1. \A k \in Parts : k <= 2
          BY DEF Parts
    <3>2. ASSUME Alone(i) PROVE \A k \in Parts : disk[OutputOf(w)][k] = InputOf(w)
          BY <1>0, <1>1, <2>3, <3>1, <3>2 DEF WorkerInv
    <3>3. disk[OutputOf(w)] \in [Parts -> Input \cup {None}]
          BY <1>1, <1>3 DEF TypeOK
    <3>4. ASSUME Alone(i) PROVE disk[OutputOf(w)] = [k \in Parts |-> InputOf(w)]
          BY <3>2, <3>3, <3>4
    <3>.  QED BY <1>0, <1>2, <2>1, <3>4 DEF Finished, Alone, lists, InputOf, OutputOf
  <2>.  QED BY <1>0, <2>2, <2>3
<1>6. /\ \A v \in Workers \ {w} : WorkerInv(v)'
      /\ \A j \in DOMAIN workload \ {i} : Finished(j) => Finished(j)'
      /\ Taken' = Taken
      BY <1>0, <1>2, <1>3, <1>4, OutputStep
<1>7. WorkerInv(w)'
      BY <1>4, NoneAssumption DEF WorkerInv
<1>8. QueueInv'
      BY <1>2, <1>6 DEF MinifyInv, QueueInv, lists
<1>9. Distinct'
  <2>1. worker'[w].request = None
        BY <1>4
  <2>.  QED BY <1>4, <2>1 DEF MinifyInv, Distinct
<1>10. CallsInv'
      BY <1>1, <1>2, <1>4 DEF CallsInv
<1>11. NoneLost'
  <2>1. SUFFICES ASSUME NEW j \in 1 .. Taken, \A v \in Workers : worker'[v].request # j
                 PROVE  Finished(j)'
        BY <1>6 DEF NoneLost
  <2>2. j \in DOMAIN workload
        BY WorkloadIs, <1>1 DEF Taken
  <2>3. CASE j # i
    <3>1. \A v \in Workers : worker[v].request # j
          BY <1>0, <1>4, <2>1, <2>3
    <3>.  QED BY <1>6, <2>2, <2>3, <3>1 DEF MinifyInv, NoneLost
  <2>.  QED BY <1>5, <2>3
<1>12. MainInv'
      BY <1>1, <1>2, <1>4, NoneAssumption DEF MinifyInv, MainInv
<1>. QED BY <1>4, <1>6, <1>7, <1>8, <1>9, <1>10, <1>11, <1>12 DEF MinifyInv

\* A step of a worker with its output that leaves it at its request.
LEMMA InvOutput ==
    ASSUME MinifyInv, exit = None, NEW w \in Workers, NEW r \in WorkerState,
           worker[w].pc \in {"open", "write"},
           worker' = [worker EXCEPT ![w] = r], r.pc = "write",
           r.request = worker[w].request, r.reply = worker[w].reply,
           UNCHANGED <<lists, main, mutex, serverVars, unwritten, exit>>,
           NEW f \in [Parts -> Input \cup {None}], disk' = [disk EXCEPT ![OutputOf(w)] = f],
           \A k \in Parts : k <= r.written /\ Alone(worker[w].request) => f[k] = worker[w].reply
    PROVE  MinifyInv'
<1> DEFINE i == worker[w].request
<1>1. TypeOK /\ WorkerInv(w) /\ CallsInv
      BY DEF MinifyInv
<1>2. /\ calls' = calls /\ serving' = serving /\ serverUp' = serverUp
      /\ unwritten' = unwritten /\ UNCHANGED <<lists, main, mutex, exit>>
      BY DEF serverVars
<1>3. /\ i \in DOMAIN workload /\ i \in 1 .. Taken /\ i # None
      /\ InputOf(w) \in Input /\ OutputOf(w) \in Output
      BY WorkerIs, <1>1, NoneAssumption DEF WorkerInv
<1>4. /\ disk' \in [Output -> [Parts -> Input \cup {None}]] /\ disk'[OutputOf(w)] = f
      /\ \A p \in Output \ {OutputOf(w)} : disk'[p] = disk[p]
      BY <1>1, <1>3 DEF TypeOK
<1>5. /\ TypeOK' /\ worker'[w] = r
      /\ \A v \in Workers \ {w} : worker'[v] = worker[v]
  <2>1. /\ calls \subseteq Workers /\ serving \in Workers \cup {None} /\ serverUp \in BOOLEAN
        /\ unwritten \subseteq DOMAIN workload
        BY <1>1 DEF TypeOK
  <2>.  QED BY <1>2, <1>4, <2>1, Moved
<1>6. /\ \A v \in Workers \ {w} : WorkerInv(v)'
      /\ \A j \in DOMAIN workload \ {i} : Finished(j) => Finished(j)'
      /\ Taken' = Taken
      BY <1>2, <1>3, <1>4, <1>5, OutputStep
<1>7. WorkerInv(w)'
  <2>1. /\ r.reply # None /\ r.reply = InputOf(w) /\ InputOf(w) \notin Missing \cup Bad
        BY <1>1 DEF WorkerInv
  <2>2. /\ InputOf(w)' = InputOf(w) /\ OutputOf(w)' = OutputOf(w) /\ Alone(i)' = Alone(i)
        BY <1>2, <1>5 DEF InputOf, OutputOf, Alone, lists
  <2>.  QED BY <1>3, <1>4, <1>5, <1>6, <2>1, <2>2 DEF WorkerInv
<1>8. QueueInv'
      BY <1>2, <1>6 DEF MinifyInv, QueueInv, lists
<1>9. \A v \in Workers : worker'[v].request = worker[v].request
      BY <1>5
<1>10. Distinct' /\ CallsInv'
      BY <1>1, <1>2, <1>5, <1>9 DEF MinifyInv, Distinct, CallsInv
<1>11. NoneLost'
  <2>1. SUFFICES ASSUME NEW j \in 1 .. Taken, \A v \in Workers : worker'[v].request # j
                 PROVE  Finished(j)'
        BY <1>6 DEF NoneLost
  <2>2. j \in DOMAIN workload /\ j # i
        BY WorkloadIs, <1>1, <1>9, <2>1 DEF Taken
  <2>.  QED BY <1>6, <1>9, <2>1, <2>2 DEF MinifyInv, NoneLost
<1>12. MainInv'
      BY <1>1, <1>2, <1>5, NoneAssumption DEF MinifyInv, MainInv
<1>. QED BY <1>5, <1>6, <1>7, <1>8, <1>10, <1>11, <1>12 DEF MinifyInv

\* write_to_file opens the output, or not.
LEMMA InvOpenOutput ==
    ASSUME MinifyInv, exit = None, NEW w \in Workers, OpenOutput(w)
    PROVE  MinifyInv'
<1>1. UNCHANGED <<lists, main, mutex, serverVars, exit>>
      BY DEF OpenOutput
<1>2. CASE /\ Goto(w, "open", "write")
           /\ disk' = [disk EXCEPT ![OutputOf(w)] = [k \in Parts |-> None]]
           /\ UNCHANGED unwritten
  <2>1. PICK r \in WorkerState :
          /\ worker' = [worker EXCEPT ![w] = r] /\ worker[w].pc = "open"
          /\ r.pc = "write" /\ r.request = worker[w].request
          /\ r.reply = worker[w].reply /\ r.written = worker[w].written
        BY <1>2, GotoIs
  <2>2. r.written = 0
        BY <2>1 DEF MinifyInv, WorkerInv
  <2>3. \A k \in Parts : ~(k <= r.written)
        BY <2>2 DEF Parts
  <2>4. PICK f \in [Parts -> Input \cup {None}] : f = [k \in Parts |-> None]
        OBVIOUS
  <2>.  QED BY <1>1, <1>2, <2>1, <2>3, <2>4, InvOutput
<1>3. CASE /\ worker[w].pc = "open" /\ unwritten' = unwritten \cup {worker[w].request}
           /\ Done(w) /\ UNCHANGED disk
      BY <1>1, <1>3, InvDone
<1>. QED BY <1>2, <1>3 DEF OpenOutput

\* write_to_file writes a part, or is through.
LEMMA InvWriteOutput ==
    ASSUME MinifyInv, exit = None, NEW w \in Workers, WriteOutput(w)
    PROVE  MinifyInv'
<1>1. UNCHANGED <<lists, main, mutex, serverVars, unwritten, exit>> /\ worker[w].pc = "write"
      BY DEF WriteOutput
<1>2. CASE /\ worker[w].written < 2
           /\ worker' = [worker EXCEPT ![w].written = @ + 1]
           /\ disk' = [disk EXCEPT ![OutputOf(w)][worker'[w].written] = worker[w].reply]
  <2> DEFINE r == [worker[w] EXCEPT !.written = @ + 1]
             n == worker[w].written + 1
             f == [disk[OutputOf(w)] EXCEPT ![n] = worker[w].reply]
  <2>1. /\ worker[w] \in WorkerState /\ worker[w].written \in 0 .. 2 /\ WorkerInv(w) /\ TypeOK
        /\ worker \in [Workers -> WorkerState]
        BY WorkerIs DEF MinifyInv, TypeOK, WorkerState
  <2>2. worker[w].request # None /\ OutputOf(w) \in Output
        BY WorkerIs, <1>1
  <2>3. n \in Parts /\ n \in {0} \cup Parts
        BY <1>2, <2>1 DEF Parts
  <2>4. /\ r \in WorkerState /\ r.pc = "write" /\ r.request = worker[w].request
        /\ r.reply = worker[w].reply /\ r.written = n
        BY <1>1, <2>1, <2>3 DEF WorkerState
  <2>5. worker' = [worker EXCEPT ![w] = r] /\ worker'[w].written = n
        BY <1>2, <2>1, <2>4
  <2>6. disk[OutputOf(w)] \in [Parts -> Input \cup {None}] /\ worker[w].reply \in Input \cup {None}
        BY <2>1, <2>2 DEF TypeOK, WorkerState
  <2>7. /\ f \in [Parts -> Input \cup {None}] /\ f[n] = worker[w].reply
        /\ \A k \in Parts \ {n} : f[k] = disk[OutputOf(w)][k]
        BY <2>3, <2>6
  <2>8. disk' = [disk EXCEPT ![OutputOf(w)] = f]
        BY <1>2, <2>5
  <2>9. ASSUME NEW k \in Parts, k <= r.written, Alone(worker[w].request)
        PROVE  f[k] = worker[w].reply
    <3>1. k = n \/ k <= worker[w].written
          BY <2>1, <2>4, <2>9 DEF Parts
    <3>2. \A j \in Parts : j <= worker[w].written => disk[OutputOf(w)][j] = worker[w].reply
          BY <1>1, <2>1, <2>9 DEF WorkerInv
    <3>.  QED BY <2>7, <3>1, <3>2
  <2>   HIDE DEF r, f
  <2>.  QED BY <1>1, <2>4, <2>5, <2>7, <2>8, <2>9, InvOutput
<1>3. CASE worker[w].written = 2 /\ Done(w) /\ UNCHANGED disk
      BY <1>1, <1>3, InvDone
<1>. QED BY <1>2, <1>3 DEF WriteOutput

\* The queue after its first request was taken.
LEMMA TailIs ==
    ASSUME TypeOK, QueueInv, queue # <<>>
    PROVE  /\ Head(queue) = Taken + 1 /\ Taken + 1 \in DOMAIN workload
           /\ Tail(queue) \in Seq(DOMAIN workload) /\ Len(Tail(queue)) = Len(queue) - 1
           /\ \A k \in DOMAIN Tail(queue) : Tail(queue)[k] = Taken + 1 + k
<1>1. queue \in Seq(DOMAIN workload) /\ Len(queue) \in Nat /\ Len(queue) # 0
      BY DEF TypeOK
<1>2. /\ Tail(queue) \in Seq(DOMAIN workload) /\ Len(Tail(queue)) = Len(queue) - 1
      /\ \A k \in 1 .. Len(queue) - 1 : Tail(queue)[k] = queue[k + 1]
      /\ Head(queue) = queue[1] /\ DOMAIN queue = 1 .. Len(queue)
      /\ DOMAIN Tail(queue) = 1 .. Len(queue) - 1
      BY <1>1
<1>3. Taken \in Int /\ \A k \in DOMAIN queue : queue[k] = Taken + k
      BY WorkloadIs DEF QueueInv
<1>4. 1 \in DOMAIN queue /\ \A k \in 1 .. Len(queue) - 1 : k + 1 \in DOMAIN queue
      BY <1>1, <1>2
<1>5. Head(queue) = Taken + 1 /\ Head(queue) \in DOMAIN workload
      BY <1>1, <1>2, <1>3, <1>4
<1>6. ASSUME NEW k \in DOMAIN Tail(queue) PROVE Tail(queue)[k] = Taken + 1 + k
  <2>1. k \in 1 .. Len(queue) - 1 /\ Tail(queue)[k] = queue[k + 1] /\ k \in Int
        BY <1>1, <1>2
  <2>2. queue[k + 1] = Taken + (k + 1)
        BY <1>3, <1>4, <2>1
  <2>.  QED BY <1>3, <2>1, <2>2
<1>. QED BY <1>2, <1>5, <1>6

\* A worker takes the first request, or finds that there is none.
LEMMA InvTest ==
    ASSUME MinifyInv, exit = None, NEW w \in Workers, Test(w)
    PROVE  MinifyInv'
<1>1. /\ TypeOK /\ QueueInv /\ CallsInv /\ WorkerInv(w) /\ worker[w] \in WorkerState
      /\ worker[w].pc = "test" /\ worker \in [Workers -> WorkerState]
      BY WorkerIs DEF MinifyInv, Test, TypeOK, WorkerState
<1>2. /\ mutex' = None /\ UNCHANGED <<workload, main, calls, serving, serverUp, disk,
                                      unwritten, exit>>
      BY DEF Test, HolderAfterTest, serverVars, files
<1>3. worker[w].request = None /\ worker[w].reply = None /\ worker[w].written = 0
      BY <1>1 DEF WorkerInv
<1>4. CASE /\ queue # <<>> /\ queue' = Tail(queue)
           /\ worker' = [worker EXCEPT ![w].pc = "read", ![w].request = Head(queue)]
  <2>1. PICK i \in DOMAIN workload :
          /\ i = Head(queue) /\ i = Taken + 1
          /\ queue' \in Seq(DOMAIN workload) /\ Len(queue') = Len(queue) - 1
          /\ \A k \in DOMAIN queue' : queue'[k] = i + k
        BY <1>1, <1>4, TailIs
  <2>2. /\ Len(queue) \in Nat /\ Len(workload) \in Nat /\ Taken \in Int /\ i # None
        /\ DOMAIN workload = 1 .. Len(workload)
        BY <1>1, WorkloadIs
  <2>3. Taken' = Taken + 1 /\ Taken' = i /\ i \in 1 .. i
        BY <1>2, <2>1, <2>2 DEF Taken
  <2>  DEFINE r == [pc |-> "read", request |-> i, reply |-> None, written |-> 0]
  <2>4. worker'[w] = r
        BY <1>1, <1>3, <1>4, <2>1 DEF WorkerState
  <2>5. /\ r \in WorkerState /\ r.pc = "read" /\ r.request = i /\ r.reply = None
        /\ r.written = 0
        BY DEF WorkerState
  <2>6. /\ \A v \in Workers \ {w} : worker'[v] = worker[v]
        /\ worker' \in [Workers -> WorkerState]
    <3>1. \A v \in Workers \ {w} : worker'[v] = worker[v]
          BY <1>1, <1>4
    <3>2. worker' = [v \in Workers |-> worker'[v]]
          BY <1>1, <1>4
    <3>   HIDE DEF r
    <3>3. \A v \in Workers : worker'[v] \in WorkerState
          BY <1>1, <2>4, <2>5, <3>1
    <3>.  QED BY <3>1, <3>2, <3>3
  <2>  HIDE DEF r
  <2>7. TypeOK'
        BY <1>1, <1>2, <2>1, <2>6 DEF TypeOK, WorkerState
  <2>8. QueueInv'
        BY <1>1, <1>2, <2>1, <2>2, <2>3 DEF QueueInv
  <2>9. \A v \in Workers : worker[v].request # None => worker[v].request \in 1 .. Taken
        BY WorkerIs
  <2>10. Distinct'
    <3>1. \A v \in Workers : worker[v].request # i
          BY <2>1, <2>2, <2>9
    <3>.  QED BY <2>4, <2>5, <2>6, <3>1 DEF MinifyInv, Distinct
  <2>11. CallsInv'
        BY <1>1, <1>2, <2>6 DEF CallsInv
  <2>12. NoneLost'
    <3>1. SUFFICES ASSUME NEW j \in 1 .. Taken, \A v \in Workers : worker'[v].request # j
                   PROVE  Finished(j)'
          BY <2>2, <2>3, <2>4, <2>5 DEF NoneLost
    <3>2. j # None
          BY <2>2, NoneAssumption
    <3>3. \A v \in Workers : worker[v].request # j
          BY <1>3, <2>6, <3>1, <3>2
    <3>4. Finished(j)
          BY <3>3 DEF MinifyInv, NoneLost
    <3>.  QED BY <1>2, <3>4 DEF Finished, Alone
  <2>13. MainInv'
        BY <1>1, <1>2, <2>6, NoneAssumption DEF MinifyInv, MainInv
  <2>14. ASSUME NEW v \in Workers PROVE WorkerInv(v)'
    <3>1. CASE v = w
          BY <2>3, <2>4, <2>5, <3>1, NoneAssumption DEF WorkerInv
    <3>2. CASE v # w
      <4>1. WorkerInv(v) /\ worker[v].pc # "left" /\ worker'[v] = worker[v]
            BY <1>4, <2>6, <3>2 DEF MinifyInv, WorkerInv
      <4>2. worker[v].request \in 1 .. Taken => worker[v].request \in 1 .. i
            BY <2>1, <2>2
      <4>.  QED BY <1>2, <2>3, <4>1, <4>2 DEF WorkerInv, InputOf, OutputOf, Alone
    <3>.  QED BY <3>1, <3>2
  <2>.  QED BY <2>7, <2>8, <2>10, <2>11, <2>12, <2>13, <2>14 DEF MinifyInv
<1>5. CASE /\ queue = <<>> /\ queue' = queue
           /\ worker' = [worker EXCEPT ![w].pc = "left"]
  <2>1. PICK r \in WorkerState :
          /\ worker' = [worker EXCEPT ![w] = r] /\ r.pc = "left" /\ r.request = None
          /\ r.reply = None /\ r.written = 0
    <3>1. Goto(w, "test", "left")
          BY <1>1, <1>5 DEF Goto
    <3>.  QED BY <1>3, <3>1, GotoIs
  <2>2. /\ worker'[w] = r /\ \A v \in Workers \ {w} : worker'[v] = worker[v]
        /\ worker' \in [Workers -> WorkerState]
        BY <1>1, <2>1
  <2>3. TypeOK'
        BY <1>1, <1>2, <1>5, <2>2 DEF TypeOK, WorkerState
  <2>4. CallsInv'
        BY <1>1, <1>2, <2>2 DEF CallsInv
  <2>5. WorkerInv(w)'
        BY <1>5, <2>1, <2>2 DEF WorkerInv
  <2>6. UNCHANGED <<lists, files, exit>> /\ main' = main
        BY <1>2, <1>5 DEF lists, files
  <2>.  QED BY <1>1, <1>3, <2>1, <2>3, <2>4, <2>5, <2>6, Local
<1>. QED BY <1>1, <1>4, <1>5 DEF Test

-----------------------------------------------------------------------------
(***************************************************************************)
(* The server.                                                             *)
(***************************************************************************)
LEMMA InvTakeCall ==
    ASSUME MinifyInv, TakeCall
    PROVE  MinifyInv'
<1>1. /\ UNCHANGED <<workload, queue, main, mutex, worker, serverUp, disk, unwritten, exit>>
      BY DEF TakeCall, lists, files
<1>2. PICK w \in calls : serving' = w /\ calls' = calls \ {w}
      BY DEF TakeCall
<1>3. TypeOK'
      BY <1>1, <1>2 DEF MinifyInv, TypeOK
<1>4. CallsInv'
      BY <1>1, <1>2 DEF MinifyInv, CallsInv
<1>5. QueueInv' /\ Distinct' /\ MainInv' /\ NoneLost'
      BY <1>1 DEF MinifyInv, QueueInv, Distinct, MainInv, NoneLost, Taken, Finished, Alone
<1>6. ASSUME NEW v \in Workers PROVE WorkerInv(v)'
      BY <1>1, WorkerFrame DEF lists
<1>. QED BY <1>3, <1>4, <1>5, <1>6 DEF MinifyInv

\* The server has made the image smaller, or exits.
LEMMA InvMinify ==
    ASSUME MinifyInv, exit = None, Minify
    PROVE  MinifyInv'
<1>1. /\ UNCHANGED <<lists, main, mutex, calls, files, exit>> /\ serving' = None
      /\ UNCHANGED <<workload, queue, disk, unwritten>>
      BY DEF Minify, lists, files
<1>2. TypeOK /\ CallsInv /\ serving # None
      BY DEF MinifyInv, Minify
<1>3. PICK w \in Workers : w = serving
      BY <1>2 DEF TypeOK
<1>4. /\ worker[w].pc = "wait" /\ worker[w].reply = None /\ WorkerInv(w)
      /\ worker[w] \in WorkerState /\ worker[w].request # None
      /\ InputOf(w) \in Input /\ worker \in [Workers -> WorkerState]
      BY <1>2, <1>3, WorkerIs DEF CallsInv, TypeOK, WorkerState
<1>5. None \notin Workers
      BY NoneAssumption, NThreadsAssumption DEF Workers
<1>6. CASE /\ IsImage(InputOf(serving)) /\ UNCHANGED serverUp
           /\ worker' = [v \in Workers |->
                IF HasResult(v) THEN [worker[v] EXCEPT !.reply = InputOf(serving)]
                                ELSE worker[v]]
  <2> DEFINE r == [worker[w] EXCEPT !.reply = InputOf(w)]
  <2>1. /\ r \in WorkerState /\ r.pc = "wait" /\ r.request = worker[w].request
        /\ r.reply = InputOf(w) /\ r.written = worker[w].written
        BY <1>4 DEF WorkerState
  <2>2. worker' = [worker EXCEPT ![w] = r]
        BY <1>3, <1>4, <1>6 DEF HasResult
  <2>   HIDE DEF r
  <2>3. TypeOK' /\ worker'[w] = r /\ \A v \in Workers \ {w} : worker'[v] = worker[v]
    <3>1. /\ calls' \subseteq Workers /\ serving' \in Workers \cup {None} /\ serverUp' \in BOOLEAN
          /\ disk' \in [Output -> [Parts -> Input \cup {None}]]
          /\ unwritten' \subseteq DOMAIN workload
          BY <1>1, <1>2, <1>6 DEF TypeOK
    <3>.  QED BY <1>1, <1>4, <2>1, <2>2, <3>1, Moved
  <2>4. CallsInv'
    <3>1. \A v \in Workers : v \in calls' \/ v = serving' => v \in Workers \ {w} /\ v \in calls
          BY <1>1, <1>2, <1>3, <1>5 DEF CallsInv
    <3>2. serving' \notin calls'
          BY <1>1, <1>2, <1>5 DEF TypeOK
    <3>.  QED BY <1>2, <2>3, <3>1, <3>2 DEF CallsInv
  <2>5. WorkerInv(w)'
    <3>1. InputOf(w) \notin Bad
          BY <1>3, <1>6 DEF IsImage
    <3>.  QED BY <1>1, <1>4, <2>1, <2>3, <3>1 DEF WorkerInv, InputOf, OutputOf, Taken
  <2>.  QED BY <1>1, <1>4, <2>1, <2>2, <2>3, <2>4, <2>5, Local
<1>7. CASE serverUp' = FALSE /\ UNCHANGED worker
  <2>1. TypeOK'
        BY <1>1, <1>2, <1>7 DEF TypeOK
  <2>2. CallsInv'
        BY <1>1, <1>2, <1>5, <1>7 DEF CallsInv, TypeOK
  <2>3. QueueInv' /\ Distinct' /\ MainInv' /\ NoneLost'
        BY <1>1, <1>7 DEF MinifyInv, QueueInv, Distinct, MainInv, NoneLost, Taken, Finished, Alone
  <2>4. ASSUME NEW v \in Workers PROVE WorkerInv(v)'
        BY <1>1, <1>7, WorkerFrame
  <2>.  QED BY <2>1, <2>2, <2>3, <2>4 DEF MinifyInv
<1>. QED BY <1>6, <1>7 DEF Minify

-----------------------------------------------------------------------------
LEMMA MinifyInit ==
    ASSUME Init
    PROVE  MinifyInv
<1>1. workload \in Seq(Input \X Output)
      BY WorkloadsAssumption DEF Init
<1>2. Len(workload) \in Nat /\ DOMAIN workload = 1 .. Len(workload)
      BY <1>1
<1>3. queue = [i \in 1 .. Len(workload) |-> i]
      BY <1>2 DEF Init
<1>4. queue \in Seq(1 .. Len(workload)) /\ Len(queue) = Len(workload)
      BY <1>2, <1>3
<1>5. Taken = 0
      BY <1>2, <1>4 DEF Taken
<1>6. TypeOK
      BY <1>2, <1>4, NThreadsAssumption, NoneAssumption DEF Init, TypeOK, Parts, Workers
<1>7. QueueInv
      BY <1>2, <1>3, <1>4, <1>5 DEF QueueInv
<1>8. Distinct /\ MainInv
      BY NoneAssumption DEF Init, Distinct, MainInv
<1>9. CallsInv /\ NoneLost
  <2>1. None \notin Workers
        BY NoneAssumption, NThreadsAssumption DEF Workers
  <2>2. 1 .. Taken = {}
        BY <1>5
  <2>.  QED BY <2>1, <2>2 DEF Init, CallsInv, NoneLost
<1>10. ASSUME NEW w \in Workers PROVE WorkerInv(w)
      BY DEF Init, WorkerInv
<1>. QED BY <1>6, <1>7, <1>8, <1>9, <1>10 DEF MinifyInv

LEMMA MinifyStep ==
    ASSUME MinifyInv, [Next]_vars
    PROVE  MinifyInv'
<1>1. CASE Next
  <2>1. exit = None
        BY <1>1 DEF Next
  <2>2. CASE MainStep
        BY <2>1, <2>2, InvCreate, InvJoin DEF MainStep
  <2>3. CASE ServerStep
        BY <2>1, <2>3, InvTakeCall, InvMinify DEF ServerStep
  <2>4. ASSUME NEW w \in Workers, WorkerStep(w) PROVE MinifyInv'
        BY <2>1, <2>4, InvLock, InvTest, InvReadFromFile, InvCall, InvCallFails,
           InvCallReturns, InvOpenOutput, InvWriteOutput DEF WorkerStep
  <2>.  QED BY <1>1, <2>2, <2>3, <2>4 DEF Next
<1>2. CASE UNCHANGED vars
  <2>1. UNCHANGED <<workload, queue, main, mutex, worker, calls, serving, serverUp, disk,
                    unwritten, exit>>
        BY <1>2 DEF vars, lists, serverVars, files
  <2>2. TypeOK'
        BY <2>1 DEF MinifyInv, TypeOK
  <2>3. QueueInv' /\ Distinct' /\ CallsInv' /\ MainInv' /\ NoneLost'
        BY <2>1 DEF MinifyInv, QueueInv, Distinct, CallsInv, MainInv, NoneLost, Taken,
                    Finished, Alone
  <2>4. ASSUME NEW w \in Workers PROVE WorkerInv(w)'
        BY <2>1, WorkerFrame DEF lists
  <2>.  QED BY <2>2, <2>3, <2>4 DEF MinifyInv
<1>. QED BY <1>1, <1>2

\* When main has joined every thread, each has found the queue empty, so that every
\* request was taken, and is finished as no worker has one any more.
LEMMA LeftMeansDone ==
    ASSUME MinifyInv
    PROVE  SuccessMeansDone
<1>1. TypeOK
      BY DEF MinifyInv
<1>2. ASSUME exit = 0, NEW i \in DOMAIN workload PROVE Finished(i)
  <2>1. \A w \in Workers : worker[w].pc = "left" /\ worker[w].request = None /\ queue = <<>>
        BY <1>2 DEF MinifyInv, MainInv, WorkerInv
  <2>2. 1 \in Workers
        BY NThreadsAssumption DEF Workers
  <2>3. queue = <<>> /\ Len(queue) = 0
        BY <2>1, <2>2
  <2>4. i \in 1 .. Taken /\ i # None
        BY <1>1, <2>3, WorkloadIs DEF Taken
  <2>.  QED BY <2>1, <2>4 DEF MinifyInv, NoneLost
<1>. QED BY <1>1, <1>2 DEF SuccessMeansDone, Finished, Alone

\* A program that ends with success (main of minifyjpeg_main.c returns) has done all
\* of its list, for every list and every number of threads.
THEOREM MinifyDone == Spec => []SuccessMeansDone
<1>1. Init => MinifyInv
      BY MinifyInit
<1>2. MinifyInv /\ [Next]_vars => MinifyInv'
      BY MinifyStep
<1>3. MinifyInv => SuccessMeansDone
      BY LeftMeansDone
<1>. QED BY <1>1, <1>2, <1>3, PTL DEF Spec
=============================================================================
