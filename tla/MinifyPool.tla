----------------------------- MODULE MinifyPool ------------------------------
(***************************************************************************)
(* project4: minifyjpeg_main.c, whose workers take the images of a list    *)
(* and have them made smaller by an RPC server, and that server            *)
(* (minifyjpeg_svc.c, minifyjpeg.c, magickminify.c).                       *)
(*                                                                         *)
(* Each worker has a connection of its own; the server takes the calls of  *)
(* all connections one at a time.  A call has a time-out of 25 seconds.    *)
(* Whatever fails ends the whole program, or the server; only a result     *)
(* that cannot be written is passed over.  A file has two parts, so that   *)
(* the ends of programs and other workers can come in between.             *)
(***************************************************************************)
EXTENDS Integers, Sequences, FiniteSets

CONSTANTS
    NThreads,
    Input, Output,
    Workloads,      \* the lists: sequences of an input and an output
    Missing,        \* the inputs that cannot be read
    Bad,            \* the inputs that are no image
    None

ASSUME NThreadsAssumption  == NThreads \in Nat \ {0}
ASSUME WorkloadsAssumption == Workloads \subseteq Seq(Input \X Output)
ASSUME InputAssumption     == Missing \subseteq Input /\ Bad \subseteq Input
ASSUME NoneAssumption      == None \notin Input /\ None \notin Nat

Workers == 1 .. NThreads
Parts   == 1 .. 2

VARIABLES
    workload,
    queue,      \* the requests that are left: positions in the workload
    main,       \* where main is, and the thread that it deals with
    mutex,      \* who holds it
    worker,     \* where each worker is, its request, the input that its result
                \* was made from, and how far it is with its output
    calls,      \* the connections with a call that the server has not taken
    serving,    \* the connection of the call that it works on
    serverUp,
    disk,       \* the input that each part of each output was made from
    unwritten,  \* history: the requests whose output could not be opened
    exit        \* the status that the program ended with

lists      == <<workload, queue>>
serverVars == <<calls, serving, serverUp>>
files      == <<disk, unwritten>>
vars == <<lists, main, mutex, worker, serverVars, files, exit>>

TypeOK ==
    /\ workload \in Workloads
    /\ queue \in Seq(DOMAIN workload)
    /\ main \in [pc : {"create", "join"}, thread : 1 .. NThreads + 1]
    /\ worker \in [Workers ->
         [pc : {"none", "lock", "test", "read", "call", "wait", "open", "write",
                "left"},
          request : DOMAIN workload \cup {None}, reply : Input \cup {None},
          written : {0} \cup Parts]]
    /\ mutex \in Workers \cup {None}
    /\ mutex # None => worker[mutex].pc = "test"
    /\ calls \subseteq Workers /\ serving \in Workers \cup {None}
    /\ serverUp \in BOOLEAN
    /\ disk \in [Output -> [Parts -> Input \cup {None}]]
    /\ unwritten \subseteq DOMAIN workload
    /\ exit \in {None, 0, 1, 2, 3}

\* main has run load_requests.
Init ==
    /\ workload \in Workloads
    /\ queue = [i \in DOMAIN workload |-> i]
    /\ main = [pc |-> "create", thread |-> 1]
    /\ mutex = None
    /\ worker = [w \in Workers |-> [pc |-> "none", request |-> None,
                                    reply |-> None, written |-> 0]]
    /\ calls = {} /\ serving = None /\ serverUp \in BOOLEAN
    /\ disk = [o \in Output |-> [k \in Parts |-> None]]
    /\ unwritten = {} /\ exit = None

InputOf(w)  == workload[worker[w].request][1]
OutputOf(w) == workload[worker[w].request][2]

Goto(w, from, to) ==
    worker[w].pc = from /\ worker' = [worker EXCEPT ![w].pc = to]

-----------------------------------------------------------------------------
(***************************************************************************)
(* main.                                                                   *)
(***************************************************************************)
\* get_minify_client and pthread_create.
CreateThread ==
    /\ main.pc = "create"
    /\ \/ /\ main.thread <= NThreads /\ serverUp
          /\ Goto(main.thread, "none", "lock")
          /\ main' = [main EXCEPT !.thread = @ + 1]
          /\ UNCHANGED exit
       \/ /\ main.thread > NThreads
          /\ main' = [pc |-> "join", thread |-> 1]
          /\ UNCHANGED <<worker, exit>>
       \/ /\ main.thread <= NThreads /\ ~serverUp
          /\ exit' = 2
          /\ UNCHANGED <<main, worker>>
    /\ UNCHANGED <<lists, mutex, serverVars, files>>

\* pthread_join the threads in turn; then main returns.
JoinThread ==
    /\ main.pc = "join"
    /\ \/ /\ main.thread <= NThreads /\ worker[main.thread].pc = "left"
          /\ main' = [main EXCEPT !.thread = @ + 1]
          /\ UNCHANGED exit
       \/ /\ main.thread > NThreads
          /\ exit' = 0
          /\ UNCHANGED main
    /\ UNCHANGED <<lists, mutex, worker, serverVars, files>>

-----------------------------------------------------------------------------
(***************************************************************************)
(* worker_main.                                                            *)
(***************************************************************************)
Lock(w) ==
    /\ mutex = None
    /\ mutex' = w
    /\ Goto(w, "lock", "test")
    /\ UNCHANGED <<lists, main, serverVars, files, exit>>

\* A bug: the worker that finds the queue empty does not unlock.
HolderAfterTestKept(w) == IF queue = <<>> THEN w ELSE None

HolderAfterTest(w) == None

\* Take a request or leave, and unlock.
Test(w) ==
    /\ worker[w].pc = "test"
    /\ \/ /\ queue # <<>>
          /\ worker' = [worker EXCEPT ![w].pc = "read", ![w].request = Head(queue)]
          /\ queue'  = Tail(queue)
       \/ /\ queue = <<>>
          /\ worker' = [worker EXCEPT ![w].pc = "left"]
          /\ UNCHANGED queue
    /\ mutex' = HolderAfterTest(w)
    /\ UNCHANGED <<workload, main, serverVars, files, exit>>

\* read_from_file.
ReadFromFile(w) ==
    /\ \/ /\ Goto(w, "read", "call")
          /\ InputOf(w) \notin Missing
          /\ UNCHANGED exit
       \/ /\ worker[w].pc = "read" /\ InputOf(w) \in Missing
          /\ exit' = 1
          /\ UNCHANGED worker
    /\ UNCHANGED <<lists, main, mutex, serverVars, files>>

\* minify_via_rpc sends its call.
Call(w) ==
    /\ serverUp
    /\ Goto(w, "call", "wait")
    /\ calls' = calls \cup {w}
    /\ UNCHANGED <<lists, main, mutex, serving, serverUp, files, exit>>

\* The call fails: there is no server any more, or the time-out.
CallFails(w) ==
    /\ worker[w].pc = "wait" \/ (worker[w].pc = "call" /\ ~serverUp)
    /\ exit' = 3
    /\ UNCHANGED <<lists, main, mutex, worker, serverVars, files>>

\* The reply has come.
CallReturns(w) ==
    /\ worker[w].reply # None
    /\ Goto(w, "wait", "open")
    /\ UNCHANGED <<lists, main, mutex, serverVars, files, exit>>

\* The worker is done with its request.
Done(w) ==
    worker' = [worker EXCEPT ![w] = [pc |-> "lock", request |-> None,
                                     reply |-> None, written |-> 0]]

\* write_to_file opens the output, which empties it; nobody asks whether that
\* failed.
OpenOutput(w) ==
    /\ \/ /\ Goto(w, "open", "write")
          /\ disk' = [disk EXCEPT ![OutputOf(w)] = [k \in Parts |-> None]]
          /\ UNCHANGED unwritten
       \/ /\ worker[w].pc = "open"
          /\ unwritten' = unwritten \cup {worker[w].request}
          /\ Done(w)
          /\ UNCHANGED disk
    /\ UNCHANGED <<lists, main, mutex, serverVars, exit>>

\* write_to_file: the next part, or the end.
WriteOutput(w) ==
    /\ worker[w].pc = "write"
    /\ \/ /\ worker[w].written < 2
          /\ worker' = [worker EXCEPT ![w].written = @ + 1]
          /\ disk' = [disk EXCEPT ![OutputOf(w)][worker'[w].written] = worker[w].reply]
       \/ /\ worker[w].written = 2
          /\ Done(w)
          /\ UNCHANGED disk
    /\ UNCHANGED <<lists, main, mutex, serverVars, unwritten, exit>>

-----------------------------------------------------------------------------
(***************************************************************************)
(* The server: svc_run and image_prog_1.  It outlives the program.         *)
(***************************************************************************)
TakeCall ==
    /\ serverUp /\ serving = None
    /\ \E w \in calls : serving' = w /\ calls' = calls \ {w}
    /\ UNCHANGED <<lists, main, mutex, worker, serverUp, files, exit>>

\* magickminify makes an image smaller, and exits if it is given none.
IsImage(f) == f \notin Bad

\* A bug: the stubs are not generated with rpcgen -M, so that all calls of a
\* program have one static result.
HasResultStatic(w) == w = serving \/ worker[w].reply # None

\* svc_sendreply answers the call that is served.
HasResult(w) == w = serving

\* minify_image_1_svc and svc_sendreply; or BlobToImage finds no image, and the
\* server exits.
Minify ==
    /\ serverUp /\ serving # None
    /\ \/ /\ IsImage(InputOf(serving))
          /\ worker' = [w \in Workers |->
               IF HasResult(w) THEN [worker[w] EXCEPT !.reply = InputOf(serving)]
                               ELSE worker[w]]
          /\ UNCHANGED serverUp
       \/ /\ ~IsImage(InputOf(serving))
          /\ serverUp' = FALSE
          /\ UNCHANGED worker
    /\ serving' = None
    /\ UNCHANGED <<lists, main, mutex, calls, files, exit>>

-----------------------------------------------------------------------------
WorkerStep(w) ==
    \/ Lock(w) \/ Test(w) \/ ReadFromFile(w) \/ Call(w) \/ CallFails(w)
    \/ CallReturns(w) \/ OpenOutput(w) \/ WriteOutput(w)

MainStep   == CreateThread \/ JoinThread
ServerStep == TakeCall \/ Minify

Next ==
    /\ exit = None
    /\ MainStep \/ ServerStep \/ \E w \in Workers : WorkerStep(w)

Spec == Init /\ [][Next]_vars

\* Every thread runs, and a call ends, after 25 seconds if not before.
FairSpec ==
    /\ Spec
    /\ WF_vars(exit = None /\ MainStep)
    /\ \A w \in Workers : WF_vars(exit = None /\ WorkerStep(w))

-----------------------------------------------------------------------------
\* A program that ends with success has done all of its list: every input was
\* an image, and every output that is named once is whole and made from its own
\* input, except those that could not be opened.  Only the worker that tests the
\* queue ever holds the mutex.
SuccessMeansDone ==
    /\ TypeOK
    /\ exit = 0 =>
      \A i \in DOMAIN workload :
        /\ workload[i][1] \notin Missing \cup Bad
        /\ \/ i \in unwritten
           \/ \E j \in DOMAIN workload \ {i} : workload[j][2] = workload[i][2]
           \/ disk[workload[i][2]] = [k \in Parts |-> workload[i][1]]

\* The program ends: no worker keeps the queue from the others.
ProgramEnds == <>(exit # None)
=============================================================================
