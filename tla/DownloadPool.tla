---------------------------- MODULE DownloadPool -----------------------------
(***************************************************************************)
(* The multithreaded download client of project1 (gfclient_download.c):    *)
(* main, the boss, starts the workers, enqueues the requests, joins the    *)
(* workers and cleans up.  A worker dequeues a request, opens a local file *)
(* named after the path and a counter, downloads into it, and removes it   *)
(* if the download failed; it leaves when it finds the queue empty.        *)
(*                                                                         *)
(* Every use of request_queue is inside req_mutex, so it is a sequence and *)
(* lock, use and unlock are one step.  The counter of localPath has no     *)
(* lock.  A file is Pieces pieces long; one that several workers opened    *)
(* under the same name is one file, as long as the name stays.             *)
(***************************************************************************)
EXTENDS Integers, Sequences, FiniteSets

CONSTANTS
    Workers,
    NumRequests,    \* nrequests * nthreads
    Path,
    Workloads,      \* what the workload file may list
    Pieces,         \* the length of every file on the server
    None

ASSUME NumRequestsAssumption == NumRequests \in Nat
ASSUME PiecesAssumption      == Pieces \in Nat \ {0}
ASSUME WorkloadsAssumption   == Workloads \subseteq Seq(Path)
ASSUME NoneAssumption        ==
    None \notin Nat /\ None \notin [failed : BOOLEAN, ok : BOOLEAN]

Requests == 1 .. NumRequests
Names    == Path \X (0 .. NumRequests)

VARIABLES
    workload,   \* gWorkloadPathArray
    bpc,        \* where main is
    started,    \* the workers it created
    issued,     \* the requests it enqueued; the workload's counter is the same
    queue,      \* request_queue
    counter,    \* localPath's counter
    worker,     \* where each worker is; its request; the counter as it read it;
                \* the file it writes, named by the request that created it, and
                \* the pieces it wrote; the requests issued when it left
    disk,       \* the file that each name leads to
    content,    \* the pieces in each file
    outcome,    \* of each request: gfc_perform's result and the status
    exited      \* exit(EXIT_FAILURE), or SIGFPE

bossVars   == <<workload, bpc, started, issued>>
workerVars == <<worker, outcome>>
files      == <<disk, content>>
vars == <<bossVars, queue, counter, workerVars, files, exited>>

\* gfc_perform's sign, and whether the status is GF_OK.
Outcomes == [failed : BOOLEAN, ok : BOOLEAN]

TypeOK ==
    /\ workload \in Workloads
    /\ bpc \in {"create", "enqueue", "join", "done"}
    /\ started \subseteq Workers
    /\ issued \in 0 .. NumRequests
    /\ queue \in Seq(Requests)
    /\ counter \in 0 .. NumRequests
    /\ worker \in [Workers ->
         [pc : {"dequeue", "load", "store", "open", "perform", "unlink",
                "unlink_again", "left"},
          req : Requests \cup {None}, loaded : 0 .. NumRequests,
          fd : Requests \cup {None}, written : 0 .. Pieces,
          leftAt : 0 .. NumRequests]]
    /\ disk \in [Names -> Requests \cup {None}]
    /\ content \in [Requests -> SUBSET (1 .. Pieces)]
    /\ outcome \in [Requests -> Outcomes \cup {None}]
    /\ exited \in BOOLEAN

\* workload_init reads the file.
WorkloadInit == workload \in Workloads

NewWorker == [pc |-> "dequeue", req |-> None, loaded |-> 0, fd |-> None,
              written |-> 0, leftAt |-> 0]

Init ==
    /\ WorkloadInit
    /\ bpc = "create" /\ started = {} /\ issued = 0
    /\ queue = <<>>
    /\ counter = 0
    /\ worker  = [w \in Workers |-> NewWorker]
    /\ disk    = [n \in Names |-> None]
    /\ content = [r \in Requests |-> {}]
    /\ outcome = [r \in Requests |-> None]
    /\ exited  = FALSE

\* workload_get_path returns the entry counter % n, after counting up.
PathOf(r) == workload[(r % Len(workload)) + 1]

-----------------------------------------------------------------------------
(***************************************************************************)
(* main.                                                                   *)
(***************************************************************************)
\* thread_pool_init.  steque_init follows the last pthread_create; the queue
\* is empty before it too, and the workers that looked by then have left.
CreateThread ==
    /\ bpc = "create"
    /\ \/ \E w \in Workers \ started :
            started' = started \cup {w} /\ UNCHANGED bpc
       \/ started = Workers /\ bpc' = "enqueue" /\ UNCHANGED started
    /\ UNCHANGED <<workload, issued, queue, counter, workerVars, files, exited>>

\* A bug: one request too many.
MoreRequestsByOne == issued <= NumRequests

MoreRequests == issued < NumRequests

EnqueueWork ==
    /\ bpc = "enqueue"
    /\ \/ /\ MoreRequests /\ workload # <<>>
          /\ issued' = issued + 1
          /\ queue'  = Append(queue, issued')
          /\ UNCHANGED bpc
       \/ /\ ~MoreRequests
          /\ bpc' = "join"
          /\ UNCHANGED <<issued, queue>>
    /\ UNCHANGED <<workload, started, counter, workerVars, files, exited>>

\* An empty workload: counter % 0.
EmptyWorkload ==
    /\ bpc = "enqueue"
    /\ MoreRequests /\ workload = <<>>
    /\ exited' = TRUE
    /\ UNCHANGED <<bossVars, queue, counter, workerVars, files>>

\* A bug: main does not wait.
AllLeftIgnored == TRUE

AllLeft == \A w \in Workers : worker[w].pc = "left"

\* pthread_join every worker, then cleanup destroys the mutex.
Join ==
    /\ bpc = "join"
    /\ AllLeft
    /\ bpc' = "done"
    /\ UNCHANGED <<workload, started, issued, queue, counter, workerVars, files,
                   exited>>

-----------------------------------------------------------------------------
(***************************************************************************)
(* thread_main and perform_work.                                           *)
(***************************************************************************)
At(w, place) == w \in started /\ worker[w].pc = place

\* A bug: a worker waits for requests for ever, as those of the server do.
MayLeaveNever == FALSE

MayLeave == queue = <<>>

\* Take a request, or leave because there is none.
Dequeue(w) ==
    /\ At(w, "dequeue")
    /\ \/ /\ queue # <<>>
          /\ worker' = [worker EXCEPT ![w].pc = "load", ![w].req = Head(queue)]
          /\ queue'  = Tail(queue)
       \/ /\ MayLeave
          /\ worker' = [worker EXCEPT ![w].pc = "left", ![w].leftAt = issued]
          /\ UNCHANGED queue
    /\ UNCHANGED <<bossVars, counter, outcome, files, exited>>

\* localPath: counter++ is a load and a store.
LocalPath(w) ==
    /\ \/ /\ At(w, "load")
          /\ worker' = [worker EXCEPT ![w].pc = "store", ![w].loaded = counter]
          /\ UNCHANGED counter
       \/ /\ At(w, "store")
          /\ worker' = [worker EXCEPT ![w].pc = "open"]
          /\ counter' = worker[w].loaded + 1
    /\ UNCHANGED <<bossVars, queue, outcome, files, exited>>

Name(w) == <<PathOf(worker[w].req), worker[w].loaded>>

\* fopen truncates the file of that name, or creates one.
OpenFile(w) ==
    /\ At(w, "open")
    /\ LET file == IF disk[Name(w)] = None THEN worker[w].req ELSE disk[Name(w)] IN
         /\ disk'    = [disk EXCEPT ![Name(w)] = file]
         /\ content' = [content EXCEPT ![file] = {}]
         /\ worker'  = [worker EXCEPT ![w].pc = "perform", ![w].fd = file]
    /\ UNCHANGED <<bossVars, queue, counter, outcome, exited>>

\* mkdir or fopen fails: the process exits.
OpenFileFails(w) ==
    /\ At(w, "open")
    /\ exited' = TRUE
    /\ UNCHANGED <<bossVars, queue, counter, workerVars, files>>

\* writecb appends the next piece to the worker's file.
Write(w) ==
    /\ At(w, "perform") /\ worker[w].written < Pieces
    /\ worker'  = [worker EXCEPT ![w].written = @ + 1]
    /\ content' = [content EXCEPT ![worker[w].fd] = @ \cup {worker'[w].written}]
    /\ UNCHANGED <<bossVars, queue, counter, outcome, disk, exited>>

\* A bug: only a status other than GF_OK removes the file.
AfterPerformKeepsPart(o) == IF ~o.ok THEN "unlink_again" ELSE "dequeue"

\* A bug: the test of gfc_perform's result is the wrong way round.
AfterPerformInverted(o) == IF o.failed THEN "unlink_again" ELSE "unlink"

\* A file is unlinked once if the request failed and once if its status is not
\* GF_OK.
AfterPerform(o) ==
    IF o.failed THEN "unlink" ELSE IF ~o.ok THEN "unlink_again" ELSE "dequeue"

\* The worker goes on; after the last step it is done with its request.
Proceed(x, place) ==
    IF place = "dequeue" THEN [NewWorker EXCEPT !.leftAt = x.leftAt]
                         ELSE [x EXCEPT !.pc = place, !.fd = None]

\* gfc_perform returns, and the file is closed: the whole file, an error of
\* any kind, or, before any byte, a header that says there is none.
PerformWork(w) ==
    /\ At(w, "perform")
    /\ \E o \in Outcomes :
         /\ ~o.failed => worker[w].written = IF o.ok THEN Pieces ELSE 0
         /\ outcome' = [outcome EXCEPT ![worker[w].req] = o]
         /\ worker'  = [worker EXCEPT ![w] = Proceed(@, AfterPerform(o))]
    /\ UNCHANGED <<bossVars, queue, counter, files, exited>>

\* unlink(local_path); a name that leads nowhere is only reported.
Unlink(w) ==
    /\ \/ /\ At(w, "unlink")
          /\ worker' = [worker EXCEPT ![w] =
               Proceed(@, IF outcome[@.req].ok THEN "dequeue" ELSE "unlink_again")]
       \/ /\ At(w, "unlink_again")
          /\ worker' = [worker EXCEPT ![w] = Proceed(@, "dequeue")]
    /\ disk' = [disk EXCEPT ![Name(w)] = None]
    /\ UNCHANGED <<bossVars, queue, counter, outcome, content, exited>>

WorkerStep(w) ==
    \/ Dequeue(w) \/ LocalPath(w) \/ OpenFile(w) \/ Write(w) \/ PerformWork(w)
    \/ Unlink(w)

BossStep == CreateThread \/ EnqueueWork \/ EmptyWorkload \/ Join

Next ==
    /\ ~exited
    /\ BossStep \/ \E w \in Workers : WorkerStep(w) \/ OpenFileFails(w)

Spec == Init /\ [][Next]_vars

\* Every thread runs, and gfc_perform returns: each read of the socket has a
\* time-out of a second.
FairSpec ==
    /\ Spec
    /\ WF_vars(~exited /\ BossStep)
    /\ \A w \in Workers : WF_vars(~exited /\ WorkerStep(w))

-----------------------------------------------------------------------------
Downloaded(r) == outcome[r] = [failed |-> FALSE, ok |-> TRUE]
Whole(f) == content[f] = 1 .. Pieces

\* After the last download every file that is left is whole: nothing of a
\* failed download remains, whichever workers shared a name and whoever
\* removed it.
OnlyWholeFilesRemain ==
    bpc = "done" => \A n \in Names : disk[n] # None => Whole(disk[n])

\* Two requests for different paths never get in each other's way: a download
\* that succeeded, of a path that nothing else asks for, is on disk.
DownloadsKept ==
    bpc = "done" =>
      \A r \in Requests :
        /\ Downloaded(r)
        /\ \A q \in 1 .. issued \ {r} : PathOf(q) # PathOf(r)
        => \E n \in Names : n[1] = PathOf(r) /\ disk[n] # None /\ Whole(disk[n])

\* main cleans up although requests are left only if every worker had left
\* before they were enqueued.
OnlyLateRequestsLeft ==
    bpc = "done" =>
      \A r \in Requests :
        outcome[r] = None =>
          \A w \in Workers : worker[w].pc = "left" /\ worker[w].leftAt < r

\* The client ends: no worker waits for a request that never comes.
ClientEnds == <>(exited \/ bpc = "done")
=============================================================================
