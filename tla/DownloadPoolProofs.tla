-------------------------- MODULE DownloadPoolProofs --------------------------
(***************************************************************************)
(* What the download client leaves behind (DownloadPool), for every        *)
(* workload, number of workers, requests and pieces: only whole files,     *)
(* every download that nothing else got in the way of, and no request but  *)
(* those that came too late.                                               *)
(***************************************************************************)
EXTENDS DownloadPool, FiniteSetTheorems, TLAPS

-----------------------------------------------------------------------------
(***************************************************************************)
(* The invariant.                                                          *)
(***************************************************************************)
WorkerState ==
    [pc : {"dequeue", "load", "store", "open", "perform", "unlink", "unlink_again", "left"},
     req : Requests \cup {None}, loaded : 0 .. NumRequests, fd : Requests \cup {None},
     written : 0 .. Pieces, leftAt : 0 .. NumRequests]

\* The requests are dequeued in order.
Taken == issued - Len(queue)

QueueInv ==
    /\ Len(queue) <= issued
    /\ \A k \in DOMAIN queue : queue[k] = Taken + k
    /\ workload = <<>> => issued = 0

\* Worker w has request r and no file for it yet.
Naming(w, r) == worker[w].req = r /\ worker[w].pc \in {"load", "store", "open"}

\* The requests for which the counter was stored.
Stored ==
    {r \in 1 .. Taken :
       \A w \in Workers : ~(worker[w].req = r /\ worker[w].pc \in {"load", "store"})}

\* No lost update makes the counter run ahead of the requests.
CounterInv ==
    /\ counter <= Cardinality(Stored)
    /\ \A w \in Workers : worker[w].pc = "store" => worker[w].loaded <= Cardinality(Stored)

\* No other request has the path of request r.
Alone(r) == \A q \in 1 .. issued \ {r} : PathOf(q) # PathOf(r)

WorkerInv(w) == LET x == worker[w] IN
    /\ x.pc \in {"dequeue", "left"} <=> x.req = None
    /\ x.req # None => x.req \in 1 .. Taken
    /\ x.pc = "perform" => x.fd # None
    /\ x.fd # None => x.fd \in 1 .. Taken /\ \A v \in Workers : ~Naming(v, x.fd)
    /\ x.pc \in {"dequeue", "load", "store", "open"} => x.written = 0
    /\ x.pc = "perform" /\ Alone(x.req) => disk[Name(w)] # None
    /\ x.pc \in {"unlink", "unlink_again"} => outcome[x.req] # None /\ ~Downloaded(x.req)
    /\ x.pc = "left" => x.leftAt <= Taken

\* No two workers have the same request.
Distinct ==
    \A v, w \in Workers :
      v # w /\ worker[v].req = worker[w].req => worker[v].req = None

\* A file has one name, and the request that created it.
NamesInv ==
    /\ \A n \in Names : disk[n] # None =>
         disk[n] \in 1 .. Taken /\ \A w \in Workers : ~Naming(w, disk[n])
    /\ \A m, n \in Names : disk[m] = disk[n] /\ disk[m] # None => m = n

\* Worker w will make the file of name n whole, as the last that opened it, or
\* remove it.
Cares(w, n) ==
    /\ worker[w].req # None /\ Name(w) = n
    /\ \/ /\ worker[w].pc = "perform" /\ worker[w].fd = disk[n]
          /\ 1 .. worker[w].written \subseteq content[disk[n]]
       \/ worker[w].pc \in {"unlink", "unlink_again"}

PartsInv ==
    \A n \in Names : disk[n] # None => Whole(disk[n]) \/ \E w \in Workers : Cares(w, n)

OutcomeInv ==
    \A r \in Requests :
      /\ outcome[r] = None => r > Taken \/ \E w \in Workers : worker[w].req = r
      /\ Downloaded(r) /\ Alone(r) => \E n \in Names : n[1] = PathOf(r) /\ disk[n] # None

BossInv ==
    /\ bpc \in {"join", "done"} => issued = NumRequests
    /\ bpc = "done" => AllLeft

DownloadInv ==
    /\ TypeOK /\ QueueInv /\ CounterInv /\ Distinct /\ NamesInv /\ PartsInv /\ OutcomeInv
    /\ BossInv
    /\ \A w \in Workers : WorkerInv(w)

-----------------------------------------------------------------------------
(***************************************************************************)
(* Facts that every step needs.                                            *)
(***************************************************************************)
LEMMA CountsAre ==
    ASSUME TypeOK, QueueInv
    PROVE  /\ Len(queue) \in Nat /\ issued \in Nat /\ NumRequests \in Nat
           /\ issued <= NumRequests /\ Taken \in Nat /\ Taken <= issued
           /\ \A r \in 1 .. issued : r \in Requests /\ PathOf(r) \in Path
           /\ \A r \in 1 .. Taken : r \in Requests /\ r \in 1 .. issued
           /\ None \notin Requests
<1>1. Len(queue) \in Nat /\ issued \in 0 .. NumRequests /\ workload \in Seq(Path)
      BY WorkloadsAssumption DEF TypeOK
<1>2. issued \in Nat /\ issued <= NumRequests /\ Taken \in Nat /\ Taken <= issued
      BY <1>1, NumRequestsAssumption DEF Taken, QueueInv
<1>3. \A r \in 1 .. issued : r \in Requests
      BY <1>2, NumRequestsAssumption DEF Requests
<1>4. ASSUME NEW r \in 1 .. issued PROVE PathOf(r) \in Path
  <2>1. workload # <<>> /\ Len(workload) \in Nat \ {0}
        BY <1>1, <1>2, <1>4 DEF QueueInv
  <2>2. r % Len(workload) \in 0 .. Len(workload) - 1
        BY <1>2, <2>1
  <2>3. (r % Len(workload)) + 1 \in 1 .. Len(workload)
        BY <2>1, <2>2
  <2>.  QED BY <1>1, <2>3 DEF PathOf
<1>5. None \notin Requests
      BY NoneAssumption, NumRequestsAssumption DEF Requests
<1>. QED BY <1>1, <1>2, <1>3, <1>4, <1>5, NumRequestsAssumption

\* What a worker has.
LEMMA WorkerIs ==
    ASSUME DownloadInv, NEW w \in Workers
    PROVE  /\ worker[w] \in WorkerState /\ WorkerInv(w)
           /\ worker[w].req # None =>
                /\ worker[w].req \in 1 .. Taken /\ worker[w].req \in Requests
                /\ Name(w) \in Names /\ Name(w)[1] = PathOf(worker[w].req)
           /\ worker[w].pc = "perform" => worker[w].fd \in Requests
<1>1. TypeOK /\ QueueInv /\ WorkerInv(w)
      BY DEF DownloadInv
<1>2. worker[w] \in WorkerState
      BY <1>1 DEF TypeOK, WorkerState
<1>3. worker[w].loaded \in 0 .. NumRequests
      BY <1>2 DEF WorkerState
<1>4. worker[w].req # None => worker[w].req \in 1 .. Taken
      BY <1>1 DEF WorkerInv
<1>5. worker[w].req # None => worker[w].req \in Requests /\ PathOf(worker[w].req) \in Path
      BY <1>1, <1>4, CountsAre
<1>6. worker[w].pc = "perform" => worker[w].fd \in Requests
      BY <1>1, CountsAre DEF WorkerInv
<1>. QED BY <1>1, <1>2, <1>3, <1>4, <1>5, <1>6 DEF Name, Names

\* The requests whose counter was stored can be counted.
LEMMA StoredIs ==
    ASSUME TypeOK, QueueInv
    PROVE  /\ IsFiniteSet(Stored) /\ Cardinality(Stored) \in Nat
           /\ Cardinality(Stored) <= NumRequests
<1>1. Taken \in Nat /\ Taken <= NumRequests /\ NumRequests \in Nat
      BY CountsAre
<1>2. IsFiniteSet(1 .. Taken) /\ Cardinality(1 .. Taken) = Taken
      BY <1>1, FS_Interval
<1>3. Stored \subseteq 1 .. Taken
      BY DEF Stored
<1>4. IsFiniteSet(Stored) /\ Cardinality(Stored) <= Taken
      BY <1>2, <1>3, FS_Subset
<1>. QED BY <1>1, <1>4, FS_CardinalityType

\* A worker keeps its invariant while its name and its outcome are left alone.
LEMMA WorkerFrame ==
    ASSUME DownloadInv, NEW v \in Workers, worker'[v] = worker[v], workload' = workload,
           issued' \in Nat, issued <= issued', Taken' \in Nat, Taken <= Taken',
           \A w \in Workers : \A r \in 1 .. Taken : Naming(w, r)' => Naming(w, r),
           worker[v].pc = "perform" /\ Alone(worker[v].req) => disk'[Name(v)] # None,
           worker[v].pc \in {"unlink", "unlink_again"} =>
             outcome'[worker[v].req] = outcome[worker[v].req]
    PROVE  WorkerInv(v)'
<1>1. /\ WorkerInv(v) /\ issued \in Nat /\ Taken \in Nat
      BY WorkerIs, CountsAre DEF DownloadInv
<1>2. PICK x : x = worker[v] /\ x = worker'[v]
      OBVIOUS
<1>3. Name(v)' = Name(v) /\ (\A r : PathOf(r)' = PathOf(r))
      BY DEF Name, PathOf
<1>4. Alone(x.req)' => Alone(x.req)
      BY <1>1, <1>3 DEF Alone
<1>5. /\ x.req # None => x.req \in 1 .. Taken'
      /\ x.pc = "left" => x.leftAt <= Taken'
  <2>1. x.leftAt \in Nat
        BY <1>2, WorkerIs, NumRequestsAssumption DEF WorkerState
  <2>.  QED BY <1>1, <1>2, <2>1 DEF WorkerInv
<1>6. x.fd # None => x.fd \in 1 .. Taken' /\ \A w \in Workers : ~Naming(w, x.fd)'
  <2>1. x.fd # None => x.fd \in 1 .. Taken /\ \A w \in Workers : ~Naming(w, x.fd)
        BY <1>1, <1>2 DEF WorkerInv
  <2>.  QED BY <1>1, <2>1
<1>7. Downloaded(x.req)' <=> outcome'[x.req] = [failed |-> FALSE, ok |-> TRUE]
      BY <1>2 DEF Downloaded
<1>8. x.pc \in {"unlink", "unlink_again"} => outcome'[x.req] # None /\ ~Downloaded(x.req)'
      BY <1>1, <1>2, <1>7 DEF WorkerInv, Downloaded
<1>9. x.pc = "perform" /\ Alone(x.req)' => disk'[Name(v)'] # None
      BY <1>2, <1>3, <1>4
<1>. QED BY <1>1, <1>2, <1>5, <1>6, <1>8, <1>9 DEF WorkerInv

\* A step of one worker that keeps its request or is done with it.
LEMMA OwnStep ==
    ASSUME DownloadInv, NEW w \in Workers, NEW x \in WorkerState,
           worker' = [worker EXCEPT ![w] = x], worker[w].pc # "left",
           UNCHANGED <<bossVars, queue, exited>>,
           x.req = worker[w].req \/ x.req = None,
           x.pc \in {"load", "store", "open"} => worker[w].pc \in {"load", "store", "open"},
           x.pc \in {"load", "store"} => worker[w].pc \in {"load", "store"}
    PROVE  /\ worker' \in [Workers -> WorkerState] /\ worker'[w] = x
           /\ \A v \in Workers \ {w} : worker'[v] = worker[v]
           /\ workload' = workload /\ issued' = issued /\ Taken' = Taken
           /\ issued' \in Nat /\ Taken' \in Nat /\ issued <= issued' /\ Taken <= Taken'
           /\ QueueInv' /\ Distinct' /\ BossInv'
           /\ \A v \in Workers : \A r \in 1 .. Taken : Naming(v, r)' => Naming(v, r)
           /\ \A r : PathOf(r)' = PathOf(r) /\ Alone(r)' = Alone(r)
           /\ \A v \in Workers \ {w} : Name(v)' = Name(v)
           /\ IsFiniteSet(Stored') /\ Stored \subseteq Stored'
           /\ Cardinality(Stored') \in Nat /\ Cardinality(Stored) \in Nat
           /\ Cardinality(Stored') <= NumRequests
           /\ Cardinality(Stored) <= Cardinality(Stored')
<1>1. TypeOK /\ QueueInv /\ worker \in [Workers -> WorkerState]
      BY DEF DownloadInv, TypeOK, WorkerState
<1>2. worker'[w] = x /\ \A v \in Workers \ {w} : worker'[v] = worker[v]
      BY <1>1
<1>3. worker' \in [Workers -> WorkerState]
      BY <1>1
<1>4. /\ workload' = workload /\ bpc' = bpc /\ started' = started /\ issued' = issued
      /\ queue' = queue /\ Taken' = Taken
      BY DEF bossVars, Taken
<1>5. issued \in Nat /\ Taken \in Nat /\ None \notin Requests /\ NumRequests \in Nat
      BY <1>1, CountsAre
<1>6. QueueInv' /\ Distinct'
      BY <1>1, <1>2, <1>4 DEF QueueInv, DownloadInv, Distinct
<1>7. BossInv'
      BY <1>4 DEF DownloadInv, BossInv, AllLeft
<1>8. \A r \in 1 .. Taken : r # None
      BY <1>1, CountsAre
<1>9. ASSUME NEW v \in Workers, NEW r \in 1 .. Taken, Naming(v, r)' PROVE Naming(v, r)
      BY <1>2, <1>8, <1>9 DEF Naming
<1>10. \A r : PathOf(r)' = PathOf(r) /\ Alone(r)' = Alone(r)
      BY <1>4 DEF PathOf, Alone
<1>11. \A v \in Workers \ {w} : Name(v)' = Name(v)
      BY <1>2, <1>10 DEF Name
<1>12. Stored \subseteq Stored'
      BY <1>2, <1>4, <1>8 DEF Stored
<1>13. /\ IsFiniteSet(Stored) /\ Cardinality(Stored) \in Nat
      BY <1>1, StoredIs
<1>14. Taken <= NumRequests /\ IsFiniteSet(1 .. Taken) /\ Cardinality(1 .. Taken) = Taken
      BY <1>1, <1>5, CountsAre, FS_Interval
<1>15. Stored' \subseteq 1 .. Taken
      BY <1>4 DEF Stored
<1>16. /\ IsFiniteSet(Stored') /\ Cardinality(Stored') <= Taken
       /\ Cardinality(Stored') \in Nat
      BY <1>14, <1>15, FS_Subset, FS_CardinalityType
<1>17. Cardinality(Stored) <= Cardinality(Stored')
      BY <1>12, <1>16, FS_Subset
<1>18. Cardinality(Stored') <= NumRequests
      BY <1>5, <1>14, <1>16
<1>. QED BY <1>2, <1>3, <1>4, <1>5, <1>6, <1>7, <1>9, <1>10, <1>11, <1>12, <1>13, <1>16,
            <1>17, <1>18

-----------------------------------------------------------------------------
(***************************************************************************)
(* main's steps.                                                           *)
(***************************************************************************)
\* A step that only moves main on, or ends the process.
LEMMA Quiet ==
    ASSUME DownloadInv, TypeOK', BossInv',
           UNCHANGED <<workload, issued, queue, counter, worker, outcome, disk, content>>
    PROVE  DownloadInv'
<1>1. Taken' = Taken /\ (\A w, r : Naming(w, r)' = Naming(w, r))
      /\ (\A r : PathOf(r)' = PathOf(r))
      BY DEF Taken, Naming, PathOf
<1>2. Stored' = Stored /\ (\A r : Alone(r)' = Alone(r)) /\ (\A w : Name(w)' = Name(w))
      /\ (\A r : Downloaded(r)' = Downloaded(r)) /\ (\A f : Whole(f)' = Whole(f))
      BY <1>1 DEF Stored, Alone, Name, Downloaded, Whole
<1>3. QueueInv' /\ CounterInv' /\ Distinct'
      BY <1>1, <1>2 DEF DownloadInv, QueueInv, CounterInv, Distinct
<1>4. NamesInv' /\ PartsInv'
  <2>1. \A w, n : Cares(w, n)' = Cares(w, n)
        BY <1>2 DEF Cares
  <2>.  QED BY <1>1, <1>2, <2>1 DEF DownloadInv, NamesInv, PartsInv
<1>5. OutcomeInv'
      BY <1>1, <1>2 DEF DownloadInv, OutcomeInv
<1>6. ASSUME NEW w \in Workers PROVE WorkerInv(w)'
  <2>1. WorkerInv(w)
        BY DEF DownloadInv
  <2>.  QED BY <1>1, <1>2, <2>1 DEF WorkerInv
<1>. QED BY <1>3, <1>4, <1>5, <1>6 DEF DownloadInv

LEMMA InvCreateThread ==
    ASSUME DownloadInv, CreateThread
    PROVE  DownloadInv'
<1>1. /\ UNCHANGED <<workload, issued, queue, counter, worker, outcome, disk, content, exited>>
      /\ bpc = "create" /\ started' \subseteq Workers /\ bpc' \in {"create", "enqueue"}
      BY DEF CreateThread, workerVars, files, DownloadInv, TypeOK
<1>2. TypeOK'
      BY <1>1 DEF DownloadInv, TypeOK
<1>3. BossInv'
      BY <1>1 DEF BossInv
<1>. QED BY <1>1, <1>2, <1>3, Quiet

\* The process exits: no path, or a file that cannot be opened.
LEMMA InvExits ==
    ASSUME DownloadInv, exited' = TRUE,
           UNCHANGED <<bossVars, queue, counter, workerVars, files>>
    PROVE  DownloadInv'
<1>1. UNCHANGED <<workload, bpc, started, issued, queue, counter, worker, outcome, disk,
                  content>>
      BY DEF bossVars, workerVars, files
<1>2. TypeOK'
      BY <1>1 DEF DownloadInv, TypeOK
<1>3. BossInv'
      BY <1>1 DEF DownloadInv, BossInv, AllLeft
<1>. QED BY <1>1, <1>2, <1>3, Quiet

LEMMA InvJoin ==
    ASSUME DownloadInv, Join
    PROVE  DownloadInv'
<1>1. /\ UNCHANGED <<workload, started, issued, queue, counter, worker, outcome, disk,
                     content, exited>>
      /\ bpc = "join" /\ AllLeft /\ bpc' = "done"
      BY DEF Join, workerVars, files
<1>2. TypeOK'
      BY <1>1 DEF DownloadInv, TypeOK
<1>3. BossInv'
      BY <1>1 DEF DownloadInv, BossInv, AllLeft
<1>. QED BY <1>1, <1>2, <1>3, Quiet

\* The queue after a request was appended.
LEMMA InvEnqueueWork ==
    ASSUME DownloadInv, EnqueueWork
    PROVE  DownloadInv'
<1>1. /\ UNCHANGED <<workload, started, counter, worker, outcome, disk, content, exited>>
      /\ bpc = "enqueue"
      BY DEF EnqueueWork, workerVars, files
<1>2. /\ TypeOK /\ QueueInv /\ Len(queue) \in Nat /\ issued \in Nat /\ NumRequests \in Nat
      /\ Taken \in Nat /\ Taken <= issued /\ issued <= NumRequests
      BY CountsAre DEF DownloadInv
<1>3. CASE ~MoreRequests /\ bpc' = "join" /\ UNCHANGED <<issued, queue>>
  <2>1. issued = NumRequests
        BY <1>2, <1>3 DEF MoreRequests
  <2>2. TypeOK'
        BY <1>1, <1>2, <1>3 DEF TypeOK
  <2>3. BossInv'
        BY <1>3, <2>1 DEF BossInv
  <2>.  QED BY <1>1, <1>3, <2>2, <2>3, Quiet
<1>4. CASE /\ MoreRequests /\ workload # <<>> /\ issued' = issued + 1
           /\ queue' = Append(queue, issued') /\ UNCHANGED bpc
  <2>1. issued' \in Requests /\ issued' \in 0 .. NumRequests
        BY <1>2, <1>4 DEF MoreRequests, Requests
  <2>2. queue \in Seq(Requests)
        BY <1>2 DEF TypeOK
  <2>3. /\ queue' \in Seq(Requests) /\ Len(queue') = Len(queue) + 1
        /\ DOMAIN queue' = 1 .. Len(queue) + 1
        /\ \A k \in 1 .. Len(queue) : queue'[k] = queue[k]
        /\ queue'[Len(queue) + 1] = issued + 1
        BY <1>2, <1>4, <2>1, <2>2
  <2>4. TypeOK'
        BY <1>1, <1>2, <1>4, <2>1, <2>3 DEF TypeOK
  <2>5. Taken' = Taken
        BY <1>2, <1>4, <2>3 DEF Taken
  <2>6. QueueInv'
    <3>1. \A k \in 1 .. Len(queue) : queue[k] = Taken + k
          BY <1>2, <2>2 DEF QueueInv
    <3>2. issued + 1 = Taken + (Len(queue) + 1)
          BY <1>2 DEF Taken
    <3>3. \A k \in 1 .. Len(queue) + 1 : k \in 1 .. Len(queue) \/ k = Len(queue) + 1
          BY <1>2
    <3>4. \A k \in 1 .. Len(queue) + 1 : queue'[k] = Taken + k
          BY <2>3, <3>1, <3>2, <3>3
    <3>5. Len(queue') <= issued'
          BY <1>2, <1>4, <2>3 DEF QueueInv
    <3>.  QED BY <1>1, <1>4, <2>3, <2>5, <3>4, <3>5 DEF QueueInv
  <2>7. /\ (\A w, r : Naming(w, r)' = Naming(w, r)) /\ (\A r : PathOf(r)' = PathOf(r))
        /\ (\A w : Name(w)' = Name(w)) /\ (\A r : Downloaded(r)' = Downloaded(r))
        /\ (\A f : Whole(f)' = Whole(f)) /\ Stored' = Stored
        BY <1>1, <2>5 DEF Naming, PathOf, Name, Downloaded, Whole, Stored
  <2>8. \A r : Alone(r)' => Alone(r)
        BY <1>2, <1>4, <2>7 DEF Alone
  <2>9. CounterInv' /\ Distinct' /\ NamesInv' /\ PartsInv'
    <3>1. \A w, n : Cares(w, n)' = Cares(w, n)
          BY <1>1, <2>7 DEF Cares
    <3>.  QED BY <1>1, <2>5, <2>7, <3>1 DEF DownloadInv, CounterInv, Distinct, NamesInv, PartsInv
  <2>10. OutcomeInv'
        BY <1>1, <2>5, <2>7, <2>8 DEF DownloadInv, OutcomeInv
  <2>11. BossInv'
        BY <1>1, <1>4 DEF BossInv
  <2>12. ASSUME NEW w \in Workers PROVE WorkerInv(w)'
    <3>1. issued' \in Nat /\ issued <= issued' /\ Taken' \in Nat /\ Taken <= Taken'
          BY <1>2, <1>4, <2>5
    <3>2. worker[w].pc = "perform" /\ Alone(worker[w].req) => disk'[Name(w)] # None
          BY <1>1 DEF DownloadInv, WorkerInv
    <3>.  QED BY <1>1, <2>7, <3>1, <3>2, WorkerFrame
  <2>.  QED BY <2>4, <2>6, <2>9, <2>10, <2>11, <2>12 DEF DownloadInv
<1>. QED BY <1>3, <1>4 DEF EnqueueWork

-----------------------------------------------------------------------------
(***************************************************************************)
(* The workers' steps.                                                     *)
(***************************************************************************)
\* The queue after its first request was taken.
LEMMA TailIs ==
    ASSUME TypeOK, QueueInv, queue # <<>>
    PROVE  /\ Head(queue) = Taken + 1 /\ Taken + 1 \in Requests
           /\ Tail(queue) \in Seq(Requests) /\ Len(Tail(queue)) = Len(queue) - 1
           /\ \A k \in DOMAIN Tail(queue) : Tail(queue)[k] = Taken + 1 + k
<1>1. queue \in Seq(Requests) /\ Len(queue) \in Nat /\ Len(queue) # 0
      BY DEF TypeOK
<1>2. /\ Tail(queue) \in Seq(Requests) /\ Len(Tail(queue)) = Len(queue) - 1
      /\ \A k \in 1 .. Len(queue) - 1 : Tail(queue)[k] = queue[k + 1]
      /\ Head(queue) = queue[1] /\ DOMAIN queue = 1 .. Len(queue)
      /\ DOMAIN Tail(queue) = 1 .. Len(queue) - 1
      BY <1>1
<1>3. Taken \in Nat /\ \A k \in DOMAIN queue : queue[k] = Taken + k
      BY CountsAre DEF QueueInv
<1>4. 1 \in DOMAIN queue /\ \A k \in 1 .. Len(queue) - 1 : k + 1 \in DOMAIN queue
      BY <1>1, <1>2
<1>5. Head(queue) = Taken + 1 /\ Head(queue) \in Requests
      BY <1>1, <1>2, <1>3, <1>4
<1>6. ASSUME NEW k \in DOMAIN Tail(queue) PROVE Tail(queue)[k] = Taken + 1 + k
  <2>1. k \in 1 .. Len(queue) - 1 /\ Tail(queue)[k] = queue[k + 1] /\ k \in Int
        BY <1>1, <1>2
  <2>2. queue[k + 1] = Taken + (k + 1)
        BY <1>3, <1>4, <2>1
  <2>.  QED BY <1>3, <2>1, <2>2
<1>. QED BY <1>2, <1>5, <1>6

\* A worker takes the first request.
LEMMA InvTake ==
    ASSUME DownloadInv, NEW w \in Workers, worker[w].pc = "dequeue", queue # <<>>,
           worker' = [worker EXCEPT ![w].pc = "load", ![w].req = Head(queue)],
           queue' = Tail(queue), UNCHANGED <<bossVars, counter, outcome, files, exited>>
    PROVE  DownloadInv'
<1>1. /\ UNCHANGED <<workload, bpc, started, issued, counter, outcome, disk, content, exited>>
      BY DEF bossVars, files
<1>2. /\ TypeOK /\ QueueInv /\ Len(queue) \in Nat /\ issued \in Nat /\ Taken \in Nat
      /\ None \notin Requests /\ worker \in [Workers -> WorkerState] /\ WorkerInv(w)
      /\ worker[w] \in WorkerState
      BY CountsAre, WorkerIs DEF DownloadInv, TypeOK, WorkerState
<1>3. PICK i \in Requests :
        /\ i = Head(queue) /\ i = Taken + 1 /\ i # None
        /\ queue' \in Seq(Requests) /\ Len(queue') = Len(queue) - 1
        /\ \A k \in DOMAIN queue' : queue'[k] = i + k
      BY <1>2, TailIs
<1>4. Taken' = i /\ Taken' = Taken + 1 /\ i \in 1 .. i /\ i \notin 1 .. Taken /\ i \in Nat
      BY <1>1, <1>2, <1>3 DEF Taken
<1>5. worker[w].req = None /\ worker[w].written = 0
      BY <1>2 DEF WorkerInv
<1>6. PICK x \in WorkerState :
        /\ worker' = [worker EXCEPT ![w] = x]
        /\ x.pc = "load" /\ x.req = i /\ x.written = 0 /\ x.fd = worker[w].fd
  <2> DEFINE y == [worker[w] EXCEPT !.pc = "load", !.req = i]
  <2>1. /\ y \in WorkerState /\ y.pc = "load" /\ y.req = i /\ y.written = 0
        /\ y.fd = worker[w].fd
        BY <1>2, <1>5 DEF WorkerState
  <2>2. worker' = [worker EXCEPT ![w] = y]
        BY <1>2, <1>3
  <2>.  QED BY <2>1, <2>2
<1>8. /\ worker'[w] = x /\ \A v \in Workers \ {w} : worker'[v] = worker[v]
      /\ worker' \in [Workers -> WorkerState]
      BY <1>2, <1>6
<1>9. TypeOK'
      BY <1>1, <1>2, <1>3, <1>8 DEF TypeOK, WorkerState
<1>10. QueueInv'
      BY <1>1, <1>2, <1>3, <1>4 DEF QueueInv
<1>11. \A v \in Workers : worker[v].req # None => worker[v].req \in 1 .. Taken
      BY WorkerIs
<1>12. Distinct'
  <2>1. \A v \in Workers : worker[v].req # i
        BY <1>3, <1>4, <1>11
  <2>2. worker'[w].req = i
        BY <1>6, <1>8
  <2>.  QED BY <1>8, <2>1, <2>2 DEF DownloadInv, Distinct
<1>13. ASSUME NEW v \in Workers, NEW r \in 1 .. Taken, Naming(v, r)' PROVE Naming(v, r)
  <2>1. worker'[v].req = r /\ r # i
        BY <1>4, <1>13 DEF Naming
  <2>2. v # w
        BY <1>6, <1>8, <2>1
  <2>.  QED BY <1>8, <1>13, <2>2 DEF Naming
<1>14. Stored' = Stored
  <2>1. \A r \in 1 .. Taken' : r \in 1 .. Taken \/ r = i
        BY <1>2, <1>4
  <2>2. i \notin Stored'
        BY <1>6, <1>8 DEF Stored
  <2>3. \A r \in 1 .. Taken : r # None /\ r # i /\ r \in 1 .. Taken'
        BY <1>2, <1>4, CountsAre
  <2>4. \A r \in 1 .. Taken : r \in Stored' <=> r \in Stored
    <3>1. worker'[w].req = i
          BY <1>6, <1>8
    <3>2. \A v \in Workers, r \in 1 .. Taken : worker'[v].req = r <=> worker[v].req = r
          BY <1>5, <1>8, <2>3, <3>1
    <3>3. \A v \in Workers, r \in 1 .. Taken :
            worker[v].req = r => worker'[v].pc = worker[v].pc
          BY <1>5, <1>8, <2>3
    <3>.  QED BY <2>3, <3>2, <3>3 DEF Stored
  <2>5. (\A r \in Stored' : r \in 1 .. Taken') /\ (\A r \in Stored : r \in 1 .. Taken)
        BY DEF Stored
  <2>.  QED BY <2>1, <2>2, <2>4, <2>5
<1>15. CounterInv'
      BY <1>1, <1>6, <1>8, <1>14 DEF DownloadInv, CounterInv
<1>16. NamesInv'
      BY <1>1, <1>2, <1>4, <1>13 DEF DownloadInv, NamesInv
<1>17. /\ (\A r : PathOf(r)' = PathOf(r)) /\ (\A f : Whole(f)' = Whole(f))
       /\ (\A r : Alone(r)' = Alone(r)) /\ (\A r : Downloaded(r)' = Downloaded(r))
      BY <1>1 DEF PathOf, Whole, Alone, Downloaded
<1>18. PartsInv'
  <2>1. \A v \in Workers : \A n \in Names : Cares(v, n) => Cares(v, n)'
        BY <1>1, <1>5, <1>8, <1>17 DEF Cares, Name
  <2>.  QED BY <1>1, <1>17, <2>1 DEF DownloadInv, PartsInv
<1>19. OutcomeInv'
  <2>1. ASSUME NEW r \in Requests, outcome[r] = None
        PROVE  r > Taken' \/ \E v \in Workers : worker'[v].req = r
    <3>1. r > Taken \/ \E v \in Workers : worker[v].req = r
          BY <2>1 DEF DownloadInv, OutcomeInv
    <3>2. ASSUME NEW v \in Workers, worker[v].req = r PROVE worker'[v].req = r
          BY <1>2, <1>5, <1>8, <3>2
    <3>3. r > Taken => r > Taken' \/ r = i
          BY <1>2, <1>4 DEF Requests
    <3>.  QED BY <1>6, <1>8, <3>1, <3>2, <3>3
  <2>.  QED BY <1>1, <1>17, <2>1 DEF DownloadInv, OutcomeInv
<1>20. BossInv'
      BY <1>1, <1>2 DEF DownloadInv, BossInv, AllLeft
<1>21. WorkerInv(w)'
  <2>1. x.fd # None => x.fd \in 1 .. Taken' /\ \A v \in Workers : ~Naming(v, x.fd)'
        BY <1>2, <1>4, <1>6, <1>13 DEF WorkerInv
  <2>.  QED BY <1>3, <1>4, <1>6, <1>8, <2>1 DEF WorkerInv
<1>22. ASSUME NEW v \in Workers \ {w} PROVE WorkerInv(v)'
  <2>1. worker[v].pc = "perform" /\ Alone(worker[v].req) => disk'[Name(v)] # None
        BY <1>1 DEF DownloadInv, WorkerInv
  <2>.  QED BY <1>1, <1>2, <1>4, <1>8, <1>13, <2>1, WorkerFrame
<1>. QED BY <1>9, <1>10, <1>12, <1>15, <1>16, <1>18, <1>19, <1>20, <1>21, <1>22 DEF DownloadInv

\* A step of a worker that has no file yet: no file and no outcome changes.
LEMMA NameStep ==
    ASSUME DownloadInv, NEW w \in Workers, NEW x \in WorkerState,
           worker' = [worker EXCEPT ![w] = x], worker[w].pc \in {"dequeue", "load", "store"},
           UNCHANGED <<bossVars, queue, outcome, files, exited>>, x.req = worker[w].req,
           x.pc \in {"load", "store", "open"} => worker[w].pc \in {"load", "store"},
           TypeOK', CounterInv', WorkerInv(w)'
    PROVE  DownloadInv'
<1>1. UNCHANGED <<outcome, disk, content>> /\ worker[w].pc # "left"
      BY DEF files
<1>2. /\ worker'[w] = x /\ \A v \in Workers \ {w} : worker'[v] = worker[v]
      /\ workload' = workload /\ issued' = issued /\ Taken' = Taken
      /\ issued' \in Nat /\ Taken' \in Nat /\ issued <= issued' /\ Taken <= Taken'
      /\ QueueInv' /\ Distinct' /\ BossInv'
      /\ \A v \in Workers : \A r \in 1 .. Taken : Naming(v, r)' => Naming(v, r)
      /\ \A r : PathOf(r)' = PathOf(r) /\ Alone(r)' = Alone(r)
      /\ \A v \in Workers \ {w} : Name(v)' = Name(v)
      BY <1>1, OwnStep
<1>3. NamesInv'
      BY <1>1, <1>2 DEF DownloadInv, NamesInv
<1>4. PartsInv'
  <2>1. \A v \in Workers : \A n \in Names : Cares(v, n) => Cares(v, n)'
        BY <1>1, <1>2 DEF Cares
  <2>.  QED BY <1>1, <2>1 DEF DownloadInv, PartsInv, Whole
<1>5. OutcomeInv'
  <2>1. \A v \in Workers : worker'[v].req = worker[v].req
        BY <1>2
  <2>.  QED BY <1>1, <1>2, <2>1 DEF DownloadInv, OutcomeInv, Downloaded
<1>6. ASSUME NEW v \in Workers \ {w} PROVE WorkerInv(v)'
  <2>1. worker[v].pc = "perform" /\ Alone(worker[v].req) => disk'[Name(v)] # None
        BY <1>1 DEF DownloadInv, WorkerInv
  <2>.  QED BY <1>1, <1>2, <2>1, WorkerFrame
<1>. QED BY <1>2, <1>3, <1>4, <1>5, <1>6 DEF DownloadInv

\* A worker leaves: the queue is empty, so that every request so far was taken.
LEMMA InvLeave ==
    ASSUME DownloadInv, NEW w \in Workers, worker[w].pc = "dequeue", queue = <<>>,
           worker' = [worker EXCEPT ![w].pc = "left", ![w].leftAt = issued],
           queue' = queue, UNCHANGED <<bossVars, counter, outcome, files, exited>>
    PROVE  DownloadInv'
<1>1. /\ TypeOK /\ QueueInv /\ WorkerInv(w) /\ CounterInv /\ worker[w] \in WorkerState
      /\ worker[w].req = None /\ worker \in [Workers -> WorkerState]
      BY WorkerIs DEF DownloadInv, TypeOK, WorkerState, WorkerInv
<1>2. issued \in 0 .. NumRequests /\ issued \in Nat /\ Taken = issued
      BY <1>1 DEF TypeOK, Taken
<1>3. PICK x \in WorkerState :
        /\ worker' = [worker EXCEPT ![w] = x]
        /\ x.pc = "left" /\ x.req = None /\ x.leftAt = issued /\ x.fd = worker[w].fd
  <2> DEFINE y == [worker[w] EXCEPT !.pc = "left", !.leftAt = issued]
  <2>1. /\ y \in WorkerState /\ y.pc = "left" /\ y.req = None /\ y.leftAt = issued
        /\ y.fd = worker[w].fd
        BY <1>1, <1>2 DEF WorkerState
  <2>2. worker' = [worker EXCEPT ![w] = y]
        BY <1>1
  <2>.  QED BY <2>1, <2>2
<1>4. UNCHANGED <<bossVars, queue, exited>> /\ worker[w].pc # "left" /\ x.pc = "left"
      /\ x.req = worker[w].req
      BY <1>1, <1>3
<1>5. /\ worker'[w] = x /\ \A v \in Workers \ {w} : worker'[v] = worker[v]
      /\ worker' \in [Workers -> WorkerState] /\ Taken' = Taken
      /\ Cardinality(Stored) <= Cardinality(Stored')
      /\ Cardinality(Stored') \in Nat /\ Cardinality(Stored) \in Nat
      /\ \A v \in Workers : \A r \in 1 .. Taken : Naming(v, r)' => Naming(v, r)
      BY <1>3, <1>4, OwnStep
<1>6. TypeOK'
      BY <1>1, <1>5 DEF TypeOK, WorkerState, bossVars, files
<1>7. CounterInv'
  <2>1. counter \in Nat /\ \A v \in Workers : worker[v].loaded \in Nat
        BY <1>1, NumRequestsAssumption DEF TypeOK, WorkerState
  <2>2. \A v \in Workers : worker'[v].pc = "store" => worker'[v] = worker[v]
        BY <1>3, <1>5
  <2>.  QED BY <1>1, <1>5, <2>1, <2>2 DEF CounterInv
<1>8. WorkerInv(w)'
  <2>1. x.fd # None => x.fd \in 1 .. Taken /\ \A v \in Workers : ~Naming(v, x.fd)'
        BY <1>1, <1>3, <1>5 DEF WorkerInv
  <2>2. x.fd # None => x.fd \in 1 .. Taken' /\ \A v \in Workers : ~Naming(v, x.fd)'
        BY <1>5, <2>1
  <2>3. x.leftAt <= Taken' /\ x.pc = "left" /\ x.req = None /\ worker'[w] = x
        BY <1>2, <1>3, <1>5
  <2>.  QED BY <2>2, <2>3 DEF WorkerInv
<1>. QED BY <1>1, <1>3, <1>4, <1>6, <1>7, <1>8, NameStep

\* counter++ on a counter that has no lock: the load, and the store.
LEMMA InvLocalPath ==
    ASSUME DownloadInv, NEW w \in Workers, LocalPath(w)
    PROVE  DownloadInv'
<1>1. /\ UNCHANGED <<bossVars, queue, outcome, files, exited>>
      /\ worker[w].pc \in {"load", "store"}
      BY DEF LocalPath, At
<1>2. /\ TypeOK /\ QueueInv /\ CounterInv /\ WorkerInv(w) /\ worker[w] \in WorkerState
      /\ worker[w].req # None /\ worker[w].req \in 1 .. Taken
      /\ worker \in [Workers -> WorkerState] /\ NumRequests \in Nat
      /\ Cardinality(Stored) \in Nat /\ Cardinality(Stored) <= NumRequests
      BY <1>1, WorkerIs, StoredIs, NumRequestsAssumption
      DEF DownloadInv, TypeOK, WorkerState, WorkerInv
<1>3. /\ counter \in Nat /\ \A v \in Workers : worker[v].loaded \in Nat
      /\ counter \in 0 .. NumRequests
      BY <1>2 DEF TypeOK, WorkerState
<1>4. CASE /\ worker[w].pc = "load" /\ counter' = counter
           /\ worker' = [worker EXCEPT ![w].pc = "store", ![w].loaded = counter]
  <2>1. PICK x \in WorkerState :
          /\ worker' = [worker EXCEPT ![w] = x]
          /\ x.pc = "store" /\ x.req = worker[w].req /\ x.loaded = counter
          /\ x.fd = worker[w].fd /\ x.written = worker[w].written
    <3> DEFINE y == [worker[w] EXCEPT !.pc = "store", !.loaded = counter]
    <3>1. /\ y \in WorkerState /\ y.pc = "store" /\ y.req = worker[w].req
          /\ y.loaded = counter /\ y.fd = worker[w].fd /\ y.written = worker[w].written
          BY <1>2, <1>3 DEF WorkerState
    <3>2. worker' = [worker EXCEPT ![w] = y]
          BY <1>2, <1>4
    <3>.  QED BY <3>1, <3>2
  <2>2. UNCHANGED <<bossVars, queue, exited>> /\ worker[w].pc # "left"
        BY <1>1, <1>4
  <2>3. /\ worker'[w] = x /\ \A v \in Workers \ {w} : worker'[v] = worker[v]
        /\ worker' \in [Workers -> WorkerState] /\ Taken' = Taken
        /\ Cardinality(Stored) <= Cardinality(Stored') /\ Cardinality(Stored') \in Nat
        /\ \A v \in Workers : \A r \in 1 .. Taken : Naming(v, r)' => Naming(v, r)
        BY <1>4, <2>1, <2>2, OwnStep
  <2>4. TypeOK'
        BY <1>1, <1>2, <1>4, <2>3 DEF TypeOK, WorkerState, bossVars, files
  <2>5. CounterInv'
    <3>1. \A v \in Workers : worker'[v].pc = "store" =>
            worker'[v].loaded = counter \/ worker'[v] = worker[v]
          BY <2>1, <2>3
    <3>.  QED BY <1>2, <1>3, <1>4, <2>3, <3>1 DEF CounterInv
  <2>6. WorkerInv(w)'
    <3>1. x.fd # None => x.fd \in 1 .. Taken /\ \A v \in Workers : ~Naming(v, x.fd)'
          BY <1>2, <2>1, <2>3 DEF WorkerInv
    <3>2. x.written = 0
          BY <1>2, <1>4, <2>1 DEF WorkerInv
    <3>.  QED BY <1>2, <2>1, <2>3, <3>1, <3>2 DEF WorkerInv
  <2>.  QED BY <1>1, <1>4, <2>1, <2>4, <2>5, <2>6, NameStep
<1>5. CASE /\ worker[w].pc = "store" /\ counter' = worker[w].loaded + 1
           /\ worker' = [worker EXCEPT ![w].pc = "open"]
  <2>1. PICK x \in WorkerState :
          /\ worker' = [worker EXCEPT ![w] = x]
          /\ x.pc = "open" /\ x.req = worker[w].req
          /\ x.fd = worker[w].fd /\ x.written = worker[w].written
    <3> DEFINE y == [worker[w] EXCEPT !.pc = "open"]
    <3>1. /\ y \in WorkerState /\ y.pc = "open" /\ y.req = worker[w].req
          /\ y.fd = worker[w].fd /\ y.written = worker[w].written
          BY <1>2 DEF WorkerState
    <3>2. worker' = [worker EXCEPT ![w] = y]
          BY <1>2, <1>5
    <3>.  QED BY <3>1, <3>2
  <2>2. UNCHANGED <<bossVars, queue, exited>> /\ worker[w].pc # "left"
        BY <1>1, <1>5
  <2>3. /\ worker'[w] = x /\ \A v \in Workers \ {w} : worker'[v] = worker[v]
        /\ worker' \in [Workers -> WorkerState] /\ Taken' = Taken
        /\ Cardinality(Stored) <= Cardinality(Stored') /\ Cardinality(Stored') \in Nat
        /\ IsFiniteSet(Stored') /\ Stored \subseteq Stored'
        /\ Cardinality(Stored') <= NumRequests
        /\ \A v \in Workers : \A r \in 1 .. Taken : Naming(v, r)' => Naming(v, r)
        BY <1>5, <2>1, <2>2, OwnStep
  \* The request of w counts from now on.
  <2>4. Cardinality(Stored) + 1 <= Cardinality(Stored')
    <3>1. worker[w].req \notin Stored
          BY <1>5 DEF Stored
    <3>2. worker[w].req \in Stored'
      <4>1. \A v \in Workers : worker'[v].req = worker[w].req => v = w
            BY <1>2, <2>3 DEF DownloadInv, Distinct
      <4>2. worker'[w].pc = "open"
            BY <2>1, <2>3
      <4>.  QED BY <1>2, <2>3, <4>1, <4>2 DEF Stored
    <3>3. IsFiniteSet(Stored)
          BY <1>2, StoredIs
    <3>4. IsFiniteSet(Stored \cup {worker[w].req})
          /\ Cardinality(Stored \cup {worker[w].req}) = Cardinality(Stored) + 1
          BY <3>1, <3>3, FS_AddElement
    <3>5. Stored \cup {worker[w].req} \subseteq Stored'
          BY <2>3, <3>2
    <3>.  QED BY <2>3, <3>4, <3>5, FS_Subset
  <2>5. worker[w].loaded <= Cardinality(Stored)
        BY <1>2, <1>5 DEF CounterInv
  <2>6. counter' \in 0 .. NumRequests /\ counter' <= Cardinality(Stored')
        BY <1>2, <1>3, <1>5, <2>3, <2>4, <2>5
  <2>7. TypeOK'
        BY <1>1, <1>2, <2>3, <2>6 DEF TypeOK, WorkerState, bossVars, files
  <2>8. CounterInv'
    <3>1. \A v \in Workers : worker'[v].pc = "store" => worker'[v] = worker[v]
          BY <2>1, <2>3
    <3>.  QED BY <1>2, <1>3, <2>3, <2>6, <3>1 DEF CounterInv
  <2>9. WorkerInv(w)'
    <3>1. x.fd # None => x.fd \in 1 .. Taken /\ \A v \in Workers : ~Naming(v, x.fd)'
          BY <1>2, <2>1, <2>3 DEF WorkerInv
    <3>2. x.written = 0
          BY <1>2, <1>5, <2>1 DEF WorkerInv
    <3>.  QED BY <1>2, <2>1, <2>3, <3>1, <3>2 DEF WorkerInv
  <2>.  QED BY <1>1, <1>5, <2>1, <2>7, <2>8, <2>9, NameStep
<1>. QED BY <1>4, <1>5 DEF LocalPath, At

\* fopen truncates the file of the name, or creates one.
LEMMA InvOpenFile ==
    ASSUME DownloadInv, NEW w \in Workers, OpenFile(w)
    PROVE  DownloadInv'
<1>1. /\ UNCHANGED <<bossVars, queue, counter, outcome, exited>> /\ worker[w].pc = "open"
      BY DEF OpenFile, At
<1>2. /\ TypeOK /\ QueueInv /\ CounterInv /\ WorkerInv(w) /\ worker[w] \in WorkerState
      /\ worker[w].req # None /\ worker[w].req \in 1 .. Taken /\ worker[w].req \in Requests
      /\ worker[w].written = 0 /\ None \notin Requests /\ Taken \in Nat
      /\ worker \in [Workers -> WorkerState] /\ Name(w) \in Names
      BY <1>1, WorkerIs, CountsAre DEF DownloadInv, TypeOK, WorkerState, WorkerInv
<1>3. PICK f : f = IF disk[Name(w)] = None THEN worker[w].req ELSE disk[Name(w)]
      OBVIOUS
<1>4. /\ f \in Requests /\ f # None /\ f \in 1 .. Taken
      /\ \A v \in Workers \ {w} : ~Naming(v, f)
  <2>1. CASE disk[Name(w)] = None
        BY <1>2, <1>3, <2>1 DEF Naming, DownloadInv, Distinct
  <2>2. CASE disk[Name(w)] # None
        BY <1>2, <1>3, <2>2, CountsAre DEF DownloadInv, NamesInv
  <2>.  QED BY <2>1, <2>2
<1>5. PICK x \in WorkerState :
        /\ worker' = [worker EXCEPT ![w] = x] /\ x.pc = "perform"
        /\ x.req = worker[w].req /\ x.fd = f /\ x.written = 0 /\ x.loaded = worker[w].loaded
  <2> DEFINE y == [worker[w] EXCEPT !.pc = "perform", !.fd = f]
  <2>1. /\ y \in WorkerState /\ y.pc = "perform" /\ y.req = worker[w].req /\ y.fd = f
        /\ y.written = 0 /\ y.loaded = worker[w].loaded
        BY <1>2, <1>4 DEF WorkerState
  <2>2. worker' = [worker EXCEPT ![w] = y]
        BY <1>2, <1>3 DEF OpenFile
  <2>.  QED BY <2>1, <2>2
<1>6. disk' = [disk EXCEPT ![Name(w)] = f] /\ content' = [content EXCEPT ![f] = {}]
      BY <1>3 DEF OpenFile
<1>7. UNCHANGED <<bossVars, queue, exited>> /\ worker[w].pc # "left"
      BY <1>1
<1>8. /\ worker'[w] = x /\ \A v \in Workers \ {w} : worker'[v] = worker[v]
      /\ worker' \in [Workers -> WorkerState]
      /\ workload' = workload /\ issued' = issued /\ Taken' = Taken
      /\ issued' \in Nat /\ Taken' \in Nat /\ issued <= issued' /\ Taken <= Taken'
      /\ QueueInv' /\ Distinct' /\ BossInv'
      /\ \A v \in Workers : \A r \in 1 .. Taken : Naming(v, r)' => Naming(v, r)
      /\ \A r : PathOf(r)' = PathOf(r) /\ Alone(r)' = Alone(r)
      /\ \A v \in Workers \ {w} : Name(v)' = Name(v)
      /\ Cardinality(Stored') \in Nat /\ Cardinality(Stored) \in Nat
      /\ Cardinality(Stored) <= Cardinality(Stored')
      BY <1>5, <1>7, OwnStep
<1>9. /\ disk'[Name(w)] = f /\ \A n \in Names \ {Name(w)} : disk'[n] = disk[n]
      /\ disk' \in [Names -> Requests \cup {None}]
      /\ content'[f] = {} /\ \A g \in Requests \ {f} : content'[g] = content[g]
      /\ content' \in [Requests -> SUBSET (1 .. Pieces)]
      BY <1>2, <1>4, <1>6 DEF TypeOK
<1>10. TypeOK'
      BY <1>1, <1>2, <1>8, <1>9 DEF TypeOK, WorkerState, bossVars
<1>11. CounterInv'
  <2>1. counter \in Nat /\ \A v \in Workers : worker[v].loaded \in Nat
        BY <1>2, NumRequestsAssumption DEF TypeOK, WorkerState
  <2>2. \A v \in Workers : worker'[v].pc = "store" => worker'[v] = worker[v]
        BY <1>5, <1>8
  <2>.  QED BY <1>1, <1>2, <1>8, <2>1, <2>2 DEF CounterInv
<1>12. \A v \in Workers : ~Naming(v, f)'
  <2>1. ~Naming(w, f)'
        BY <1>5, <1>8 DEF Naming
  <2>.  QED BY <1>4, <1>8, <2>1
\* No other name leads to the file.
<1>13. \A n \in Names \ {Name(w)} : disk[n] # None => disk[n] # f /\ disk[n] \in Requests
  <2>1. SUFFICES ASSUME NEW n \in Names \ {Name(w)}, disk[n] # None
                 PROVE  disk[n] # f /\ disk[n] \in Requests
        OBVIOUS
  <2>2. disk[n] \in Requests
        BY <1>2, <2>1 DEF TypeOK
  <2>3. ~Naming(w, disk[n]) /\ (disk[n] = disk[Name(w)] => FALSE)
        BY <1>2, <2>1 DEF DownloadInv, NamesInv
  <2>4. Naming(w, worker[w].req)
        BY <1>1 DEF Naming
  <2>.  QED BY <1>3, <2>2, <2>3, <2>4
<1>14. NamesInv'
  <2>1. ASSUME NEW n \in Names, disk'[n] # None
        PROVE  /\ disk'[n] \in 1 .. Taken
               /\ \A v \in Workers : ~(/\ worker'[v].req = disk'[n]
                                       /\ worker'[v].pc \in {"load", "store", "open"})
    <3>1. CASE n = Name(w)
          BY <1>4, <1>9, <1>12, <3>1 DEF Naming
    <3>2. CASE n # Name(w)
      <4>1. disk'[n] = disk[n] /\ disk[n] \in 1 .. Taken
            /\ \A v \in Workers : ~Naming(v, disk[n])
            BY <1>9, <2>1, <3>2 DEF DownloadInv, NamesInv
      <4>2. PICK g \in 1 .. Taken : g = disk[n] /\ g = disk'[n]
            BY <4>1
      <4>3. \A v \in Workers : ~Naming(v, g)'
            BY <1>8, <4>1, <4>2
      <4>.  QED BY <4>2, <4>3 DEF Naming
    <3>.  QED BY <3>1, <3>2
  <2>2. \A m, n \in Names : disk'[m] = disk'[n] /\ disk'[m] # None => m = n
        BY <1>9, <1>13 DEF DownloadInv, NamesInv
  <2>.  QED BY <1>8, <2>1, <2>2 DEF NamesInv, Naming
<1>15. Name(w)' = Name(w)
      BY <1>5, <1>8 DEF Name
<1>16. PartsInv'
  <2>1. SUFFICES ASSUME NEW n \in Names, disk'[n] # None
                 PROVE  Whole(disk[n])' \/ \E v \in Workers : Cares(v, n)'
        BY DEF PartsInv
  <2>2. CASE n = Name(w)
    <3>1. 1 .. 0 = {}
          OBVIOUS
    <3>2. Cares(w, n)'
          BY <1>2, <1>5, <1>8, <1>9, <1>15, <2>2, <3>1 DEF Cares
    <3>.  QED BY <3>2
  <2>3. CASE n # Name(w)
    <3>1. disk'[n] = disk[n] /\ content'[disk[n]] = content[disk[n]]
          BY <1>9, <1>13, <2>1, <2>3
    <3>2. Whole(disk[n]) \/ \E v \in Workers : Cares(v, n)
          BY <2>1, <3>1 DEF DownloadInv, PartsInv
    <3>3. ASSUME NEW v \in Workers, Cares(v, n) PROVE Cares(v, n)'
          BY <1>1, <1>8, <3>1, <3>3 DEF Cares
    <3>.  QED BY <3>1, <3>2, <3>3 DEF Whole
  <2>.  QED BY <2>2, <2>3
<1>17. OutcomeInv'
  <2>1. \A v \in Workers : worker'[v].req = worker[v].req
        BY <1>5, <1>8
  <2>2. \A n \in Names : disk[n] # None => disk'[n] # None
        BY <1>4, <1>9
  <2>.  QED BY <1>1, <1>8, <2>1, <2>2 DEF DownloadInv, OutcomeInv, Downloaded
<1>18. WorkerInv(w)'
      BY <1>2, <1>4, <1>5, <1>8, <1>9, <1>12, <1>15 DEF WorkerInv
<1>19. ASSUME NEW v \in Workers \ {w} PROVE WorkerInv(v)'
  <2>1. worker[v].pc = "perform" /\ Alone(worker[v].req) => disk'[Name(v)] # None
    <3>1. worker[v].pc = "perform" => Name(v) \in Names
          BY WorkerIs DEF WorkerInv
    <3>.  QED BY <1>4, <1>9, <3>1 DEF DownloadInv, WorkerInv
  <2>.  QED BY <1>1, <1>8, <2>1, WorkerFrame
<1>. QED BY <1>8, <1>10, <1>11, <1>14, <1>16, <1>17, <1>18, <1>19 DEF DownloadInv

\* writecb writes the next piece.
LEMMA InvWrite ==
    ASSUME DownloadInv, NEW w \in Workers, Write(w)
    PROVE  DownloadInv'
<1>1. /\ UNCHANGED <<bossVars, queue, counter, outcome, disk, exited>>
      /\ worker[w].pc = "perform" /\ worker[w].written < Pieces
      BY DEF Write, At
<1>2. /\ TypeOK /\ QueueInv /\ CounterInv /\ WorkerInv(w) /\ worker[w] \in WorkerState
      /\ worker[w].req # None /\ worker[w].fd \in Requests /\ Taken \in Nat
      /\ worker \in [Workers -> WorkerState]
      BY <1>1, WorkerIs, CountsAre DEF DownloadInv, TypeOK, WorkerState, WorkerInv
<1>3. PICK k \in 1 .. Pieces : k = worker[w].written + 1 /\ worker[w].written \in Nat
      BY <1>1, <1>2, PiecesAssumption DEF WorkerState
<1>4. PICK x \in WorkerState :
        /\ worker' = [worker EXCEPT ![w] = x] /\ x.pc = "perform" /\ x.written = k
        /\ x.req = worker[w].req /\ x.fd = worker[w].fd /\ x.loaded = worker[w].loaded
  <2> DEFINE y == [worker[w] EXCEPT !.written = k]
  <2>1. /\ y \in WorkerState /\ y.pc = "perform" /\ y.written = k /\ y.req = worker[w].req
        /\ y.fd = worker[w].fd /\ y.loaded = worker[w].loaded
        BY <1>1, <1>2, <1>3, PiecesAssumption DEF WorkerState
  <2>2. worker' = [worker EXCEPT ![w] = y]
        BY <1>2, <1>3 DEF Write
  <2>.  QED BY <2>1, <2>2
<1>5. UNCHANGED <<bossVars, queue, exited>> /\ worker[w].pc # "left"
      BY <1>1
<1>6. /\ worker'[w] = x /\ \A v \in Workers \ {w} : worker'[v] = worker[v]
      /\ worker' \in [Workers -> WorkerState]
      /\ workload' = workload /\ issued' = issued /\ Taken' = Taken
      /\ issued' \in Nat /\ Taken' \in Nat /\ issued <= issued' /\ Taken <= Taken'
      /\ QueueInv' /\ Distinct' /\ BossInv'
      /\ \A v \in Workers : \A r \in 1 .. Taken : Naming(v, r)' => Naming(v, r)
      /\ \A r : PathOf(r)' = PathOf(r) /\ Alone(r)' = Alone(r)
      /\ \A v \in Workers \ {w} : Name(v)' = Name(v)
      /\ Cardinality(Stored') \in Nat /\ Cardinality(Stored) \in Nat
      /\ Cardinality(Stored) <= Cardinality(Stored')
      BY <1>4, <1>5, OwnStep
<1>7. content' = [content EXCEPT ![worker[w].fd] = @ \cup {k}]
      BY <1>4, <1>6 DEF Write
<1>8. /\ content'[worker[w].fd] = content[worker[w].fd] \cup {k}
      /\ \A g \in Requests : content[g] \subseteq content'[g] /\ content'[g] \subseteq 1 .. Pieces
      /\ content' \in [Requests -> SUBSET (1 .. Pieces)]
      BY <1>2, <1>7 DEF TypeOK
<1>9. TypeOK'
      BY <1>1, <1>2, <1>6, <1>8 DEF TypeOK, WorkerState, bossVars
<1>10. CounterInv'
  <2>1. counter \in Nat /\ \A v \in Workers : worker[v].loaded \in Nat
        BY <1>2, NumRequestsAssumption DEF TypeOK, WorkerState
  <2>2. \A v \in Workers : worker'[v].pc = "store" => worker'[v] = worker[v]
        BY <1>4, <1>6
  <2>.  QED BY <1>1, <1>2, <1>6, <2>1, <2>2 DEF CounterInv
<1>11. NamesInv'
      BY <1>1, <1>6 DEF DownloadInv, NamesInv
<1>12. Name(w)' = Name(w)
      BY <1>4, <1>6 DEF Name
<1>13. PartsInv'
  <2>1. SUFFICES ASSUME NEW n \in Names, disk[n] # None
                 PROVE  Whole(disk[n])' \/ \E v \in Workers : Cares(v, n)'
        BY <1>1 DEF PartsInv
  <2>2. disk[n] \in Requests /\ disk'[n] = disk[n]
        BY <1>1, <1>2, <2>1 DEF TypeOK
  <2>3. CASE Whole(disk[n])
        BY <1>8, <2>2, <2>3 DEF Whole
  <2>4. ASSUME NEW v \in Workers, Cares(v, n) PROVE Cares(v, n)'
    <3>1. CASE v # w
          BY <1>6, <1>8, <2>2, <2>4, <3>1 DEF Cares
    <3>2. CASE v = w
      <4>1. worker[w].fd = disk[n] /\ 1 .. worker[w].written \subseteq content[disk[n]]
            /\ Name(w) = n
            BY <1>1, <2>4, <3>2 DEF Cares
      <4>2. \A j \in 1 .. k : j \in 1 .. worker[w].written \/ j = k
            BY <1>3
      <4>3. 1 .. k \subseteq content'[disk[n]]
            BY <1>8, <4>1, <4>2
      <4>.  QED BY <1>2, <1>4, <1>6, <1>12, <2>2, <3>2, <4>1, <4>3 DEF Cares
    <3>.  QED BY <3>1, <3>2
  <2>.  QED BY <2>1, <2>3, <2>4 DEF DownloadInv, PartsInv
<1>14. OutcomeInv'
  <2>1. \A v \in Workers : worker'[v].req = worker[v].req
        BY <1>4, <1>6
  <2>.  QED BY <1>1, <1>6, <2>1 DEF DownloadInv, OutcomeInv, Downloaded
<1>15. WorkerInv(w)'
  <2>1. /\ x.fd # None => x.fd \in 1 .. Taken' /\ \A v \in Workers : ~Naming(v, x.fd)'
        BY <1>2, <1>4, <1>6 DEF WorkerInv
  <2>2. Alone(x.req) => disk'[Name(w)'] # None
        BY <1>1, <1>2, <1>4, <1>12 DEF WorkerInv
  <2>3. x.req \in 1 .. Taken' /\ x.fd # None
        BY <1>1, <1>2, <1>4, <1>6 DEF WorkerInv
  <2>.  QED BY <1>2, <1>4, <1>6, <2>1, <2>2, <2>3 DEF WorkerInv
<1>16. ASSUME NEW v \in Workers \ {w} PROVE WorkerInv(v)'
  <2>1. worker[v].pc = "perform" /\ Alone(worker[v].req) => disk'[Name(v)] # None
        BY <1>1 DEF DownloadInv, WorkerInv
  <2>.  QED BY <1>1, <1>6, <2>1, WorkerFrame
<1>. QED BY <1>6, <1>9, <1>10, <1>11, <1>13, <1>14, <1>15, <1>16 DEF DownloadInv

\* A worker after gfc_perform, or after an unlink.
LEMMA ProceedIs ==
    ASSUME NEW x \in WorkerState, NEW place \in {"dequeue", "unlink", "unlink_again"}
    PROVE  /\ Proceed(x, place) \in WorkerState /\ Proceed(x, place).pc = place
           /\ Proceed(x, place).fd = None
           /\ place = "dequeue" => /\ Proceed(x, place).req = None
                                   /\ Proceed(x, place).written = 0
           /\ place # "dequeue" => /\ Proceed(x, place).req = x.req
                                   /\ Proceed(x, place).loaded = x.loaded
<1>1. CASE place = "dequeue"
  <2> DEFINE y == [NewWorker EXCEPT !.leftAt = x.leftAt]
  <2>1. y = [pc |-> "dequeue", req |-> None, loaded |-> 0, fd |-> None,
             written |-> 0, leftAt |-> x.leftAt]
        BY DEF NewWorker
  <2>2. 0 \in 0 .. NumRequests /\ 0 \in 0 .. Pieces /\ x.leftAt \in 0 .. NumRequests
        BY NumRequestsAssumption, PiecesAssumption DEF WorkerState
  <2>3. y \in WorkerState /\ y.pc = "dequeue" /\ y.fd = None /\ y.req = None /\ y.written = 0
        BY <2>1, <2>2 DEF WorkerState
  <2>.  QED BY <1>1, <2>3 DEF Proceed
<1>2. CASE place # "dequeue"
  <2> DEFINE y == [x EXCEPT !.pc = place, !.fd = None]
  <2>1. /\ y \in WorkerState /\ y.pc = place /\ y.fd = None /\ y.req = x.req
        /\ y.loaded = x.loaded
        BY <1>2 DEF WorkerState
  <2>.  QED BY <1>2, <2>1 DEF Proceed
<1>. QED BY <1>1, <1>2

\* gfc_perform returns: the file is whole, or the worker will remove it.
LEMMA InvPerformWork ==
    ASSUME DownloadInv, NEW w \in Workers, PerformWork(w)
    PROVE  DownloadInv'
<1>1. /\ UNCHANGED <<bossVars, queue, counter, files, exited>> /\ worker[w].pc = "perform"
      /\ UNCHANGED <<disk, content>>
      BY DEF PerformWork, At, files
<1>2. /\ TypeOK /\ QueueInv /\ CounterInv /\ WorkerInv(w) /\ worker[w] \in WorkerState
      /\ worker[w].req # None /\ worker[w].req \in Requests /\ worker[w].fd \in Requests
      /\ Name(w) \in Names /\ Name(w)[1] = PathOf(worker[w].req) /\ None \notin Requests
      /\ worker \in [Workers -> WorkerState] /\ worker[w].req \in 1 .. Taken
      BY <1>1, WorkerIs, CountsAre DEF DownloadInv, TypeOK, WorkerState, WorkerInv
<1>3. PICK o \in Outcomes :
        /\ ~o.failed => worker[w].written = IF o.ok THEN Pieces ELSE 0
        /\ outcome' = [outcome EXCEPT ![worker[w].req] = o]
        /\ worker'  = [worker EXCEPT ![w] = Proceed(@, AfterPerform(o))]
      BY DEF PerformWork
<1>4. /\ o = [failed |-> o.failed, ok |-> o.ok] /\ o.failed \in BOOLEAN /\ o.ok \in BOOLEAN
      /\ o # None
      BY NoneAssumption DEF Outcomes
<1>5. PICK r \in Requests : r = worker[w].req
      BY <1>2
\* Success, or else.
<1> DEFINE good == ~o.failed /\ o.ok
<1>6. PICK x \in WorkerState :
        /\ worker' = [worker EXCEPT ![w] = x] /\ x.fd = None
        /\ good => x.pc = "dequeue" /\ x.req = None /\ x.written = 0
        /\ ~good => /\ x.pc \in {"unlink", "unlink_again"}
                    /\ x.req = r /\ x.loaded = worker[w].loaded
  <2>1. AfterPerform(o) \in {"dequeue", "unlink", "unlink_again"}
        /\ (AfterPerform(o) = "dequeue" <=> good)
        BY <1>4 DEF AfterPerform
  <2> DEFINE y == Proceed(worker[w], AfterPerform(o))
  <2>2. /\ y \in WorkerState /\ y.pc = AfterPerform(o) /\ y.fd = None
        /\ AfterPerform(o) = "dequeue" => y.req = None /\ y.written = 0
        /\ AfterPerform(o) # "dequeue" => y.req = r /\ y.loaded = worker[w].loaded
        BY <1>2, <1>5, <2>1, ProceedIs
  <2>3. worker' = [worker EXCEPT ![w] = y]
        BY <1>3
  <2>   HIDE DEF y
  <2>.  QED BY <2>1, <2>2, <2>3
<1> HIDE DEF good
<1>7. /\ UNCHANGED <<bossVars, queue, exited>> /\ worker[w].pc # "left"
      /\ x.req = worker[w].req \/ x.req = None
      /\ x.pc \notin {"load", "store", "open"}
      BY <1>1, <1>5, <1>6
<1>8. /\ worker'[w] = x /\ \A v \in Workers \ {w} : worker'[v] = worker[v]
      /\ worker' \in [Workers -> WorkerState]
      /\ workload' = workload /\ issued' = issued /\ Taken' = Taken
      /\ issued' \in Nat /\ Taken' \in Nat /\ issued <= issued' /\ Taken <= Taken'
      /\ QueueInv' /\ Distinct' /\ BossInv'
      /\ \A v \in Workers : \A q \in 1 .. Taken : Naming(v, q)' => Naming(v, q)
      /\ \A q : PathOf(q)' = PathOf(q) /\ Alone(q)' = Alone(q)
      /\ \A v \in Workers \ {w} : Name(v)' = Name(v)
      /\ Cardinality(Stored') \in Nat /\ Cardinality(Stored) \in Nat
      /\ Cardinality(Stored) <= Cardinality(Stored')
      BY <1>6, <1>7, OwnStep
<1>9. /\ outcome'[r] = o /\ \A q \in Requests \ {r} : outcome'[q] = outcome[q]
      /\ outcome' \in [Requests -> Outcomes \cup {None}]
      BY <1>2, <1>3, <1>5 DEF TypeOK
<1>10. TypeOK'
      BY <1>1, <1>2, <1>8, <1>9 DEF TypeOK, WorkerState, bossVars
<1>11. CounterInv'
  <2>1. counter \in Nat /\ \A v \in Workers : worker[v].loaded \in Nat
        BY <1>2, NumRequestsAssumption DEF TypeOK, WorkerState
  <2>2. \A v \in Workers : worker'[v].pc = "store" => worker'[v] = worker[v]
        BY <1>7, <1>8
  <2>.  QED BY <1>1, <1>2, <1>8, <2>1, <2>2 DEF CounterInv
<1>12. NamesInv'
      BY <1>1, <1>8 DEF DownloadInv, NamesInv
<1>13. PartsInv'
  <2>1. SUFFICES ASSUME NEW n \in Names, disk[n] # None
                 PROVE  Whole(disk[n])' \/ \E v \in Workers : Cares(v, n)'
        BY <1>1 DEF PartsInv
  <2>2. CASE Whole(disk[n])
        BY <1>1, <2>2 DEF Whole
  <2>3. ASSUME NEW v \in Workers, Cares(v, n)
        PROVE  Whole(disk[n])' \/ \E u \in Workers : Cares(u, n)'
    <3>1. CASE v # w
      <4>1. Cares(v, n)'
            BY <1>1, <1>8, <2>3, <3>1 DEF Cares
      <4>.  QED BY <4>1
    <3>2. CASE v = w /\ good
      <4>1. 1 .. Pieces \subseteq content[disk[n]]
            BY <1>1, <1>3, <1>4, <2>3, <3>2 DEF Cares, good
      <4>2. content[disk[n]] \subseteq 1 .. Pieces
            BY <1>2, <2>1 DEF TypeOK
      <4>.  QED BY <1>1, <4>1, <4>2 DEF Whole
    <3>3. CASE v = w /\ ~good
      <4>1. Name(w)' = Name(w)
            BY <1>5, <1>6, <1>8, <3>3 DEF Name
      <4>2. Cares(w, n)'
            BY <1>2, <1>5, <1>6, <1>8, <2>3, <3>3, <4>1 DEF Cares
      <4>.  QED BY <4>2
    <3>.  QED BY <3>1, <3>2, <3>3
  <2>.  QED BY <2>1, <2>2, <2>3 DEF DownloadInv, PartsInv
<1>14. OutcomeInv'
  <2>1. SUFFICES ASSUME NEW q \in Requests
                 PROVE  /\ outcome'[q] = None =>
                             q > Taken \/ \E v \in Workers : worker'[v].req = q
                        /\ Downloaded(q)' /\ Alone(q) =>
                             \E n \in Names : n[1] = PathOf(q) /\ disk[n] # None
        BY <1>1, <1>8 DEF OutcomeInv
  <2>2. CASE q = r
    <3>1. Alone(r) => disk[Name(w)] # None
          BY <1>1, <1>2, <1>5 DEF WorkerInv
    <3>.  QED BY <1>2, <1>4, <1>5, <1>9, <2>2, <3>1
  <2>3. CASE q # r
    <3>1. outcome'[q] = outcome[q] /\ (Downloaded(q)' <=> Downloaded(q))
          BY <1>9, <2>3 DEF Downloaded
    <3>2. \A v \in Workers : worker[v].req = q => worker'[v].req = q
          BY <1>5, <1>8, <2>3
    <3>.  QED BY <3>1, <3>2 DEF DownloadInv, OutcomeInv
  <2>.  QED BY <2>2, <2>3
<1>15. WorkerInv(w)'
  <2>1. CASE good
        BY <1>6, <1>8, <2>1 DEF WorkerInv
  <2>2. CASE ~good
    <3>1. Downloaded(r)' <=> outcome'[r] = [failed |-> FALSE, ok |-> TRUE]
          BY DEF Downloaded
    <3>2. outcome'[r] # None /\ ~Downloaded(r)'
          BY <1>4, <1>9, <2>2, <3>1 DEF good
    <3>.  QED BY <1>2, <1>5, <1>6, <1>8, <2>2, <3>2 DEF WorkerInv, Downloaded
  <2>.  QED BY <2>1, <2>2
<1>16. ASSUME NEW v \in Workers \ {w} PROVE WorkerInv(v)'
  <2>1. worker[v].pc = "perform" /\ Alone(worker[v].req) => disk'[Name(v)] # None
        BY <1>1 DEF DownloadInv, WorkerInv
  <2>2. worker[v].pc \in {"unlink", "unlink_again"} =>
          outcome'[worker[v].req] = outcome[worker[v].req]
    <3>1. worker[v].pc \in {"unlink", "unlink_again"} =>
            worker[v].req # None /\ worker[v].req \in Requests
          BY WorkerIs DEF WorkerInv
    <3>2. worker[v].req = r => worker[v].req = None
          BY <1>5 DEF DownloadInv, Distinct
    <3>.  QED BY <1>9, <3>1, <3>2
  <2>.  QED BY <1>1, <1>8, <2>1, <2>2, WorkerFrame
<1>. QED BY <1>8, <1>10, <1>11, <1>12, <1>13, <1>14, <1>15, <1>16 DEF DownloadInv

\* unlink takes the name away.
LEMMA InvUnlink ==
    ASSUME DownloadInv, NEW w \in Workers, Unlink(w)
    PROVE  DownloadInv'
<1>1. /\ UNCHANGED <<bossVars, queue, counter, outcome, content, exited>>
      /\ worker[w].pc \in {"unlink", "unlink_again"}
      /\ disk' = [disk EXCEPT ![Name(w)] = None]
      BY DEF Unlink, At
<1>2. /\ TypeOK /\ QueueInv /\ CounterInv /\ WorkerInv(w) /\ worker[w] \in WorkerState
      /\ worker[w].req # None /\ worker[w].req \in Requests /\ worker[w].req \in 1 .. Taken
      /\ Name(w) \in Names /\ Name(w)[1] = PathOf(worker[w].req) /\ None \notin Requests
      /\ worker \in [Workers -> WorkerState] /\ worker[w].req \in 1 .. issued
      /\ outcome[worker[w].req] # None /\ ~Downloaded(worker[w].req)
      BY <1>1, WorkerIs, CountsAre DEF DownloadInv, TypeOK, WorkerState, WorkerInv
<1>3. PICK x \in WorkerState :
        /\ worker' = [worker EXCEPT ![w] = x] /\ x.fd = None
        /\ \/ x.pc = "dequeue" /\ x.req = None /\ x.written = 0
           \/ x.pc = "unlink_again" /\ x.req = worker[w].req /\ x.loaded = worker[w].loaded
  <2>1. PICK place \in {"dequeue", "unlink_again"} :
          worker' = [worker EXCEPT ![w] = Proceed(@, place)]
    <3>1. CASE worker' = [worker EXCEPT ![w] =
                 Proceed(@, IF outcome[@.req].ok THEN "dequeue" ELSE "unlink_again")]
      <4>1. CASE outcome[worker[w].req].ok
            BY <3>1, <4>1
      <4>2. CASE ~outcome[worker[w].req].ok
            BY <3>1, <4>2
      <4>.  QED BY <4>1, <4>2
    <3>2. CASE worker' = [worker EXCEPT ![w] = Proceed(@, "dequeue")]
          BY <3>2
    <3>.  QED BY <3>1, <3>2 DEF Unlink
  <2> DEFINE y == Proceed(worker[w], place)
  <2>2. /\ y \in WorkerState /\ y.pc = place /\ y.fd = None
        /\ place = "dequeue" => y.req = None /\ y.written = 0
        /\ place # "dequeue" => y.req = worker[w].req /\ y.loaded = worker[w].loaded
        BY <1>2, ProceedIs
  <2>3. worker' = [worker EXCEPT ![w] = y]
        BY <2>1
  <2>   HIDE DEF y
  <2>.  QED BY <2>1, <2>2, <2>3
<1>4. /\ UNCHANGED <<bossVars, queue, exited>> /\ worker[w].pc # "left"
      /\ x.req = worker[w].req \/ x.req = None
      /\ x.pc \notin {"load", "store", "open"}
      BY <1>1, <1>3
<1>5. /\ worker'[w] = x /\ \A v \in Workers \ {w} : worker'[v] = worker[v]
      /\ worker' \in [Workers -> WorkerState]
      /\ workload' = workload /\ issued' = issued /\ Taken' = Taken
      /\ issued' \in Nat /\ Taken' \in Nat /\ issued <= issued' /\ Taken <= Taken'
      /\ QueueInv' /\ Distinct' /\ BossInv'
      /\ \A v \in Workers : \A q \in 1 .. Taken : Naming(v, q)' => Naming(v, q)
      /\ \A q : PathOf(q)' = PathOf(q) /\ Alone(q)' = Alone(q)
      /\ \A v \in Workers \ {w} : Name(v)' = Name(v)
      /\ Cardinality(Stored') \in Nat /\ Cardinality(Stored) \in Nat
      /\ Cardinality(Stored) <= Cardinality(Stored')
      BY <1>3, <1>4, OwnStep
<1>6. /\ disk'[Name(w)] = None /\ \A n \in Names \ {Name(w)} : disk'[n] = disk[n]
      /\ disk' \in [Names -> Requests \cup {None}]
      BY <1>1, <1>2 DEF TypeOK
<1>7. \A n \in Names : disk'[n] # None => n # Name(w) /\ disk'[n] = disk[n]
      BY <1>6
<1>8. TypeOK'
      BY <1>1, <1>2, <1>5, <1>6 DEF TypeOK, WorkerState, bossVars
<1>9. CounterInv'
  <2>1. counter \in Nat /\ \A v \in Workers : worker[v].loaded \in Nat
        BY <1>2, NumRequestsAssumption DEF TypeOK, WorkerState
  <2>2. \A v \in Workers : worker'[v].pc = "store" => worker'[v] = worker[v]
        BY <1>4, <1>5
  <2>.  QED BY <1>1, <1>2, <1>5, <2>1, <2>2 DEF CounterInv
<1>10. NamesInv'
  <2>1. ASSUME NEW n \in Names, disk'[n] # None
        PROVE  /\ disk'[n] \in 1 .. Taken
               /\ \A v \in Workers : ~(/\ worker'[v].req = disk'[n]
                                       /\ worker'[v].pc \in {"load", "store", "open"})
    <3>1. disk'[n] = disk[n] /\ disk[n] \in 1 .. Taken
          /\ \A v \in Workers : ~Naming(v, disk[n])
          BY <1>7, <2>1 DEF DownloadInv, NamesInv
    <3>2. PICK g \in 1 .. Taken : g = disk[n] /\ g = disk'[n]
          BY <3>1
    <3>3. \A v \in Workers : ~Naming(v, g)'
          BY <1>5, <3>1, <3>2
    <3>.  QED BY <3>2, <3>3 DEF Naming
  <2>2. \A m, n \in Names : disk'[m] = disk'[n] /\ disk'[m] # None => m = n
        BY <1>7 DEF DownloadInv, NamesInv
  <2>.  QED BY <1>5, <2>1, <2>2 DEF NamesInv, Naming
<1>11. PartsInv'
  <2>1. SUFFICES ASSUME NEW n \in Names, disk'[n] # None
                 PROVE  Whole(disk[n])' \/ \E v \in Workers : Cares(v, n)'
        BY DEF PartsInv
  <2>2. n # Name(w) /\ disk'[n] = disk[n]
        BY <1>7, <2>1
  <2>3. Whole(disk[n]) \/ \E v \in Workers : Cares(v, n)
        BY <2>1, <2>2 DEF DownloadInv, PartsInv
  <2>4. CASE Whole(disk[n])
        BY <1>1, <2>2, <2>4 DEF Whole
  <2>5. ASSUME NEW v \in Workers, Cares(v, n) PROVE Cares(v, n)'
    <3>1. v # w
          BY <2>2, <2>5 DEF Cares
    <3>.  QED BY <1>1, <1>5, <2>2, <2>5, <3>1 DEF Cares
  <2>.  QED BY <2>3, <2>4, <2>5
\* Another request that is alone with its path has another name.
<1>12. ASSUME NEW q \in Requests, Alone(q), q # worker[w].req
       PROVE  PathOf(q) # Name(w)[1]
      BY <1>2, <1>12 DEF Alone
<1>13. OutcomeInv'
  <2>1. SUFFICES ASSUME NEW q \in Requests
                 PROVE  /\ outcome[q] = None =>
                             q > Taken \/ \E v \in Workers : worker'[v].req = q
                        /\ Downloaded(q) /\ Alone(q) =>
                             \E n \in Names : n[1] = PathOf(q) /\ disk'[n] # None
        BY <1>1, <1>5 DEF OutcomeInv, Downloaded
  <2>2. outcome[q] = None => q > Taken \/ \E v \in Workers : worker'[v].req = q
    <3>1. \A v \in Workers : outcome[q] = None /\ worker[v].req = q => v # w
          BY <1>2
    <3>.  QED BY <1>5, <3>1 DEF DownloadInv, OutcomeInv
  <2>3. ASSUME Downloaded(q), Alone(q)
        PROVE  \E n \in Names : n[1] = PathOf(q) /\ disk'[n] # None
    <3>1. PICK n \in Names : n[1] = PathOf(q) /\ disk[n] # None
          BY <2>3 DEF DownloadInv, OutcomeInv
    <3>2. q # worker[w].req
          BY <1>2, <2>3
    <3>3. n # Name(w)
          BY <1>12, <2>3, <3>1, <3>2
    <3>.  QED BY <1>6, <3>1, <3>3
  <2>.  QED BY <2>2, <2>3
<1>14. WorkerInv(w)'
      BY <1>1, <1>2, <1>3, <1>5 DEF WorkerInv, Downloaded
<1>15. ASSUME NEW v \in Workers \ {w} PROVE WorkerInv(v)'
  <2>1. ASSUME worker[v].pc = "perform", Alone(worker[v].req) PROVE disk'[Name(v)] # None
    <3>1. /\ disk[Name(v)] # None /\ worker[v].req # None /\ worker[v].req \in Requests
          /\ Name(v) \in Names /\ Name(v)[1] = PathOf(worker[v].req)
          BY <2>1, WorkerIs DEF WorkerInv
    <3>2. worker[v].req # worker[w].req
          BY <1>2 DEF DownloadInv, Distinct
    <3>3. Name(v) # Name(w)
          BY <1>12, <2>1, <3>1, <3>2
    <3>.  QED BY <1>6, <3>1, <3>3
  <2>.  QED BY <1>1, <1>5, <2>1, WorkerFrame
<1>. QED BY <1>5, <1>8, <1>9, <1>10, <1>11, <1>13, <1>14, <1>15 DEF DownloadInv

-----------------------------------------------------------------------------
LEMMA DownloadInit ==
    ASSUME Init
    PROVE  DownloadInv
<1>1. TypeOK
  <2>1. 0 \in 0 .. NumRequests /\ 0 \in 0 .. Pieces
        BY NumRequestsAssumption, PiecesAssumption
  <2>2. NewWorker \in WorkerState
        BY <2>1 DEF NewWorker, WorkerState
  <2>3. worker \in [Workers -> WorkerState]
        BY <2>2 DEF Init
  <2>4. queue \in Seq(Requests) /\ workload \in Workloads
        BY DEF Init, WorkloadInit
  <2>.  QED BY <2>1, <2>3, <2>4 DEF Init, TypeOK, WorkerState
<1>2. Len(queue) = 0 /\ DOMAIN queue = {} /\ issued = 0 /\ Taken = 0
  <2>1. queue = <<>> /\ issued = 0
        BY DEF Init
  <2>2. Len(queue) = 0 /\ DOMAIN queue = {}
        BY <2>1
  <2>3. issued \in Int /\ Len(queue) \in Int /\ issued = 0 /\ Len(queue) = 0
        BY <2>1, <2>2
  <2>4. Taken = 0
        BY <2>3 DEF Taken
  <2>.  QED BY <2>1, <2>2, <2>4
<1>3. QueueInv
      BY <1>2 DEF Init, QueueInv
<1>4. CounterInv
  <2>1. Cardinality(Stored) \in Nat
        BY <1>1, <1>3, StoredIs
  <2>.  QED BY <2>1 DEF Init, CounterInv, NewWorker
<1>5. Distinct /\ BossInv
      BY DEF Init, NewWorker, Distinct, BossInv
<1>6. NamesInv /\ PartsInv
      BY DEF Init, NamesInv, PartsInv
<1>7. OutcomeInv
  <2>1. \A r \in Requests : r > 0
        BY DEF Requests
  <2>2. None # [failed |-> FALSE, ok |-> TRUE]
    <3>1. [failed |-> FALSE, ok |-> TRUE] \in [failed : BOOLEAN, ok : BOOLEAN]
          OBVIOUS
    <3>.  QED BY <3>1, NoneAssumption
  <2>.  QED BY <1>2, <2>1, <2>2 DEF Init, OutcomeInv, Downloaded
<1>8. ASSUME NEW w \in Workers PROVE WorkerInv(w)
      BY DEF Init, NewWorker, WorkerInv
<1>. QED BY <1>1, <1>3, <1>4, <1>5, <1>6, <1>7, <1>8 DEF DownloadInv

LEMMA DownloadStep ==
    ASSUME DownloadInv, [Next]_vars
    PROVE  DownloadInv'
<1>1. CASE BossStep
  <2>1. CASE EmptyWorkload
        BY <2>1, InvExits DEF EmptyWorkload
  <2>.  QED BY <1>1, <2>1, InvCreateThread, InvEnqueueWork, InvJoin DEF BossStep
<1>2. ASSUME NEW w \in Workers, WorkerStep(w) PROVE DownloadInv'
  <2>1. CASE Dequeue(w)
    <3>1. worker[w].pc = "dequeue" /\ UNCHANGED <<bossVars, counter, outcome, files, exited>>
          BY <2>1 DEF Dequeue, At
    <3>2. CASE /\ queue # <<>> /\ queue' = Tail(queue)
               /\ worker' = [worker EXCEPT ![w].pc = "load", ![w].req = Head(queue)]
          BY <3>1, <3>2, InvTake
    <3>3. CASE /\ queue = <<>> /\ UNCHANGED queue
               /\ worker' = [worker EXCEPT ![w].pc = "left", ![w].leftAt = issued]
          BY <3>1, <3>3, InvLeave
    <3>.  QED BY <2>1, <3>2, <3>3 DEF Dequeue, MayLeave
  <2>.  QED BY <1>2, <2>1, InvLocalPath, InvOpenFile, InvWrite, InvPerformWork, InvUnlink
            DEF WorkerStep
<1>3. ASSUME NEW w \in Workers, OpenFileFails(w) PROVE DownloadInv'
      BY <1>3, InvExits DEF OpenFileFails
<1>4. CASE UNCHANGED vars
  <2>1. UNCHANGED <<workload, bpc, started, issued, queue, counter, worker, outcome, disk,
                    content, exited>>
        BY <1>4 DEF vars, bossVars, workerVars, files
  <2>2. TypeOK'
        BY <2>1 DEF DownloadInv, TypeOK
  <2>3. BossInv'
        BY <2>1 DEF DownloadInv, BossInv, AllLeft
  <2>.  QED BY <2>1, <2>2, <2>3, Quiet
<1>. QED BY <1>1, <1>2, <1>3, <1>4 DEF Next

LEMMA DownloadAlways == Spec => []DownloadInv
<1>1. Init => DownloadInv
      BY DownloadInit
<1>2. DownloadInv /\ [Next]_vars => DownloadInv'
      BY DownloadStep
<1>. QED BY <1>1, <1>2, PTL DEF Spec

\* The variables of gfclient_download.c keep their types; above all the counter of
\* localPath, whose updates may be lost, stays within the number of requests.
THEOREM DownloadTypes == Spec => []TypeOK
<1>1. DownloadInv => TypeOK
      BY DEF DownloadInv
<1>. QED BY <1>1, DownloadAlways, PTL

\* perform_work leaves nothing of a failed download: after main's cleanup every file
\* is whole, whichever workers had opened it.
THEOREM WholeFilesRemain == Spec => []OnlyWholeFilesRemain
<1>1. DownloadInv => OnlyWholeFilesRemain
  <2>1. ASSUME DownloadInv, bpc = "done", NEW n \in Names, disk[n] # None
        PROVE  Whole(disk[n])
    <3>1. \A w \in Workers : worker[w].pc = "left"
          BY <2>1 DEF DownloadInv, BossInv, AllLeft
    <3>2. \A w \in Workers : ~Cares(w, n)
          BY <3>1 DEF Cares
    <3>.  QED BY <2>1, <3>2 DEF DownloadInv, PartsInv
  <2>.  QED BY <2>1 DEF OnlyWholeFilesRemain
<1>. QED BY <1>1, DownloadAlways, PTL

\* A download that succeeded, of a path that no other request asks for, is on disk
\* after main's cleanup: no other worker removes or truncates its file.
THEOREM DownloadsStay == Spec => []DownloadsKept
<1>1. DownloadInv => DownloadsKept
  <2>1. ASSUME DownloadInv, bpc = "done", NEW r \in Requests, Downloaded(r), Alone(r)
        PROVE  \E n \in Names : n[1] = PathOf(r) /\ disk[n] # None /\ Whole(disk[n])
    <3>1. PICK n \in Names : n[1] = PathOf(r) /\ disk[n] # None
          BY <2>1 DEF DownloadInv, OutcomeInv
    <3>2. \A w \in Workers : ~Cares(w, n)
          BY <2>1 DEF DownloadInv, BossInv, AllLeft, Cares
    <3>3. Whole(disk[n])
          BY <2>1, <3>1, <3>2 DEF DownloadInv, PartsInv
    <3>.  QED BY <3>1, <3>3
  <2>.  QED BY <2>1 DEF DownloadsKept, Alone
<1>. QED BY <1>1, DownloadAlways, PTL

\* main joins its workers and cleans up although requests are left only if every worker
\* had found the queue empty before they were enqueued.
THEOREM LateRequestsOnly == Spec => []OnlyLateRequestsLeft
<1>1. DownloadInv => OnlyLateRequestsLeft
  <2>1. ASSUME DownloadInv, bpc = "done", NEW r \in Requests, outcome[r] = None,
               NEW w \in Workers
        PROVE  worker[w].pc = "left" /\ worker[w].leftAt < r
    <3>1. \A v \in Workers : worker[v].pc = "left" /\ worker[v].req = None
          BY <2>1 DEF DownloadInv, BossInv, AllLeft, WorkerInv
    <3>2. r > Taken /\ Taken \in Nat /\ r \in Nat
      <4>1. None \notin Requests /\ Taken \in Nat /\ r \in Nat
            BY <2>1, CountsAre DEF DownloadInv, Requests
      <4>2. \A v \in Workers : worker[v].req # r
            BY <3>1, <4>1
      <4>.  QED BY <2>1, <4>1, <4>2 DEF DownloadInv, OutcomeInv
    <3>3. worker[w].leftAt <= Taken /\ worker[w].leftAt \in Nat
          BY <2>1, <3>1, WorkerIs, NumRequestsAssumption DEF WorkerInv, WorkerState
    <3>.  QED BY <3>1, <3>2, <3>3
  <2>.  QED BY <2>1 DEF OnlyLateRequestsLeft
<1>. QED BY <1>1, DownloadAlways, PTL
=============================================================================
