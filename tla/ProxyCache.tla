----------------------------- MODULE ProxyCache -----------------------------
(***************************************************************************)
(* The file transfer protocol of project3: the worker threads of the proxy *)
(* (handle_with_cache.c, run by gfserver for each client request) and the  *)
(* threads of the cache daemon (simplecached.c).  A request travels on one *)
(* control message queue; the reply, the file and the acknowledgements     *)
(* travel on the two message queues and in the shared memory of a segment, *)
(* which a worker takes from a pool for the time of one request.           *)
(*                                                                         *)
(* Data is abstract: a file is a name and a length, the contents of shared *)
(* memory is the piece of file that was read into it, and what a client    *)
(* received is the length of the prefix of its file, or Garbled.           *)
(***************************************************************************)
EXTENDS Integers, Sequences, FiniteSets

CONSTANTS
    Workers,        \* gfserver worker threads of the proxy
    CacheThreads,   \* threads of the cache (simplecached -t)
    NumSegments,    \* shared memory segments (webproxy -n)
    SegSize,        \* bytes in a segment (webproxy -z)
    Paths,          \* paths clients ask for
    NoPath,         \* not a path: what a variable holds when it is dead
    Cached,         \* the paths that simplecache_get finds
    FileSize,       \* their lengths
    IntMax,         \* INT_MAX
    MqMaxMsg        \* mq_maxmsg of every message queue

ASSUME NumSegmentsAssumption == NumSegments \in Nat
ASSUME SegSizeAssumption     == SegSize \in Nat \ {0}
ASSUME PathsAssumption       == NoPath \notin Paths /\ Cached \subseteq Paths
ASSUME FileSizeAssumption    == FileSize \in [Cached -> Nat]
ASSUME IntMaxAssumption      == IntMax \in Nat
ASSUME MqMaxMsgAssumption    == MqMaxMsg \in Nat \ {0}

Segments == 0 .. NumSegments - 1
NoSeg    == -1
Garbled  == -1

VARIABLES
    pool,       \* proxy: segment_q, front first
    pc,         \* proxy: where each worker is
    seg,        \* proxy: the worker's segment
    path,       \* proxy: the requested path
    pkt,        \* proxy: the worker's thr_pkt
    total,      \* proxy: total_bytes_rx
    status,     \* client: the header it was sent ("none" before)
    announced,  \* client: the file length in that header
    sent,       \* client: the length of the prefix received, or Garbled
    ctrlQ,      \* control_proxy_cache
    c2p, p2c,   \* the data queues of each segment, by direction
    shm,        \* the contents of each segment's shared memory
    cpc,        \* cache: where each thread is
    cseg,       \* cache: the thread's segment
    cfile,      \* cache: the path its fd was looked up for
    cpkt,       \* cache: its thr_pkt
    ctotal,     \* cache: total_bytes_rx of send_file
    listDamaged,\* cache: its segment_q lost its shape (see SegmentLookup)
    exited      \* the processes that called exit or crashed

workerVars == <<pc, seg, path, pkt, total>>
clientVars == <<status, announced, sent>>
queueVars  == <<ctrlQ, c2p, p2c>>
cacheVars  == <<cpc, cseg, cfile, cpkt, ctotal, listDamaged>>
vars == <<pool, workerVars, clientVars, queueVars, shm, cacheVars, exited>>

(***************************************************************************)
(* The part of thread_packet that either side reads after a receive.       *)
(***************************************************************************)
Packet  == [cache_hit : BOOLEAN, file_size : Int, chunk_size : Int]
Blank   == [cache_hit |-> FALSE, file_size |-> 0, chunk_size |-> 0]
Request == [requested_file : Paths, segment_index : Segments]
Piece   == [path : Paths \cup {NoPath}, off : Nat, len : Nat]
Nothing == [path |-> NoPath, off |-> 0, len |-> 0]

(***************************************************************************)
(* lseek's result assigned to an unsigned, printed with %d and read back   *)
(* with atoi: the length modulo 2^32, as a signed int.                     *)
(***************************************************************************)
Unsigned(n) == n % (2 * IntMax + 2)
ToInt(n)    == IF Unsigned(n) <= IntMax THEN Unsigned(n)
                                        ELSE Unsigned(n) - (2 * IntMax + 2)

Smaller(a, b) == IF a < b THEN a ELSE b

-----------------------------------------------------------------------------
(***************************************************************************)
(* The proxy.  Each of its actions is a stretch of code between two points *)
(* where the thread can block or lets another thread see what it did.      *)
(***************************************************************************)
ProxyUp == "proxy" \notin exited

\* gfserver hands a client's request for p to the worker w, which is idle.
HandleWithCache(w, p) ==
    /\ ProxyUp
    /\ pc[w] = "idle"
    /\ pc'   = [pc EXCEPT ![w] = "acquire"]
    /\ path' = [path EXCEPT ![w] = p]
    /\ UNCHANGED <<pool, seg, pkt, total, clientVars, queueVars, shm,
                   cacheVars, exited>>

\* A bug: the front segment is taken without popping it.
AcquireSegmentPeek(w) ==
    /\ ProxyUp
    /\ pc[w] = "acquire"
    /\ pool # <<>>
    /\ seg' = [seg EXCEPT ![w] = Head(pool)]
    /\ pc'  = [pc EXCEPT ![w] = "send"]
    /\ UNCHANGED <<pool, path, pkt, total, clientVars, queueVars, shm,
                   cacheVars, exited>>

\* The mutex is free and the queue has a segment: pop it.
AcquireSegment(w) ==
    /\ ProxyUp
    /\ pc[w] = "acquire"
    /\ pool # <<>>
    /\ seg'  = [seg EXCEPT ![w] = Head(pool)]
    /\ pool' = Tail(pool)
    /\ pc'   = [pc EXCEPT ![w] = "send"]
    /\ UNCHANGED <<path, pkt, total, clientVars, queueVars, shm, cacheVars,
                   exited>>

\* The queue is empty: pthread_cond_wait releases the mutex and sleeps.
WaitForSegment(w) ==
    /\ ProxyUp
    /\ pc[w] = "acquire"
    /\ pool = <<>>
    /\ pc' = [pc EXCEPT ![w] = "wait"]
    /\ UNCHANGED <<pool, seg, path, pkt, total, clientVars, queueVars, shm,
                   cacheVars, exited>>

\* POSIX lets pthread_cond_wait return unasked.
SpuriousWakeup(w) ==
    /\ ProxyUp
    /\ pc[w] = "wait"
    /\ pc' = [pc EXCEPT ![w] = "acquire"]
    /\ UNCHANGED <<pool, seg, path, pkt, total, clientVars, queueVars, shm,
                   cacheVars, exited>>

\* tx_mq blocks while the control queue is full.
TxRequest(w) ==
    /\ ProxyUp
    /\ pc[w] = "send"
    /\ Len(ctrlQ) < MqMaxMsg
    /\ ctrlQ' = Append(ctrlQ, [requested_file |-> path[w],
                               segment_index  |-> seg[w]])
    /\ pc'    = [pc EXCEPT ![w] = "get_filesize"]
    /\ UNCHANGED <<pool, seg, path, pkt, total, clientVars, c2p, p2c, shm,
                   cacheVars, exited>>

\* rx_filesize: receive the reply, send the header.  A hit goes on to the
\* loop test with no byte received.
RxFilesize(w) ==
    /\ ProxyUp
    /\ pc[w] = "get_filesize"
    /\ c2p[seg[w]] # <<>>
    /\ LET reply == Head(c2p[seg[w]]) IN
         /\ pkt' = [pkt EXCEPT ![w] = reply]
         /\ \/ /\ reply.cache_hit
               /\ status'    = [status EXCEPT ![w] = "ok"]
               /\ announced' = [announced EXCEPT ![w] = reply.file_size]
               /\ pc' = [pc EXCEPT ![w] = IF 0 < reply.file_size
                                          THEN "get_data" ELSE "release"]
            \/ /\ ~reply.cache_hit
               /\ status' = [status EXCEPT ![w] = "not_found"]
               /\ pc' = [pc EXCEPT ![w] = "release"]
               /\ UNCHANGED announced
    /\ c2p' = [c2p EXCEPT ![seg[w]] = Tail(@)]
    /\ UNCHANGED <<pool, seg, path, total, sent, ctrlQ, p2c, shm, cacheVars,
                   exited>>

\* A bug: a chunk is acknowledged as soon as it is announced.
RxDataAcks(w) ==
    /\ ProxyUp
    /\ pc[w] = "get_data"
    /\ c2p[seg[w]] # <<>>
    /\ pkt' = [pkt EXCEPT ![w] = Head(c2p[seg[w]])]
    /\ c2p' = [c2p EXCEPT ![seg[w]] = Tail(@)]
    /\ p2c' = [p2c EXCEPT ![seg[w]] = Append(@, pkt'[w])]
    /\ pc'  = [pc EXCEPT ![w] = "forward"]
    /\ UNCHANGED <<pool, seg, path, total, clientVars, ctrlQ, shm, cacheVars,
                   exited>>

\* The cache says that a chunk is in the segment.
RxData(w) ==
    /\ ProxyUp
    /\ pc[w] = "get_data"
    /\ c2p[seg[w]] # <<>>
    /\ pkt' = [pkt EXCEPT ![w] = Head(c2p[seg[w]])]
    /\ c2p' = [c2p EXCEPT ![seg[w]] = Tail(@)]
    /\ pc'  = [pc EXCEPT ![w] = "forward"]
    /\ UNCHANGED <<pool, seg, path, total, clientVars, ctrlQ, p2c, shm,
                   cacheVars, exited>>

\* What the client of w has after chunk_size bytes of the segment are sent.
Received(w) ==
    LET there == shm[seg[w]] IN
    IF /\ there.path = path[w]
       /\ there.off = sent[w]
       /\ 0 <= pkt[w].chunk_size /\ pkt[w].chunk_size <= there.len
    THEN sent[w] + pkt[w].chunk_size
    ELSE Garbled

GfsSend(w) ==
    /\ ProxyUp
    /\ pc[w] = "forward"
    /\ sent'  = [sent EXCEPT ![w] = Received(w)]
    /\ total' = [total EXCEPT ![w] = @ + pkt[w].chunk_size]
    /\ pc'    = [pc EXCEPT ![w] = "ack"]
    /\ UNCHANGED <<pool, seg, path, pkt, status, announced, queueVars, shm,
                   cacheVars, exited>>

\* gfs_send sends less, because the client is gone: ASSERT ends the process.
GfsSendFails(w) ==
    /\ ProxyUp
    /\ pc[w] = "forward"
    /\ exited' = exited \cup {"proxy"}
    /\ UNCHANGED <<pool, workerVars, clientVars, queueVars, shm, cacheVars>>

\* A bug: the loop is left one chunk too early.
TxAckShort(w) ==
    /\ ProxyUp
    /\ pc[w] = "ack"
    /\ Len(p2c[seg[w]]) < MqMaxMsg
    /\ p2c' = [p2c EXCEPT ![seg[w]] = Append(@, pkt[w])]
    /\ pc'  = [pc EXCEPT ![w] = IF total[w] + pkt[w].chunk_size < pkt[w].file_size
                                THEN "get_data" ELSE "release"]
    /\ UNCHANGED <<pool, seg, path, pkt, total, clientVars, ctrlQ, c2p, shm,
                   cacheVars, exited>>

\* Acknowledge with the packet that came with the chunk, then test the loop.
TxAck(w) ==
    /\ ProxyUp
    /\ pc[w] = "ack"
    /\ Len(p2c[seg[w]]) < MqMaxMsg
    /\ p2c' = [p2c EXCEPT ![seg[w]] = Append(@, pkt[w])]
    /\ pc'  = [pc EXCEPT ![w] = IF total[w] < pkt[w].file_size
                                THEN "get_data" ELSE "release"]
    /\ UNCHANGED <<pool, seg, path, pkt, total, clientVars, ctrlQ, c2p, shm,
                   cacheVars, exited>>

\* A bug: nobody is signalled.
ReleaseSegmentNoSignal(w) ==
    /\ ProxyUp
    /\ pc[w] = "release"
    /\ pool' = <<seg[w]>> \o pool
    /\ pc'        = [pc EXCEPT ![w] = "idle"]
    /\ seg'       = [seg EXCEPT ![w] = NoSeg]
    /\ path'      = [path EXCEPT ![w] = NoPath]
    /\ pkt'       = [pkt EXCEPT ![w] = Blank]
    /\ total'     = [total EXCEPT ![w] = 0]
    /\ status'    = [status EXCEPT ![w] = "none"]
    /\ announced' = [announced EXCEPT ![w] = 0]
    /\ sent'      = [sent EXCEPT ![w] = 0]
    /\ UNCHANGED <<queueVars, shm, cacheVars, exited>>

\* Push the segment back and signal: one waiting worker, if there is one,
\* returns to the test of acquire_segment.
ReleaseSegment(w) ==
    /\ ProxyUp
    /\ pc[w] = "release"
    /\ pool' = <<seg[w]>> \o pool
    /\ LET freed == [pc EXCEPT ![w] = "idle"] IN
         \/ /\ \A v \in Workers : pc[v] # "wait"
            /\ pc' = freed
         \/ \E v \in Workers :
              /\ pc[v] = "wait"
              /\ pc' = [freed EXCEPT ![v] = "acquire"]
    /\ seg'       = [seg EXCEPT ![w] = NoSeg]
    /\ path'      = [path EXCEPT ![w] = NoPath]
    /\ pkt'       = [pkt EXCEPT ![w] = Blank]
    /\ total'     = [total EXCEPT ![w] = 0]
    /\ status'    = [status EXCEPT ![w] = "none"]
    /\ announced' = [announced EXCEPT ![w] = 0]
    /\ sent'      = [sent EXCEPT ![w] = 0]
    /\ UNCHANGED <<queueVars, shm, cacheVars, exited>>

-----------------------------------------------------------------------------
(***************************************************************************)
(* The cache.                                                              *)
(***************************************************************************)
CacheUp == "cache" \notin exited

\* Receive a request and look its path up.
RxRequest(c) ==
    /\ CacheUp
    /\ cpc[c] = "idle"
    /\ ctrlQ # <<>>
    /\ cseg'  = [cseg EXCEPT ![c] = Head(ctrlQ).segment_index]
    /\ cfile' = [cfile EXCEPT ![c] = Head(ctrlQ).requested_file]
    /\ ctrlQ' = Tail(ctrlQ)
    /\ cpc'   = [cpc EXCEPT ![c] = "find"]
    /\ UNCHANGED <<pool, workerVars, clientVars, c2p, p2c, shm, cpkt, ctotal,
                   listDamaged, exited>>

\* Another thread rotates the unprotected segment_q at the same time.
Contended(c) == \E d \in CacheThreads \ {c} : cpc[d] = "find"

\* find_segment returns the segment of the request (and no other: see
\* SegmentLookup); two threads inside it may damage the queue.
FindSegment(c) ==
    /\ CacheUp
    /\ cpc[c] = "find"
    /\ cpc' = [cpc EXCEPT ![c] = "reply"]
    /\ listDamaged' \in IF Contended(c) THEN {listDamaged, TRUE}
                                        ELSE {listDamaged}
    /\ UNCHANGED <<pool, workerVars, clientVars, queueVars, shm, cseg, cfile,
                   cpkt, ctotal, exited>>

\* On a damaged queue it may also never return or dereference NULL.
FindSegmentFails(c) ==
    /\ CacheUp
    /\ cpc[c] = "find"
    /\ listDamaged \/ Contended(c)
    /\ listDamaged' = TRUE
    /\ \/ cpc' = [cpc EXCEPT ![c] = "spin"] /\ UNCHANGED exited
       \/ exited' = exited \cup {"cache"} /\ UNCHANGED cpc
    /\ UNCHANGED <<pool, workerVars, clientVars, queueVars, shm, cseg, cfile,
                   cpkt, ctotal>>

\* Reply that the file is not in the cache.
TxMiss(c) ==
    /\ CacheUp
    /\ cpc[c] = "reply"
    /\ cfile[c] \notin Cached
    /\ Len(c2p[cseg[c]]) < MqMaxMsg
    /\ c2p'   = [c2p EXCEPT ![cseg[c]] = Append(@, Blank)]
    /\ cpc'   = [cpc EXCEPT ![c] = "idle"]
    /\ cseg'  = [cseg EXCEPT ![c] = NoSeg]
    /\ cfile' = [cfile EXCEPT ![c] = NoPath]
    /\ UNCHANGED <<pool, workerVars, clientVars, ctrlQ, p2c, shm, cpkt,
                   ctotal, listDamaged, exited>>

\* A bug: one round too many.
LoopTestOffByOne(c, packet, done) ==
    \/ /\ done <= packet.file_size
       /\ cpc'    = [cpc EXCEPT ![c] = "fill"]
       /\ cpkt'   = [cpkt EXCEPT ![c] = packet]
       /\ ctotal' = [ctotal EXCEPT ![c] = done]
       /\ UNCHANGED <<cseg, cfile>>
    \/ /\ done > packet.file_size
       /\ cpc'    = [cpc EXCEPT ![c] = "idle"]
       /\ cpkt'   = [cpkt EXCEPT ![c] = Blank]
       /\ ctotal' = [ctotal EXCEPT ![c] = 0]
       /\ cseg'   = [cseg EXCEPT ![c] = NoSeg]
       /\ cfile'  = [cfile EXCEPT ![c] = NoPath]

\* Go on with send_file while bytes remain, else go back for a request.
LoopTest(c, packet, done) ==
    \/ /\ done < packet.file_size
       /\ cpc'    = [cpc EXCEPT ![c] = "fill"]
       /\ cpkt'   = [cpkt EXCEPT ![c] = packet]
       /\ ctotal' = [ctotal EXCEPT ![c] = done]
       /\ UNCHANGED <<cseg, cfile>>
    \/ /\ done >= packet.file_size
       /\ cpc'    = [cpc EXCEPT ![c] = "idle"]
       /\ cpkt'   = [cpkt EXCEPT ![c] = Blank]
       /\ ctotal' = [ctotal EXCEPT ![c] = 0]
       /\ cseg'   = [cseg EXCEPT ![c] = NoSeg]
       /\ cfile'  = [cfile EXCEPT ![c] = NoPath]

\* Reply with the length of the file.
TxHeader(c) ==
    /\ CacheUp
    /\ cpc[c] = "reply"
    /\ cfile[c] \in Cached
    /\ Unsigned(FileSize[cfile[c]]) > 0
    /\ Len(c2p[cseg[c]]) < MqMaxMsg
    /\ LET header == [cache_hit  |-> TRUE,
                      file_size  |-> ToInt(FileSize[cfile[c]]),
                      chunk_size |-> -1]
       IN /\ c2p' = [c2p EXCEPT ![cseg[c]] = Append(@, header)]
          /\ LoopTest(c, header, 0)
    /\ UNCHANGED <<pool, workerVars, clientVars, ctrlQ, p2c, shm, listDamaged,
                   exited>>

\* A file whose length is zero as an unsigned: ASSERT(file_size > 0).
EmptyFile(c) ==
    /\ CacheUp
    /\ cpc[c] = "reply"
    /\ cfile[c] \in Cached
    /\ Unsigned(FileSize[cfile[c]]) = 0
    /\ exited' = exited \cup {"cache"}
    /\ UNCHANGED <<pool, workerVars, clientVars, queueVars, shm, cacheVars>>

\* pread the next chunk into the segment.  It may read less than it is asked,
\* never beyond the end of the file.
Wanted(c)    == Smaller(cpkt[c].file_size - ctotal[c], SegSize)
Available(c) == FileSize[cfile[c]] - ctotal[c]

\* A bug: a read of no bytes is taken for a chunk.
FillSegmentEmpty(c) ==
    /\ CacheUp
    /\ cpc[c] = "fill"
    /\ \E n \in 0 .. Smaller(Wanted(c), Available(c)) :
         /\ shm'  = [shm EXCEPT ![cseg[c]] = [path |-> cfile[c],
                                              off  |-> ctotal[c],
                                              len  |-> n]]
         /\ cpkt' = [cpkt EXCEPT ![c].chunk_size = n]
    /\ cpc' = [cpc EXCEPT ![c] = "tx_data"]
    /\ UNCHANGED <<pool, workerVars, clientVars, queueVars, cseg, cfile,
                   ctotal, listDamaged, exited>>

FillSegment(c) ==
    /\ CacheUp
    /\ cpc[c] = "fill"
    /\ \E n \in 1 .. Smaller(Wanted(c), Available(c)) :
         /\ shm'  = [shm EXCEPT ![cseg[c]] = [path |-> cfile[c],
                                              off  |-> ctotal[c],
                                              len  |-> n]]
         /\ cpkt' = [cpkt EXCEPT ![c].chunk_size = n]
    /\ cpc' = [cpc EXCEPT ![c] = "tx_data"]
    /\ UNCHANGED <<pool, workerVars, clientVars, queueVars, cseg, cfile,
                   ctotal, listDamaged, exited>>

\* Nothing left to read: ASSERT(n > 0) ends the cache.
NothingToRead(c) ==
    /\ CacheUp
    /\ cpc[c] = "fill"
    /\ Available(c) <= 0
    /\ exited' = exited \cup {"cache"}
    /\ UNCHANGED <<pool, workerVars, clientVars, queueVars, shm, cacheVars>>

\* Tell the proxy that the chunk is there.
TxData(c) ==
    /\ CacheUp
    /\ cpc[c] = "tx_data"
    /\ Len(c2p[cseg[c]]) < MqMaxMsg
    /\ c2p'    = [c2p EXCEPT ![cseg[c]] = Append(@, cpkt[c])]
    /\ ctotal' = [ctotal EXCEPT ![c] = @ + cpkt[c].chunk_size]
    /\ cpc'    = [cpc EXCEPT ![c] = "rx_ack"]
    /\ UNCHANGED <<pool, workerVars, clientVars, ctrlQ, p2c, shm, cseg, cfile,
                   cpkt, listDamaged, exited>>

\* The acknowledgement overwrites thr_pkt, and with it the loop's bound.
RxAck(c) ==
    /\ CacheUp
    /\ cpc[c] = "rx_ack"
    /\ p2c[cseg[c]] # <<>>
    /\ p2c' = [p2c EXCEPT ![cseg[c]] = Tail(@)]
    /\ LoopTest(c, Head(p2c[cseg[c]]), ctotal[c])
    /\ UNCHANGED <<pool, workerVars, clientVars, ctrlQ, c2p, shm, listDamaged,
                   exited>>

-----------------------------------------------------------------------------
Init ==
    /\ pool = [i \in 1 .. NumSegments |-> NumSegments - i]
    /\ pc        = [w \in Workers |-> "idle"]
    /\ seg       = [w \in Workers |-> NoSeg]
    /\ path      = [w \in Workers |-> NoPath]
    /\ pkt       = [w \in Workers |-> Blank]
    /\ total     = [w \in Workers |-> 0]
    /\ status    = [w \in Workers |-> "none"]
    /\ announced = [w \in Workers |-> 0]
    /\ sent      = [w \in Workers |-> 0]
    /\ ctrlQ     = <<>>
    /\ c2p       = [s \in Segments |-> <<>>]
    /\ p2c       = [s \in Segments |-> <<>>]
    /\ shm       = [s \in Segments |-> Nothing]
    /\ cpc       = [c \in CacheThreads |-> "idle"]
    /\ cseg      = [c \in CacheThreads |-> NoSeg]
    /\ cfile     = [c \in CacheThreads |-> NoPath]
    /\ cpkt      = [c \in CacheThreads |-> Blank]
    /\ ctotal    = [c \in CacheThreads |-> 0]
    /\ listDamaged = FALSE
    /\ exited    = {}

\* The steps a worker takes by itself once it has a request.
WorkerStep(w) ==
    \/ AcquireSegment(w) \/ WaitForSegment(w) \/ TxRequest(w)
    \/ RxFilesize(w) \/ RxData(w) \/ GfsSend(w) \/ TxAck(w)
    \/ ReleaseSegment(w)

CacheStep(c) ==
    \/ RxRequest(c) \/ FindSegment(c) \/ TxMiss(c) \/ TxHeader(c)
    \/ EmptyFile(c) \/ FillSegment(c) \/ NothingToRead(c) \/ TxData(c)
    \/ RxAck(c)

Next ==
    \/ \E w \in Workers :
         \/ \E p \in Paths : HandleWithCache(w, p)
         \/ WorkerStep(w)
         \/ SpuriousWakeup(w)
         \/ GfsSendFails(w)
    \/ \E c \in CacheThreads : CacheStep(c) \/ FindSegmentFails(c)

Spec == Init /\ [][Next]_vars

(***************************************************************************)
(* Every thread that can run does.  A sender that sleeps on the full       *)
(* control queue is strongly fair: the kernel serves the longest waiting   *)
(* one.  Nothing is promised to a worker that competes for a segment.      *)
(***************************************************************************)
Fairness ==
    /\ \A w \in Workers : WF_vars(WorkerStep(w)) /\ SF_vars(TxRequest(w))
    /\ \A c \in CacheThreads : WF_vars(CacheStep(c))

FairSpec == Spec /\ Fairness

-----------------------------------------------------------------------------
WorkerPC == {"idle", "acquire", "wait", "send", "get_filesize", "get_data",
             "forward", "ack", "release"}
CachePC  == {"idle", "find", "spin", "reply", "fill", "tx_data", "rx_ack"}

ProxyTypeOK ==
    /\ pool \in Seq(Segments)
    /\ pc   \in [Workers -> WorkerPC]
    /\ seg  \in [Workers -> Segments \cup {NoSeg}]
    /\ path \in [Workers -> Paths \cup {NoPath}]
    /\ pkt  \in [Workers -> Packet]
    /\ total \in [Workers -> Int]
    /\ status \in [Workers -> {"none", "ok", "not_found"}]
    /\ announced \in [Workers -> Int]
    /\ sent  \in [Workers -> Nat \cup {Garbled}]
    /\ \A w \in Workers :
         /\ pc[w] = "idle" <=> path[w] = NoPath
         /\ pc[w] \in {"idle", "acquire", "wait"} <=> seg[w] = NoSeg

ChannelTypeOK ==
    /\ ctrlQ \in Seq(Request)
    /\ c2p \in [Segments -> Seq(Packet)]
    /\ p2c \in [Segments -> Seq(Packet)]
    /\ shm \in [Segments -> Piece]
    /\ exited \subseteq {"proxy", "cache"}

CacheTypeOK ==
    /\ cpc   \in [CacheThreads -> CachePC]
    /\ cseg  \in [CacheThreads -> Segments \cup {NoSeg}]
    /\ cfile \in [CacheThreads -> Paths \cup {NoPath}]
    /\ cpkt  \in [CacheThreads -> Packet]
    /\ ctotal \in [CacheThreads -> Nat]
    /\ listDamaged \in BOOLEAN
    /\ \A c \in CacheThreads :
         /\ cpc[c] = "idle" <=> cseg[c] = NoSeg
         /\ cpc[c] = "idle" <=> cfile[c] = NoPath
         /\ cpc[c] \in {"fill", "tx_data", "rx_ack"} => cfile[c] \in Cached
         /\ cpc[c] = "tx_data" => cpkt[c].chunk_size > 0

\* The type of every variable, and that exactly the threads inside a request
\* have a segment and a path.
TypeOK == ProxyTypeOK /\ ChannelTypeOK /\ CacheTypeOK

\* acquire_segment and release_segment neither lose nor duplicate a segment:
\* each is in the pool once or held by one worker, with any number of workers
\* and cache threads, however requests end.
SegmentsConserved ==
    /\ \A i, j \in 1 .. Len(pool) : pool[i] = pool[j] => i = j
    /\ \A w, v \in Workers : seg[w] = seg[v] => w = v \/ seg[w] = NoSeg
    /\ \A s \in Segments :
         (\E i \in 1 .. Len(pool) : pool[i] = s) <=> (\A w \in Workers : seg[w] # s)

\* A worker sleeps in acquire_segment only if no segment is free, or as many
\* workers as there are free segments are awake and on their way to take one:
\* the signal of release_segment is never lost.
NoLostWakeup ==
    (\E w \in Workers : pc[w] = "wait")
      => Len(pool) <= Cardinality({w \in Workers : pc[w] = "acquire"})

\* What a client is sent is a prefix of the file it asked for, whatever the
\* lengths of the files: the pieces come in order, none is skipped, repeated or
\* taken from the segment after it changed.
ClientStreamPrefix ==
    \A w \in Workers :
      /\ sent[w] # Garbled
      /\ sent[w] > 0 => /\ status[w] = "ok"
                        /\ path[w] \in Cached
                        /\ sent[w] <= FileSize[path[w]]

\* A length that an int holds and that the cache serves.
Fits(f) == FileSize[f] \in 1 .. IntMax

\* A request that ends was answered: with a header that says the file is not
\* there, or, unless its length is one that an int does not hold, with a header
\* that tells its length and the whole file.
CompleteWhenReleased ==
    \A w \in Workers :
      pc[w] = "release" =>
        \/ /\ path[w] \notin Cached
           /\ status[w] = "not_found" /\ sent[w] = 0
        \/ /\ path[w] \in Cached
           /\ Fits(path[w]) => /\ status[w] = "ok"
                              /\ announced[w] = FileSize[path[w]]
                              /\ sent[w] = FileSize[path[w]]

\* While a worker copies from its segment, or has a message waiting that says
\* it may, no cache thread is about to write to the segment.
MayRead(w) ==
    \/ pc[w] = "forward"
    \/ pc[w] = "get_data" /\ c2p[seg[w]] # <<>>

NoSegmentRace ==
    \A w \in Workers, c \in CacheThreads :
      MayRead(w) /\ cseg[c] = seg[w] => cpc[c] \notin {"fill", "tx_data"}

\* No send on a data queue ever blocks: the protocol leaves at most the header
\* and one chunk in one, and one acknowledgement in the other.
DataQueuesNeverFull ==
    \A s \in Segments :
      /\ Len(c2p[s]) <= 2
      /\ Len(p2c[s]) <= 1
      /\ (\E w \in Workers : seg[w] = s /\ pc[w] = "ack") => p2c[s] = <<>>

\* The only message that can wait on a segment nobody uses is the last
\* acknowledgement of a file, which its cache thread is about to take.
NothingLeftBehind ==
    \A s \in Segments :
      (\A w \in Workers : seg[w] # s) =>
        /\ c2p[s] = <<>>
        /\ p2c[s] # <<>> => \E c \in CacheThreads :
                              /\ cseg[c] = s /\ cpc[c] = "rx_ack"
                              /\ Len(p2c[s]) = 1
                              /\ ctotal[c] >= Head(p2c[s]).file_size

\* The cache ends only when it is asked for a file without bytes, as an unsigned
\* counts them: it never runs out of file in the middle of a transfer, and
\* never finds its queue of segments damaged.
CacheEndsOnlyOnEmptyFile ==
    "cache" \in exited =>
      \E c \in CacheThreads :
        cfile[c] \in Cached /\ Unsigned(FileSize[cfile[c]]) = 0

\* Once its request is about to be sent, a worker gets back to idle, unless a
\* process ends.
RequestsAnswered ==
    \A w \in Workers : pc[w] = "send" ~> (pc[w] = "idle" \/ exited # {})

-----------------------------------------------------------------------------
(***************************************************************************)
(* What clients see of the protocol is the file service.                   *)
(***************************************************************************)
Phase(w) ==
    CASE pc[w] = "idle"                             -> "idle"
      [] pc[w] \in {"get_data", "forward", "ack"}   -> "streaming"
      [] pc[w] = "release"                          -> "answered"
      [] OTHER                                      -> "asked"

Service == INSTANCE FileService WITH
    Announced <- [f \in Cached |-> {ToInt(FileSize[f])}],
    MayBreak  <- FALSE,
    phase     <- [w \in Workers |-> Phase(w)],
    file      <- path,
    header    <- status,
    length    <- announced,
    delivered <- sent

\* With one cache thread every step of the protocol is a step of the file
\* service or invisible to it.
ImplementsFileService == Service!Spec
=============================================================================
