-------------------------- MODULE ProxyCacheProofs --------------------------
(***************************************************************************)
(* Theorems about ProxyCache, in two parts.  The first holds for every     *)
(* number of workers, cache threads, segments, files and message queue     *)
(* lengths: types, the pool of segments, and the wake-ups of its waiters.  *)
(* The second is about one cache thread, with every number of workers and  *)
(* segments, every segment size and every set of files: the transfer       *)
(* protocol delivers each client a prefix of its file, and the whole file  *)
(* if it fits an int.                                                      *)
(***************************************************************************)
EXTENDS TransferInvariant, SequenceTheorems, FiniteSetTheorems, TLAPS

-----------------------------------------------------------------------------
(***************************************************************************)
(* Sequences as queues.                                                    *)
(***************************************************************************)

\* What receiving from the front of a queue leaves.
LEMMA HeadTail ==
    ASSUME NEW S, NEW q \in Seq(S), q # <<>>
    PROVE  /\ Head(q) \in S
           /\ Head(q) = q[1]
           /\ Tail(q) \in Seq(S)
           /\ Len(q) \in Nat /\ Len(q) > 0
           /\ Len(Tail(q)) = Len(q) - 1
           /\ \A i \in 1 .. Len(Tail(q)) : Tail(q)[i] = q[i + 1]
BY HeadTailProperties, EmptySeq

\* What sending to the back of a queue adds.
LEMMA AppendLast ==
    ASSUME NEW S, NEW q \in Seq(S), NEW e \in S
    PROVE  /\ Append(q, e) \in Seq(S)
           /\ Append(q, e) # <<>>
           /\ Len(Append(q, e)) = Len(q) + 1
           /\ Append(q, e)[Len(q) + 1] = e
           /\ \A i \in 1 .. Len(q) : Append(q, e)[i] = q[i]
BY AppendProperties, EmptySeq

\* What pushing on the front of the pool does.
LEMMA Push ==
    ASSUME NEW S, NEW q \in Seq(S), NEW e \in S
    PROVE  /\ <<e>> \o q \in Seq(S)
           /\ Len(<<e>> \o q) = Len(q) + 1
           /\ (<<e>> \o q)[1] = e
           /\ \A i \in 1 .. Len(q) : (<<e>> \o q)[i + 1] = q[i]
BY ConcatProperties


\* Only the empty queue has length zero.
LEMMA LenZero ==
    ASSUME NEW S, NEW q \in Seq(S), Len(q) = 0
    PROVE  q = <<>>
BY EmptySeq

\* Sending to an empty queue.
LEMMA AppendToEmpty ==
    ASSUME NEW e
    PROVE  /\ Append(<<>>, e) = <<e>>
           /\ Head(<<e>>) = e
           /\ Tail(<<e>>) = <<>>
OBVIOUS

-----------------------------------------------------------------------------
(***************************************************************************)
(* Type correctness.                                                       *)
(***************************************************************************)

\* The conversions between C's integer types stay among the integers.
LEMMA ToIntType == \A n \in Nat : ToInt(n) \in Int /\ Unsigned(n) \in Int
BY IntMaxAssumption DEF ToInt, Unsigned

\* What is read out of a packet.
LEMMA PacketFields ==
    /\ Blank \in Packet
    /\ \A m \in Packet : /\ m.cache_hit \in BOOLEAN
                         /\ m.file_size \in Int
                         /\ m.chunk_size \in Int
BY DEF Packet, Blank

\* Every variable starts with a value of its type.
LEMMA TypeInit == Init => TypeOK
<1> SUFFICES ASSUME Init PROVE TypeOK
    OBVIOUS
<1>1. pool \in Seq(Segments)
  <2>1. \A i \in 1 .. NumSegments : NumSegments - i \in Segments
        BY NumSegmentsAssumption DEF Segments
  <2>2. [i \in 1 .. NumSegments |-> NumSegments - i] \in [1 .. NumSegments -> Segments]
        BY <2>1
  <2>.  QED BY <2>2, SeqDef, NumSegmentsAssumption DEF Init
<1>2. ProxyTypeOK
      BY <1>1, PacketFields DEF Init, ProxyTypeOK, WorkerPC, NoSeg, Garbled
<1>3. ChannelTypeOK
      BY EmptySeq DEF Init, ChannelTypeOK, Piece, Nothing
<1>4. CacheTypeOK
      BY PacketFields DEF Init, CacheTypeOK, CachePC, NoSeg
<1>.  QED BY <1>2, <1>3, <1>4 DEF TypeOK

\* A segment is not NoSeg, a path is not NoPath.
LEMMA Distinct == NoSeg \notin Segments /\ NoPath \notin Cached
BY PathsAssumption DEF Segments, NoSeg

\* No step of either process gives a variable of the proxy's workers a wrong type.
LEMMA ProxyTypeStep ==
    ASSUME TypeOK, [Next]_vars
    PROVE  ProxyTypeOK'
<1> USE DEF TypeOK, ProxyTypeOK
<1>1. ASSUME NEW w \in Workers, NEW p \in Paths, HandleWithCache(w, p)
      PROVE  ProxyTypeOK'
      BY <1>1, PathsAssumption DEF HandleWithCache, clientVars, WorkerPC
<1>2. ASSUME NEW w \in Workers, AcquireSegment(w)
      PROVE  ProxyTypeOK'
  <2>1. Head(pool) \in Segments /\ Tail(pool) \in Seq(Segments)
        BY <1>2, HeadTail DEF AcquireSegment
  <2>.  QED BY <1>2, <2>1, Distinct DEF AcquireSegment, clientVars, WorkerPC
<1>3. ASSUME NEW w \in Workers, WaitForSegment(w) \/ SpuriousWakeup(w)
      PROVE  ProxyTypeOK'
      BY <1>3 DEF WaitForSegment, SpuriousWakeup, clientVars, WorkerPC
<1>4. ASSUME NEW w \in Workers, TxRequest(w)
      PROVE  ProxyTypeOK'
      BY <1>4 DEF TxRequest, clientVars, WorkerPC
<1>5. ASSUME NEW w \in Workers, RxFilesize(w) \/ RxData(w)
      PROVE  ProxyTypeOK'
  <2>1. seg[w] \in Segments /\ c2p[seg[w]] \in Seq(Packet)
        BY <1>5 DEF RxFilesize, RxData, ChannelTypeOK
  <2>2. Head(c2p[seg[w]]) \in Packet
        BY <1>5, <2>1, HeadTail DEF RxFilesize, RxData
  <2>3. Head(c2p[seg[w]]).file_size \in Int
        BY <2>2, PacketFields
  <2>4. CASE RxFilesize(w)
        BY <2>2, <2>3, <2>4 DEF RxFilesize, WorkerPC
  <2>5. CASE RxData(w)
        BY <2>2, <2>5 DEF RxData, clientVars, WorkerPC
  <2>.  QED BY <1>5, <2>4, <2>5
<1>6. ASSUME NEW w \in Workers, GfsSend(w)
      PROVE  ProxyTypeOK'
  <2>1. seg[w] \in Segments /\ shm[seg[w]] \in Piece
        BY <1>6 DEF GfsSend, ChannelTypeOK
  <2>2. Received(w) \in Nat \cup {Garbled} /\ pkt[w].chunk_size \in Int
        BY <2>1 DEF Received, Piece, Packet, Garbled
  <2>.  QED BY <1>6, <2>2 DEF GfsSend, WorkerPC
<1>7. ASSUME NEW w \in Workers, TxAck(w)
      PROVE  ProxyTypeOK'
      BY <1>7 DEF TxAck, clientVars, WorkerPC
<1>8. ASSUME NEW w \in Workers, ReleaseSegment(w)
      PROVE  ProxyTypeOK'
  <2>1. seg[w] \in Segments
        BY <1>8 DEF ReleaseSegment
  <2>2. pool' \in Seq(Segments)
        BY <1>8, <2>1, Push DEF ReleaseSegment
  <2>3. pc' \in [Workers -> WorkerPC] /\ \A v \in Workers :
            /\ pc'[v] = "idle" <=> path'[v] = NoPath
            /\ pc'[v] \in {"idle", "acquire", "wait"} <=> seg'[v] = NoSeg
        BY <1>8 DEF ReleaseSegment, WorkerPC, NoSeg
  <2>.  QED BY <1>8, <2>2, <2>3, PacketFields DEF ReleaseSegment, NoSeg
<1>9. ASSUME UNCHANGED <<pool, workerVars, clientVars>>
      PROVE  ProxyTypeOK'
      BY <1>9 DEF workerVars, clientVars
<1>10. ASSUME NEW c \in CacheThreads, CacheStep(c) \/ FindSegmentFails(c)
       PROVE  ProxyTypeOK'
       BY <1>9, <1>10 DEF CacheStep, RxRequest, FindSegment, FindSegmentFails,
          TxMiss, TxHeader, EmptyFile, FillSegment, NothingToRead, TxData, RxAck
<1>11. ASSUME NEW w \in Workers, GfsSendFails(w)
       PROVE  ProxyTypeOK'
       BY <1>9, <1>11 DEF GfsSendFails
<1>. QED BY <1>1, <1>2, <1>3, <1>4, <1>5, <1>6, <1>7, <1>8, <1>9, <1>10, <1>11
         DEF Next, WorkerStep, vars

\* No step puts anything but packets on a data queue, requests on the control
\* queue and pieces of files in shared memory.
LEMMA ChannelTypeStep ==
    ASSUME TypeOK, [Next]_vars
    PROVE  ChannelTypeOK'
<1> USE DEF TypeOK, ChannelTypeOK
<1>1. ASSUME NEW w \in Workers, TxRequest(w)
      PROVE  ChannelTypeOK'
  <2>1. seg[w] \in Segments /\ path[w] \in Paths
        BY <1>1 DEF TxRequest, ProxyTypeOK
  <2>2. [requested_file |-> path[w], segment_index |-> seg[w]] \in Request
        BY <2>1 DEF Request
  <2>.  QED BY <1>1, <2>2, AppendLast DEF TxRequest
<1>2. ASSUME NEW w \in Workers, RxFilesize(w) \/ RxData(w)
      PROVE  ChannelTypeOK'
  <2>1. seg[w] \in Segments /\ c2p[seg[w]] \in Seq(Packet)
        BY <1>2 DEF RxFilesize, RxData, ProxyTypeOK
  <2>2. Tail(c2p[seg[w]]) \in Seq(Packet)
        BY <1>2, <2>1, HeadTail DEF RxFilesize, RxData
  <2>.  QED BY <1>2, <2>1, <2>2 DEF RxFilesize, RxData
<1>3. ASSUME NEW w \in Workers, TxAck(w)
      PROVE  ChannelTypeOK'
  <2>1. seg[w] \in Segments /\ p2c[seg[w]] \in Seq(Packet) /\ pkt[w] \in Packet
        BY <1>3 DEF TxAck, ProxyTypeOK
  <2>2. Append(p2c[seg[w]], pkt[w]) \in Seq(Packet)
        BY <2>1, AppendLast
  <2>.  QED BY <1>3, <2>1, <2>2 DEF TxAck
<1>4. ASSUME NEW c \in CacheThreads, RxRequest(c)
      PROVE  ChannelTypeOK'
      BY <1>4, HeadTail DEF RxRequest
<1>5. ASSUME NEW c \in CacheThreads, TxMiss(c) \/ TxHeader(c) \/ TxData(c)
      PROVE  ChannelTypeOK'
  <2>1. cseg[c] \in Segments /\ cpkt[c] \in Packet
        BY <1>5 DEF TxMiss, TxHeader, TxData, CacheTypeOK
  <2>2. CASE TxMiss(c)
    <3>1. Append(c2p[cseg[c]], Blank) \in Seq(Packet)
          BY <2>1, AppendLast, PacketFields
    <3>.  QED BY <2>1, <2>2, <3>1 DEF TxMiss
  <2>3. CASE TxHeader(c)
    <3> DEFINE header == [cache_hit  |-> TRUE,
                          file_size  |-> ToInt(FileSize[cfile[c]]),
                          chunk_size |-> -1]
    <3>1. header \in Packet
          BY <2>3, ToIntType, FileSizeAssumption DEF TxHeader, Packet
    <3>2. Append(c2p[cseg[c]], header) \in Seq(Packet)
          BY <2>1, <3>1, AppendLast
    <3>.  QED BY <2>1, <2>3, <3>2 DEF TxHeader
  <2>4. CASE TxData(c)
    <3>1. Append(c2p[cseg[c]], cpkt[c]) \in Seq(Packet)
          BY <2>1, AppendLast
    <3>.  QED BY <2>1, <2>4, <3>1 DEF TxData
  <2>.  QED BY <1>5, <2>2, <2>3, <2>4
<1>6. ASSUME NEW c \in CacheThreads, FillSegment(c)
      PROVE  ChannelTypeOK'
  <2>1. cseg[c] \in Segments /\ cfile[c] \in Paths /\ ctotal[c] \in Nat
        BY <1>6, PathsAssumption DEF FillSegment, CacheTypeOK
  <2>2. \A n \in 1 .. Smaller(Wanted(c), Available(c)) :
          [path |-> cfile[c], off |-> ctotal[c], len |-> n] \in Piece
        BY <2>1 DEF Piece
  <2>3. PICK n \in 1 .. Smaller(Wanted(c), Available(c)) :
          shm' = [shm EXCEPT ![cseg[c]] = [path |-> cfile[c],
                                           off  |-> ctotal[c],
                                           len  |-> n]]
        BY <1>6 DEF FillSegment
  <2>4. shm' \in [Segments -> Piece]
        BY <2>2, <2>3
  <2>.  QED BY <1>6, <2>4 DEF FillSegment, queueVars
<1>7. ASSUME NEW c \in CacheThreads, RxAck(c)
      PROVE  ChannelTypeOK'
  <2>1. cseg[c] \in Segments /\ Tail(p2c[cseg[c]]) \in Seq(Packet)
        BY <1>7, HeadTail DEF RxAck, CacheTypeOK
  <2>.  QED BY <1>7, <2>1 DEF RxAck
<1>8. ASSUME NEW w \in Workers,
             \/ \E p \in Paths : HandleWithCache(w, p)
             \/ AcquireSegment(w) \/ WaitForSegment(w)
             \/ SpuriousWakeup(w) \/ GfsSend(w) \/ GfsSendFails(w)
             \/ ReleaseSegment(w)
      PROVE  ChannelTypeOK'
      BY <1>8 DEF HandleWithCache, AcquireSegment, WaitForSegment,
         SpuriousWakeup, GfsSend, GfsSendFails, ReleaseSegment, queueVars
<1>9. ASSUME NEW c \in CacheThreads,
             \/ FindSegment(c) \/ FindSegmentFails(c) \/ EmptyFile(c)
             \/ NothingToRead(c)
      PROVE  ChannelTypeOK'
      BY <1>9 DEF FindSegment, FindSegmentFails, EmptyFile, NothingToRead,
         queueVars
<1>10. CASE UNCHANGED vars
       BY <1>10 DEF vars, queueVars
<1>. QED BY <1>1, <1>2, <1>3, <1>4, <1>5, <1>6, <1>7, <1>8, <1>9, <1>10
         DEF Next, WorkerStep, CacheStep

\* No step gives a variable of the cache's threads a wrong type.
LEMMA CacheTypeStep ==
    ASSUME TypeOK, [Next]_vars
    PROVE  CacheTypeOK'
<1> USE DEF TypeOK, CacheTypeOK
<1>1. ASSUME NEW c \in CacheThreads, RxRequest(c)
      PROVE  CacheTypeOK'
  <2>1. Head(ctrlQ) \in Request
        BY <1>1, HeadTail DEF RxRequest, ChannelTypeOK
  <2>2. /\ Head(ctrlQ).segment_index \in Segments
        /\ Head(ctrlQ).requested_file \in Paths
        BY <2>1 DEF Request
  <2>.  QED BY <1>1, <2>2, Distinct, PathsAssumption DEF RxRequest, CachePC
<1>2. ASSUME NEW c \in CacheThreads, FindSegment(c)
      PROVE  CacheTypeOK'
      BY <1>2 DEF FindSegment, CachePC
<1>3. ASSUME NEW c \in CacheThreads, FindSegmentFails(c)
      PROVE  CacheTypeOK'
      BY <1>3 DEF FindSegmentFails, CachePC
<1>4. ASSUME NEW c \in CacheThreads, TxMiss(c)
      PROVE  CacheTypeOK'
      BY <1>4 DEF TxMiss, CachePC
<1>5. ASSUME NEW c \in CacheThreads, NEW m \in Packet, NEW k \in Nat,
             LoopTest(c, m, k), cpc[c] # "idle", cfile[c] \in Cached,
             UNCHANGED listDamaged
      PROVE  CacheTypeOK'
      BY <1>5, PacketFields DEF LoopTest, CachePC
<1>6. ASSUME NEW c \in CacheThreads, TxHeader(c)
      PROVE  CacheTypeOK'
  <2> DEFINE header == [cache_hit  |-> TRUE,
                        file_size  |-> ToInt(FileSize[cfile[c]]),
                        chunk_size |-> -1]
  <2>1. header \in Packet
        BY <1>6, ToIntType, FileSizeAssumption DEF TxHeader, Packet
  <2>2. LoopTest(c, header, 0) /\ cpc[c] # "idle" /\ cfile[c] \in Cached
        BY <1>6 DEF TxHeader
  <2>.  QED BY <1>5, <1>6, <2>1, <2>2 DEF TxHeader
<1>7. ASSUME NEW c \in CacheThreads, FillSegment(c)
      PROVE  CacheTypeOK'
  <2>1. PICK n \in 1 .. Smaller(Wanted(c), Available(c)) :
          cpkt' = [cpkt EXCEPT ![c].chunk_size = n]
        BY <1>7 DEF FillSegment
  <2>2. [cpkt[c] EXCEPT !.chunk_size = n] \in Packet
        BY <2>1 DEF Packet
  <2>3. cpkt'[c].chunk_size = n /\ cpkt' \in [CacheThreads -> Packet]
        BY <2>1, <2>2 DEF Packet
  <2>.  QED BY <1>7, <2>1, <2>3 DEF FillSegment, CachePC
<1>8. ASSUME NEW c \in CacheThreads, TxData(c)
      PROVE  CacheTypeOK'
  <2>1. ctotal[c] + cpkt[c].chunk_size \in Nat
        BY <1>8, PacketFields DEF TxData
  <2>.  QED BY <1>8, <2>1 DEF TxData, CachePC
<1>9. ASSUME NEW c \in CacheThreads, RxAck(c)
      PROVE  CacheTypeOK'
  <2>1. Head(p2c[cseg[c]]) \in Packet
        BY <1>9, HeadTail DEF RxAck, ChannelTypeOK
  <2>2. LoopTest(c, Head(p2c[cseg[c]]), ctotal[c])
        BY <1>9 DEF RxAck
  <2>.  QED BY <1>5, <1>9, <2>1, <2>2 DEF RxAck
<1>10. ASSUME UNCHANGED cacheVars
       PROVE  CacheTypeOK'
       BY <1>10 DEF cacheVars
<1>11. ASSUME NEW c \in CacheThreads, EmptyFile(c) \/ NothingToRead(c)
       PROVE  CacheTypeOK'
       BY <1>10, <1>11 DEF EmptyFile, NothingToRead
<1>12. ASSUME NEW w \in Workers,
              \/ \E p \in Paths : HandleWithCache(w, p)
              \/ WorkerStep(w)
              \/ SpuriousWakeup(w) \/ GfsSendFails(w)
       PROVE  CacheTypeOK'
       BY <1>10, <1>12 DEF HandleWithCache, WorkerStep, AcquireSegment,
          WaitForSegment, TxRequest, RxFilesize, RxData, GfsSend, TxAck,
          ReleaseSegment, SpuriousWakeup, GfsSendFails
<1>. QED BY <1>1, <1>2, <1>3, <1>4, <1>6, <1>7, <1>8, <1>9, <1>10, <1>11, <1>12
         DEF Next, CacheStep, vars

\* Every reachable state is well typed, with any number of threads on either
\* side and whatever the files: no step of a worker or of a cache thread uses
\* a segment index or a file it does not have.
THEOREM TypeCorrect == Spec => []TypeOK
<1>1. Init => TypeOK
      BY TypeInit
<1>2. TypeOK /\ [Next]_vars => TypeOK'
      BY ProxyTypeStep, ChannelTypeStep, CacheTypeStep DEF TypeOK
<1>.  QED BY <1>1, <1>2, PTL DEF Spec

-----------------------------------------------------------------------------
(***************************************************************************)
(* The pool of segments.                                                   *)
(***************************************************************************)

\* Steps that touch neither the pool nor a worker's segment.
LEMMA PoolUntouched ==
    ASSUME [Next]_vars,
           ~ \E w \in Workers : AcquireSegment(w) \/ ReleaseSegment(w)
    PROVE  pool' = pool /\ seg' = seg
<1>1. ASSUME NEW w \in Workers,
             \/ \E p \in Paths : HandleWithCache(w, p)
             \/ WorkerStep(w) \/ SpuriousWakeup(w) \/ GfsSendFails(w)
      PROVE  pool' = pool /\ seg' = seg
      BY <1>1 DEF HandleWithCache, WorkerStep, WaitForSegment, TxRequest,
         RxFilesize, RxData, GfsSend, TxAck, SpuriousWakeup, GfsSendFails,
         workerVars
<1>2. ASSUME NEW c \in CacheThreads, CacheStep(c) \/ FindSegmentFails(c)
      PROVE  pool' = pool /\ seg' = seg
      BY <1>2 DEF CacheStep, RxRequest, FindSegment, FindSegmentFails, TxMiss,
         TxHeader, EmptyFile, FillSegment, NothingToRead, TxData, RxAck,
         workerVars
<1>. QED BY <1>1, <1>2 DEF Next, vars, workerVars

\* At the start every segment is in the pool, once.
LEMMA ConservedInit == Init => SegmentsConserved
<1> SUFFICES ASSUME Init PROVE SegmentsConserved
    OBVIOUS
<1>1. Len(pool) = NumSegments /\ \A i \in 1 .. NumSegments : pool[i] = NumSegments - i
      BY NumSegmentsAssumption DEF Init
<1>2. \A i, j \in 1 .. Len(pool) : pool[i] = pool[j] => i = j
      BY <1>1, NumSegmentsAssumption
<1>3. ASSUME NEW s \in Segments
      PROVE  \E i \in 1 .. Len(pool) : pool[i] = s
  <2>1. NumSegments - s \in 1 .. Len(pool) /\ pool[NumSegments - s] = s
        BY <1>1, NumSegmentsAssumption DEF Segments
  <2>.  QED BY <2>1
<1>4. \A w \in Workers : seg[w] = NoSeg /\ NoSeg \notin Segments
      BY Distinct DEF Init
<1>. QED BY <1>2, <1>3, <1>4 DEF SegmentsConserved

\* acquire_segment moves one segment from the pool to the worker.
LEMMA ConservedAcquire ==
    ASSUME TypeOK, SegmentsConserved, NEW w \in Workers, AcquireSegment(w)
    PROVE  SegmentsConserved'
<1> DEFINE s == Head(pool)
<1>1. /\ pool \in Seq(Segments) /\ pool # <<>>
      /\ seg \in [Workers -> Segments \cup {NoSeg}]
      /\ seg' = [seg EXCEPT ![w] = s] /\ pool' = Tail(pool)
      /\ seg[w] = NoSeg
      BY DEF TypeOK, ProxyTypeOK, AcquireSegment
<1>2. /\ s \in Segments /\ s = pool[1]
      /\ Len(pool) \in Nat /\ Len(pool) > 0 /\ Len(pool') = Len(pool) - 1
      /\ \A i \in 1 .. Len(pool') : pool'[i] = pool[i + 1]
      BY <1>1, HeadTail
<1> HIDE DEF s
<1>3. \A v \in Workers : seg[v] # s
      BY <1>2 DEF SegmentsConserved
<1>4. \A i, j \in 1 .. Len(pool') : pool'[i] = pool'[j] => i = j
  <2>1. \A i \in 1 .. Len(pool') : i + 1 \in 1 .. Len(pool)
        BY <1>2
  <2>.  QED BY <1>2, <2>1 DEF SegmentsConserved
<1>5. \A v, u \in Workers : seg'[v] = seg'[u] => v = u \/ seg'[v] = NoSeg
      BY <1>1, <1>3 DEF SegmentsConserved
<1>6. ASSUME NEW r \in Segments
      PROVE  (\E i \in 1 .. Len(pool') : pool'[i] = r) <=> (\A v \in Workers : seg'[v] # r)
  <2>1. (\E i \in 1 .. Len(pool) : pool[i] = r) <=> (\A v \in Workers : seg[v] # r)
        BY DEF SegmentsConserved
  <2>2. (\E i \in 1 .. Len(pool') : pool'[i] = r)
          <=> (\E i \in 1 .. Len(pool) : i # 1 /\ pool[i] = r)
    <3>1. \A i \in 1 .. Len(pool') : i + 1 \in 1 .. Len(pool) /\ i + 1 # 1
          BY <1>2
    <3>2. \A i \in 1 .. Len(pool) : i # 1 => i - 1 \in 1 .. Len(pool') /\ (i - 1) + 1 = i
          BY <1>2
    <3>3. \A i \in 1 .. Len(pool) :
            i # 1 => i - 1 \in 1 .. Len(pool') /\ pool'[i - 1] = pool[i]
          BY <1>2, <3>2
    <3>4. \A i \in 1 .. Len(pool') :
            i + 1 \in 1 .. Len(pool) /\ i + 1 # 1 /\ pool'[i] = pool[i + 1]
          BY <1>2, <3>1
    <3>.  QED BY <3>3, <3>4
  <2>3. (\E i \in 1 .. Len(pool) : i # 1 /\ pool[i] = r)
          <=> r # s /\ (\E i \in 1 .. Len(pool) : pool[i] = r)
    <3>1. 1 \in 1 .. Len(pool)
          BY <1>2
    <3>.  QED BY <1>2, <3>1 DEF SegmentsConserved
  <2>4. (\A v \in Workers : seg'[v] # r) <=> r # s /\ (\A v \in Workers : seg[v] # r)
        BY <1>1, Distinct
  <2>.  QED BY <2>1, <2>2, <2>3, <2>4
<1>. QED BY <1>4, <1>5, <1>6 DEF SegmentsConserved

\* release_segment moves the segment of the worker back to the pool.
LEMMA ConservedRelease ==
    ASSUME TypeOK, SegmentsConserved, NEW w \in Workers, ReleaseSegment(w)
    PROVE  SegmentsConserved'
<1> DEFINE s == seg[w]
<1>1. /\ pool \in Seq(Segments)
      /\ seg \in [Workers -> Segments \cup {NoSeg}]
      /\ seg' = [seg EXCEPT ![w] = NoSeg] /\ pool' = <<s>> \o pool
      /\ s \in Segments
      BY DEF TypeOK, ProxyTypeOK, ReleaseSegment
<1>2. /\ Len(pool) \in Nat /\ Len(pool') = Len(pool) + 1
      /\ pool'[1] = s
      /\ \A i \in 1 .. Len(pool) : pool'[i + 1] = pool[i]
      BY <1>1, Push, LenProperties
<1>3. \A i \in 1 .. Len(pool) : pool[i] # s
      BY <1>1 DEF SegmentsConserved
<1>4. \A i \in 1 .. Len(pool') : i = 1 \/ (i - 1 \in 1 .. Len(pool) /\ pool'[i] = pool[i - 1])
  <2>1. \A i \in 1 .. Len(pool') : i = 1 \/ (i - 1 \in 1 .. Len(pool) /\ (i - 1) + 1 = i)
        BY <1>2
  <2>.  QED BY <1>2, <2>1
<1>5. \A i, j \in 1 .. Len(pool') : pool'[i] = pool'[j] => i = j
      BY <1>2, <1>3, <1>4 DEF SegmentsConserved
<1>6. \A v, u \in Workers : seg'[v] = seg'[u] => v = u \/ seg'[v] = NoSeg
      BY <1>1 DEF SegmentsConserved
<1>7. ASSUME NEW r \in Segments
      PROVE  (\E i \in 1 .. Len(pool') : pool'[i] = r) <=> (\A v \in Workers : seg'[v] # r)
  <2>1. (\E i \in 1 .. Len(pool) : pool[i] = r) <=> (\A v \in Workers : seg[v] # r)
        BY DEF SegmentsConserved
  <2>2. (\E i \in 1 .. Len(pool') : pool'[i] = r)
          <=> r = s \/ (\E i \in 1 .. Len(pool) : pool[i] = r)
    <3>1. 1 \in 1 .. Len(pool') /\ \A i \in 1 .. Len(pool) : i + 1 \in 1 .. Len(pool')
          BY <1>2
    <3>.  QED BY <1>2, <1>4, <3>1
  <2>3. (\A v \in Workers : seg'[v] # r) <=> r = s \/ (\A v \in Workers : seg[v] # r)
        BY <1>1, Distinct DEF SegmentsConserved
  <2>.  QED BY <2>1, <2>2, <2>3
<1>. QED BY <1>5, <1>6, <1>7 DEF SegmentsConserved

\* acquire_segment and release_segment hand every segment to at most one worker
\* at a time and lose none, for any number of workers and segments and whatever
\* the cache threads do.
THEOREM PoolConserved == Spec => []SegmentsConserved
<1>1. Init => SegmentsConserved
      BY ConservedInit
<1>2. TypeOK /\ SegmentsConserved /\ [Next]_vars => SegmentsConserved'
  <2> SUFFICES ASSUME TypeOK, SegmentsConserved, [Next]_vars
               PROVE  SegmentsConserved'
      OBVIOUS
  <2>1. CASE \E w \in Workers : AcquireSegment(w)
        BY <2>1, ConservedAcquire
  <2>2. CASE \E w \in Workers : ReleaseSegment(w)
        BY <2>2, ConservedRelease
  <2>3. CASE ~ \E w \in Workers : AcquireSegment(w) \/ ReleaseSegment(w)
        BY <2>3, PoolUntouched DEF SegmentsConserved
  <2>.  QED BY <2>1, <2>2, <2>3
<1>. QED BY <1>1, <1>2, TypeCorrect, PTL DEF Spec

\* The awake competitors for a segment, and the sleeping ones.
Competing == {w \in Workers : pc[w] = "acquire"}

\* release_segment never leaves a worker asleep with a segment to spare that no
\* other worker is already on its way to take.
LEMMA WakeupStep ==
    ASSUME IsFiniteSet(Workers), TypeOK, TypeOK', NoLostWakeup, [Next]_vars
    PROVE  NoLostWakeup'
<1> USE DEF NoLostWakeup
<1>1. /\ IsFiniteSet(Competing) /\ Cardinality(Competing) \in Nat
      /\ IsFiniteSet(Competing') /\ Cardinality(Competing') \in Nat
      BY FS_Subset, FS_CardinalityType DEF Competing
<1>2. /\ Len(pool) \in Nat /\ Len(pool') \in Nat
      /\ pc \in [Workers -> WorkerPC]
      BY LenProperties DEF TypeOK, ProxyTypeOK
<1>3. ASSUME Len(pool') <= Len(pool), Competing \subseteq Competing',
             \A w \in Workers : pc'[w] = "wait" => pc[w] = "wait"
      PROVE  NoLostWakeup'
  <2>1. Cardinality(Competing) <= Cardinality(Competing')
        BY <1>1, <1>3, FS_Subset
  <2>.  QED BY <1>1, <1>2, <1>3, <2>1 DEF Competing
<1>4. ASSUME NEW w \in Workers, AcquireSegment(w)
      PROVE  NoLostWakeup'
  <2>1. Len(pool') = Len(pool) - 1
        BY <1>4, HeadTail DEF AcquireSegment, TypeOK, ProxyTypeOK
  <2>2. w \in Competing /\ Competing' = Competing \ {w}
        BY <1>2, <1>4 DEF AcquireSegment, Competing
  <2>3. Cardinality(Competing') = Cardinality(Competing) - 1
        BY <1>1, <2>2, FS_RemoveElement
  <2>4. \A v \in Workers : pc'[v] = "wait" => pc[v] = "wait"
        BY <1>2, <1>4 DEF AcquireSegment
  <2>.  QED BY <1>1, <1>2, <2>1, <2>3, <2>4 DEF Competing
<1>5. ASSUME NEW w \in Workers, WaitForSegment(w)
      PROVE  NoLostWakeup'
  <2>1. Len(pool') = 0
        BY <1>5 DEF WaitForSegment
  <2>.  QED BY <1>1, <2>1 DEF Competing
<1>6. ASSUME NEW w \in Workers, ReleaseSegment(w)
      PROVE  NoLostWakeup'
  <2>1. Len(pool') = Len(pool) + 1
        BY <1>6, Push DEF ReleaseSegment, TypeOK, ProxyTypeOK
  <2>2. CASE \A v \in Workers : pc[v] # "wait"
        BY <1>2, <1>6, <2>2 DEF ReleaseSegment
  <2>3. ASSUME NEW v \in Workers, pc[v] = "wait",
               pc' = [[pc EXCEPT ![w] = "idle"] EXCEPT ![v] = "acquire"]
        PROVE  NoLostWakeup'
    <3>1. v \notin Competing /\ Competing' = Competing \cup {v}
          BY <1>2, <1>6, <2>3 DEF ReleaseSegment, Competing
    <3>2. Cardinality(Competing') = Cardinality(Competing) + 1
          BY <1>1, <3>1, FS_AddElement
    <3>.  QED BY <1>1, <1>2, <2>1, <2>3, <3>2 DEF Competing
  <2>.  QED BY <1>6, <2>2, <2>3 DEF ReleaseSegment
<1>7. ASSUME NEW w \in Workers,
             \/ \E p \in Paths : HandleWithCache(w, p)
             \/ TxRequest(w) \/ RxFilesize(w) \/ RxData(w) \/ GfsSend(w)
             \/ TxAck(w) \/ SpuriousWakeup(w)
      PROVE  NoLostWakeup'
  <2>1. pool' = pool /\ \A v \in Workers : /\ pc[v] = "acquire" => pc'[v] = "acquire"
                                           /\ pc'[v] = "wait" => pc[v] = "wait"
        BY <1>2, <1>7 DEF HandleWithCache, TxRequest, RxFilesize, RxData,
           GfsSend, TxAck, SpuriousWakeup
  <2>.  QED BY <1>2, <1>3, <2>1 DEF Competing
<1>8. ASSUME UNCHANGED <<pool, pc>>
      PROVE  NoLostWakeup'
      BY <1>8 DEF NoLostWakeup
<1>9. ASSUME NEW c \in CacheThreads, CacheStep(c) \/ FindSegmentFails(c)
      PROVE  NoLostWakeup'
      BY <1>8, <1>9 DEF CacheStep, RxRequest, FindSegment, FindSegmentFails,
         TxMiss, TxHeader, EmptyFile, FillSegment, NothingToRead, TxData, RxAck,
         workerVars
<1>10. ASSUME NEW w \in Workers, GfsSendFails(w)
       PROVE  NoLostWakeup'
       BY <1>8, <1>10 DEF GfsSendFails, workerVars
<1>. QED BY <1>4, <1>5, <1>6, <1>7, <1>8, <1>9, <1>10
         DEF Next, WorkerStep, vars, workerVars

\* With finitely many workers, no signal of release_segment is ever lost: a
\* worker sleeps only while every free segment has an awake taker.
THEOREM WakeupsNotLost ==
    ASSUME IsFiniteSet(Workers)
    PROVE  Spec => []NoLostWakeup
<1>1. Init => NoLostWakeup
      BY DEF Init, NoLostWakeup
<1>2. TypeOK /\ TypeOK' /\ NoLostWakeup /\ [Next]_vars
        => NoLostWakeup'
      BY WakeupStep
<1>. QED BY <1>1, <1>2, TypeCorrect, PTL DEF Spec

-----------------------------------------------------------------------------
(***************************************************************************)
(* Frames: what a step does not touch stays as the invariant says.         *)
(***************************************************************************)

\* The step changes nothing on segment s.
SegSame(s) ==
    /\ c2p'[s] = c2p[s] /\ p2c'[s] = p2c[s] /\ shm'[s] = shm[s]
    /\ \A c \in CacheThreads :
         /\ On(c, s)' <=> On(c, s)
         /\ On(c, s) => /\ cpc'[c] = cpc[c] /\ cfile'[c] = cfile[c]
                        /\ cpkt'[c] = cpkt[c] /\ ctotal'[c] = ctotal[c]

\* The step neither adds nor removes a request for s.
AskSame(s) == \A p \in Paths : Queued(p, s)' <=> Queued(p, s)

\* The step changes nothing of worker w but perhaps wakes it.
WorkerSame(w) ==
    /\ pc'[w] = pc[w] \/ (pc[w] = "wait" /\ pc'[w] = "acquire")
    /\ seg'[w] = seg[w] /\ path'[w] = path[w] /\ pkt'[w] = pkt[w]
    /\ total'[w] = total[w] /\ status'[w] = status[w]
    /\ announced'[w] = announced[w] /\ sent'[w] = sent[w]

\* Quiet(s) depends on the queues of s and on the cache threads only.
LEMMA QuietFrame ==
    ASSUME NEW s, SegSame(s), Quiet(s)
    PROVE  Quiet(s)'
BY DEF SegSame, Quiet, On

\* A worker's part of the invariant depends on its own variables, on its
\* segment and its queues, on the control queue and on the cache threads.
LEMMA RequestFrame ==
    ASSUME TypeOK, NEW w \in Workers, RequestInv(w), WorkerSame(w),
           seg[w] # NoSeg => SegSame(seg[w]) /\ AskSame(seg[w])
    PROVE  RequestInv(w)'
<1>1. CASE pc[w] \in {"idle", "acquire", "wait"}
      BY <1>1 DEF RequestInv, WorkerSame, Unanswered
<1>2. CASE pc[w] \notin {"idle", "acquire", "wait"}
  <2>1. /\ SegSame(seg[w]) /\ AskSame(seg[w])
        /\ path[w] \in Paths /\ pc'[w] = pc[w]
        BY <1>2 DEF TypeOK, ProxyTypeOK, WorkerSame
  <2> USE <2>1 DEF WorkerSame, SegSame, On
  <2>2. Unanswered(w) => Unanswered(w)'
        BY DEF Unanswered
  <2>3. Streaming(w) => Streaming(w)'
        BY DEF Streaming, Size
  <2>4. Quiet(seg[w]) => Quiet(seg[w])'
        BY QuietFrame
  <2>5. Waiting(w) => Waiting(w)'
        BY <2>4 DEF Waiting, AskSame
  <2>6. ~Asked(seg[w]) => ~Asked(seg[w])'
        BY DEF Asked, AskSame
  <2>7. Looking(w) => Looking(w)'
        BY DEF Looking
  <2>8. \A at, m : Chunk(w, m, at) => Chunk(w, m, at)'
        BY DEF Chunk, Size
  <2>9. \A at : \A c \in CacheThreads : Sending(c, w) /\ Filling(c, w, at) => Filling(c, w, at)'
        BY <2>8 DEF Filling, Sending, Size
  <2>10. \A at, m : \A c \in CacheThreads : Sending(c, w) /\ Told(c, w, m, at) => Told(c, w, m, at)'
        BY <2>8 DEF Told, Sending
  <2>11. \A c \in CacheThreads : Sending(c, w) => Sending(c, w)'
        BY DEF Sending
  <2>12. HeaderSent(w) => HeaderSent(w)'
        BY <2>9, <2>10, <2>11 DEF HeaderSent, IsHeader, Size
  <2>13. OnlyReply(w) => OnlyReply(w)'
        BY DEF OnlyReply, IsHeader, Size
  <2>14. AwaitingChunk(w) => AwaitingChunk(w)'
        BY <2>9, <2>10, <2>11 DEF AwaitingChunk, Sending, Size
  <2>15. HasChunk(w) => HasChunk(w)'
        BY <2>10, <2>11 DEF HasChunk
  <2>16. OwesAck(w) => OwesAck(w)'
        BY <2>11 DEF OwesAck, Sending, Size
  <2>17. Over(w) => Over(w)'
        BY <2>3, <2>4 DEF Over, Size
  <2>.  QED BY <2>2, <2>3, <2>4, <2>5, <2>6, <2>7, <2>12, <2>13, <2>14, <2>15,
               <2>16, <2>17 DEF RequestInv, Size
<1>. QED BY <1>1, <1>2

\* A step that touches only segment t: what is left to show.
LEMMA Assemble ==
    ASSUME TypeOK, TransferInv, NEW t,
           \A s \in Segments : s # t => SegSame(s) /\ AskSame(s),
           \A v \in Workers : (WorkerSame(v) /\ seg[v] # t) \/ RequestInv(v)',
           \A v \in Workers, s \in Segments : s # t => (seg'[v] = s <=> seg[v] = s),
           t \in Segments /\ (\A v \in Workers : seg'[v] # t) => Quiet(t)',
           ControlInv'
    PROVE  TransferInv'
<1>1. ASSUME NEW v \in Workers
      PROVE  RequestInv(v)'
  <2>1. CASE WorkerSame(v) /\ seg[v] # t
    <3>1. seg[v] # NoSeg => seg[v] \in Segments
          BY DEF TypeOK, ProxyTypeOK
    <3>.  QED BY <2>1, <3>1, RequestFrame DEF TransferInv
  <2>.  QED BY <2>1
<1>2. FreeInv'
  <2> SUFFICES ASSUME NEW s \in Segments, \A v \in Workers : seg'[v] # s
               PROVE  Quiet(s)'
      BY DEF FreeInv, Segments
  <2>1. CASE s # t
        BY <2>1, QuietFrame DEF TransferInv, FreeInv
  <2>.  QED BY <2>1
<1>. QED BY <1>1, <1>2 DEF TransferInv

\* A step that leaves the control queue alone, and every worker that waits for
\* its request to be taken.
LEMMA ControlFrame ==
    ASSUME TransferInv, ctrlQ' = ctrlQ,
           \A v \in Workers : pc[v] = "get_filesize" /\ Asked(seg[v])
                                => pc'[v] = pc[v] /\ seg'[v] = seg[v]
    PROVE  ControlInv'
<1>1. \A s : Asked(s)' <=> Asked(s)
      BY DEF Asked, Queued
<1>. QED BY <1>1 DEF TransferInv, ControlInv

\* The invariant keeps the holders of segments apart.
LEMMA Holder ==
    ASSUME TypeOK, SegmentsConserved, NEW v \in Workers, NEW w \in Workers,
           seg[v] = seg[w], seg[w] # NoSeg
    PROVE  v = w
BY DEF SegmentsConserved

-----------------------------------------------------------------------------
(***************************************************************************)
(* What a cache thread finds where it is.                                  *)
(***************************************************************************)

\* A segment with a busy cache thread has a holder.
LEMMA BusyHasHolder ==
    ASSUME TypeOK, TransferInv, SingleCacheThread, NEW c \in CacheThreads,
           cpc[c] \in {"find", "spin", "reply", "fill", "tx_data"}
    PROVE  /\ ~Quiet(cseg[c])
           /\ \E w \in Workers : seg[w] = cseg[c]
<1>1. cseg[c] \in Segments
      BY DEF TypeOK, CacheTypeOK
<1>2. ~Quiet(cseg[c])
      BY DEF Quiet, On, SingleCacheThread
<1>. QED BY <1>1, <1>2 DEF TransferInv, FreeInv

\* A cache thread inside find_segment or about to reply serves a worker that
\* waits for the reply.
LEMMA LookingFound ==
    ASSUME TypeOK, TransferInv, SingleCacheThread, NEW c \in CacheThreads,
           cpc[c] \in {"find", "spin", "reply"}
    PROVE  \E w \in Workers :
             /\ seg[w] = cseg[c] /\ pc[w] = "get_filesize" /\ cfile[c] = path[w]
             /\ Unanswered(w) /\ ~Asked(seg[w]) /\ Looking(w)
<1>1. PICK w \in Workers : seg[w] = cseg[c] /\ ~Quiet(seg[w])
      BY BusyHasHolder
<1>2. RequestInv(w) /\ seg[w] # NoSeg
      BY <1>1 DEF TransferInv, TypeOK, CacheTypeOK
<1>3. On(c, seg[w]) /\ \A d \in CacheThreads : d = c
      BY <1>1 DEF On, SingleCacheThread
<1>4. ~Over(w) /\ ~Waiting(w)
      BY <1>1 DEF Over, Waiting
<1>5. ~HeaderSent(w) /\ ~OnlyReply(w)
      BY <1>3 DEF HeaderSent, OnlyReply, Filling, Told
<1>6. ~AwaitingChunk(w) /\ ~HasChunk(w) /\ ~OwesAck(w)
      BY <1>3 DEF AwaitingChunk, HasChunk, OwesAck, Filling, Told
<1>7. pc[w] = "get_filesize"
      BY <1>1, <1>2, <1>4, <1>6 DEF RequestInv, TypeOK, ProxyTypeOK, WorkerPC
<1>8. Unanswered(w) /\ ~Asked(seg[w]) /\ Looking(w)
      BY <1>2, <1>4, <1>5, <1>7 DEF RequestInv
<1>9. cfile[c] = path[w]
      BY <1>3, <1>8 DEF Looking
<1>. QED BY <1>1, <1>7, <1>8, <1>9

\* A cache thread about to write a chunk or to announce one serves a worker
\* that waits for the header or for that chunk.
LEMMA SendingFound ==
    ASSUME TypeOK, TransferInv, SingleCacheThread, NEW c \in CacheThreads,
           cpc[c] \in {"fill", "tx_data"}
    PROVE  \E w \in Workers :
             /\ seg[w] = cseg[c] /\ Sending(c, w) /\ p2c[seg[w]] = <<>>
             /\ \/ /\ pc[w] = "get_filesize" /\ Unanswered(w)
                   /\ ~Asked(seg[w]) /\ Size(path[w]) > 0
                   /\ Len(c2p[seg[w]]) = 1 /\ IsHeader(c2p[seg[w]][1], path[w])
                   /\ Filling(c, w, 0)
                \/ /\ pc[w] = "get_data" /\ Streaming(w)
                   /\ total[w] < Size(path[w])
                   /\ c2p[seg[w]] = <<>> /\ Filling(c, w, total[w])
<1>1. PICK w \in Workers : seg[w] = cseg[c] /\ ~Quiet(seg[w])
      BY BusyHasHolder
<1>2. RequestInv(w) /\ seg[w] # NoSeg
      BY <1>1 DEF TransferInv, TypeOK, CacheTypeOK
<1>3. On(c, seg[w]) /\ \A d \in CacheThreads : d = c
      BY <1>1 DEF On, SingleCacheThread
<1>4. ~Over(w) /\ ~Waiting(w)
      BY <1>1 DEF Over, Waiting
<1>5. ~Looking(w) /\ ~OnlyReply(w)
      BY <1>3 DEF Looking, OnlyReply
<1>6. ~HasChunk(w) /\ ~OwesAck(w)
      BY <1>3 DEF HasChunk, OwesAck, Told
<1>7. \/ pc[w] = "get_filesize" /\ Unanswered(w) /\ ~Asked(seg[w]) /\ HeaderSent(w)
      \/ /\ pc[w] = "get_data" /\ Streaming(w) /\ total[w] < Size(path[w])
         /\ AwaitingChunk(w)
      BY <1>1, <1>2, <1>4, <1>5, <1>6 DEF RequestInv, TypeOK, ProxyTypeOK, WorkerPC
<1>8. CASE HeaderSent(w) /\ pc[w] = "get_filesize"
      BY <1>1, <1>3, <1>7, <1>8 DEF HeaderSent, Told
<1>9. CASE AwaitingChunk(w) /\ pc[w] = "get_data"
      BY <1>1, <1>3, <1>7, <1>9 DEF AwaitingChunk, Told
<1>. QED BY <1>7, <1>8, <1>9

\* The acknowledgement that a cache thread takes is of a chunk in the middle of
\* the file, or the last one of a request that its segment is done with.
LEMMA AckFound ==
    ASSUME TypeOK, TransferInv, SingleCacheThread, NEW c \in CacheThreads,
           cpc[c] = "rx_ack", p2c[cseg[c]] # <<>>
    PROVE  \/ /\ Quiet(cseg[c])
              /\ Len(p2c[cseg[c]]) = 1
              /\ Head(p2c[cseg[c]]).file_size <= ctotal[c]
           \/ \E w \in Workers :
                /\ seg[w] = cseg[c] /\ pc[w] = "get_data" /\ Sending(c, w)
                /\ Streaming(w) /\ total[w] < Size(path[w])
                /\ c2p[seg[w]] = <<>> /\ Len(p2c[seg[w]]) = 1
                /\ p2c[seg[w]][1].file_size = Size(path[w])
                /\ ctotal[c] = total[w]
<1>1. CASE Quiet(cseg[c])
      BY <1>1 DEF Quiet, On, SingleCacheThread
<1>2. ASSUME ~Quiet(cseg[c]), NEW w \in Workers, seg[w] = cseg[c]
      PROVE  /\ pc[w] = "get_data" /\ Sending(c, w)
             /\ Streaming(w) /\ total[w] < Size(path[w])
             /\ c2p[seg[w]] = <<>> /\ Len(p2c[seg[w]]) = 1
             /\ p2c[seg[w]][1].file_size = Size(path[w])
             /\ ctotal[c] = total[w]
  <2>1. RequestInv(w) /\ seg[w] # NoSeg
        BY <1>2 DEF TransferInv, TypeOK, CacheTypeOK
  <2>2. \A d \in CacheThreads : d = c
        BY DEF SingleCacheThread
  <2>3. ~Over(w) /\ ~Waiting(w)
        BY <1>2 DEF Over, Waiting
  <2>4. ~Looking(w) /\ ~OnlyReply(w) /\ ~HeaderSent(w) /\ ~HasChunk(w) /\ ~OwesAck(w)
        BY <1>2 DEF Looking, OnlyReply, HeaderSent, HasChunk, OwesAck
  <2>5. pc[w] = "get_data" /\ Streaming(w) /\ total[w] < Size(path[w]) /\ AwaitingChunk(w)
        BY <1>2, <2>1, <2>3, <2>4 DEF RequestInv, TypeOK, ProxyTypeOK, WorkerPC
  <2>.  QED BY <1>2, <2>2, <2>5 DEF AwaitingChunk, Filling, Told
<1>3. cseg[c] \in Segments
      BY DEF TypeOK, CacheTypeOK
<1>4. ~Quiet(cseg[c]) => \E w \in Workers : seg[w] = cseg[c]
      BY <1>3 DEF TransferInv, FreeInv
<1>. QED BY <1>1, <1>2, <1>4

-----------------------------------------------------------------------------
(***************************************************************************)
(* The steps of the cache.                                                 *)
(***************************************************************************)

\* A step of the only cache thread touches the segment it works on, no worker
\* and, unless it takes a request, not the control queue.
LEMMA CacheFrame ==
    ASSUME TypeOK, TransferInv, SingleCacheThread, NEW c \in CacheThreads,
           CacheStep(c) \/ FindSegmentFails(c), ~RxRequest(c)
    PROVE  /\ \A s \in Segments : s # cseg[c] => SegSame(s) /\ AskSame(s)
           /\ \A v \in Workers : WorkerSame(v)
           /\ \A s \in Segments : AskSame(s)
           /\ ControlInv'
<1>1. \A d \in CacheThreads : d = c
      BY DEF SingleCacheThread
<1>2. cseg \in [CacheThreads -> Segments \cup {NoSeg}] /\ cpc[c] # "idle"
      BY DEF TypeOK, CacheTypeOK, CacheStep, FindSegment, TxMiss, TxHeader,
         EmptyFile, FillSegment, NothingToRead, TxData, RxAck, FindSegmentFails
<1>3. ctrlQ' = ctrlQ /\ UNCHANGED <<workerVars, clientVars>>
      BY DEF CacheStep, FindSegment, TxMiss, TxHeader, EmptyFile, FillSegment,
         NothingToRead, TxData, RxAck, FindSegmentFails, queueVars
<1>4. \A v \in Workers : WorkerSame(v)
      BY <1>3 DEF WorkerSame, workerVars, clientVars
<1>5. \A s \in Segments : AskSame(s)
      BY <1>3 DEF AskSame, Queued
<1>6. ControlInv'
      BY <1>3, ControlFrame DEF workerVars
<1>7. ASSUME NEW s \in Segments, s # cseg[c]
      PROVE  c2p'[s] = c2p[s] /\ p2c'[s] = p2c[s] /\ shm'[s] = shm[s]
  <2>1. c2p \in [Segments -> Seq(Packet)] /\ p2c \in [Segments -> Seq(Packet)]
        /\ shm \in [Segments -> Piece]
        BY DEF TypeOK, ChannelTypeOK
  <2>2. CASE FillSegment(c)
        BY <1>7, <2>1, <2>2 DEF FillSegment, queueVars
  <2>3. CASE TxMiss(c) \/ TxHeader(c) \/ TxData(c) \/ RxAck(c)
        BY <1>7, <2>1, <2>3 DEF TxMiss, TxHeader, TxData, RxAck
  <2>4. CASE FindSegment(c) \/ FindSegmentFails(c) \/ EmptyFile(c) \/ NothingToRead(c)
        BY <2>4 DEF FindSegment, FindSegmentFails, EmptyFile, NothingToRead, queueVars
  <2>.  QED BY <2>2, <2>3, <2>4 DEF CacheStep
<1>8. cseg'[c] \in {cseg[c], NoSeg}
      BY <1>2 DEF CacheStep, FindSegment, TxMiss, TxHeader, EmptyFile, FillSegment,
         NothingToRead, TxData, RxAck, FindSegmentFails, LoopTest, cacheVars
<1>9. \A s \in Segments : s # cseg[c] => SegSame(s)
      BY <1>1, <1>7, <1>8, Distinct DEF SegSame, On
<1>. QED BY <1>4, <1>5, <1>6, <1>9

\* What is left to show of such a step, when worker w holds the segment.
LEMMA CacheAssemble ==
    ASSUME TypeOK, TransferInv, SegmentsConserved, SingleCacheThread,
           NEW c \in CacheThreads,
           CacheStep(c) \/ FindSegmentFails(c), ~RxRequest(c),
           NEW w \in Workers, seg[w] = cseg[c], RequestInv(w)'
    PROVE  TransferInv'
<1>1. cseg[c] # NoSeg /\ cseg[c] \in Segments
      BY DEF TypeOK, CacheTypeOK, CacheStep, FindSegment, TxMiss, TxHeader,
         EmptyFile, FillSegment, NothingToRead, TxData, RxAck, FindSegmentFails
<1>2. \A v \in Workers : (WorkerSame(v) /\ seg[v] # cseg[c]) \/ RequestInv(v)'
      BY <1>1, CacheFrame, Holder
<1>3. \A v \in Workers : seg'[v] = seg[v]
      BY CacheFrame DEF WorkerSame
<1>4. \A s \in Segments : s # cseg[c] => SegSame(s) /\ AskSame(s)
      BY CacheFrame
<1>5. ControlInv'
      BY CacheFrame
<1>6. ~ \A v \in Workers : seg'[v] # cseg[c]
      BY <1>3
<1>. QED BY <1>2, <1>3, <1>4, <1>5, <1>6, Assemble

\* find_segment keeps the invariant.
LEMMA InvFindSegment ==
    ASSUME TypeOK, TransferInv, SegmentsConserved, SingleCacheThread,
           NEW c \in CacheThreads, FindSegment(c) \/ FindSegmentFails(c)
    PROVE  TransferInv'
<1>1. PICK w \in Workers :
        /\ seg[w] = cseg[c] /\ pc[w] = "get_filesize" /\ cfile[c] = path[w]
        /\ Unanswered(w) /\ ~Asked(seg[w]) /\ Looking(w)
      BY LookingFound DEF FindSegment, FindSegmentFails
<1>2. Looking(w)'
  <2>1. /\ cpc'[c] \in {"find", "spin", "reply"}
        /\ UNCHANGED <<c2p, p2c, cseg, cfile, workerVars>>
        BY DEF FindSegment, FindSegmentFails, TypeOK, CacheTypeOK, queueVars
  <2>.  QED BY <1>1, <2>1 DEF Looking, On, workerVars
<1>3. ~Asked(seg[w])' /\ Unanswered(w)' /\ pc'[w] = "get_filesize"
      BY <1>1 DEF FindSegment, FindSegmentFails, Asked, Queued, Unanswered,
         workerVars, clientVars, queueVars
<1>4. RequestInv(w)'
      BY <1>2, <1>3 DEF RequestInv
<1>5. ~RxRequest(c)
      BY DEF RxRequest, FindSegment, FindSegmentFails
<1>. QED BY <1>1, <1>4, <1>5, CacheAssemble DEF CacheStep

\* The reply to a miss keeps the invariant.
LEMMA InvTxMiss ==
    ASSUME TypeOK, TransferInv, SegmentsConserved, SingleCacheThread,
           NEW c \in CacheThreads, TxMiss(c)
    PROVE  TransferInv'
<1>1. PICK w \in Workers :
        /\ seg[w] = cseg[c] /\ pc[w] = "get_filesize" /\ cfile[c] = path[w]
        /\ Unanswered(w) /\ ~Asked(seg[w]) /\ Looking(w)
      BY LookingFound DEF TxMiss
<1>2. cseg[c] \in Segments
      BY DEF TypeOK, CacheTypeOK, TxMiss
<1>3. c2p'[cseg[c]] = <<Blank>> /\ p2c'[cseg[c]] = <<>>
  <2>1. c2p[cseg[c]] = <<>> /\ p2c[cseg[c]] = <<>>
        BY <1>1 DEF Looking
  <2>.  QED BY <1>2, <2>1, AppendToEmpty DEF TxMiss, TypeOK, ChannelTypeOK
<1>4. \A d \in CacheThreads : cseg'[d] = NoSeg
      BY DEF TxMiss, TypeOK, CacheTypeOK, SingleCacheThread
<1>5. OnlyReply(w)'
  <2>1. Len(<<Blank>>) = 1 /\ <<Blank>>[1] = Blank /\ ~Blank.cache_hit
        BY DEF Blank
  <2>2. seg'[w] = cseg[c] /\ path'[w] \notin Cached
        BY <1>1 DEF TxMiss, workerVars
  <2>.  QED BY <1>2, <1>3, <1>4, <2>1, <2>2, Distinct DEF OnlyReply, On
<1>6. ~Asked(seg[w])' /\ Unanswered(w)' /\ pc'[w] = "get_filesize"
      BY <1>1 DEF TxMiss, Asked, Queued, Unanswered, workerVars, clientVars
<1>7. RequestInv(w)'
      BY <1>5, <1>6 DEF RequestInv
<1>. QED BY <1>1, <1>7, CacheAssemble DEF CacheStep, RxRequest, TxMiss

\* The reply with the length of the file keeps the invariant.
LEMMA InvTxHeader ==
    ASSUME TypeOK, TransferInv, SegmentsConserved, SingleCacheThread,
           NEW c \in CacheThreads, TxHeader(c)
    PROVE  TransferInv'
<1> DEFINE header == [cache_hit  |-> TRUE,
                      file_size  |-> ToInt(FileSize[cfile[c]]),
                      chunk_size |-> -1]
<1>1. PICK w \in Workers :
        /\ seg[w] = cseg[c] /\ pc[w] = "get_filesize" /\ cfile[c] = path[w]
        /\ Unanswered(w) /\ ~Asked(seg[w]) /\ Looking(w)
      BY LookingFound DEF TxHeader
<1>2. cseg[c] \in Segments /\ path[w] \in Cached /\ Size(path[w]) \in Int
      BY <1>1, ToIntType, FileSizeAssumption
      DEF TypeOK, CacheTypeOK, TxHeader, Size
<1>3. /\ header.file_size = Size(path[w]) /\ header.cache_hit
      /\ LoopTest(c, header, 0)
      BY <1>1 DEF TxHeader, Size
<1> HIDE DEF header
<1>4. c2p'[cseg[c]] = <<header>> /\ p2c'[cseg[c]] = <<>>
  <2>1. c2p[cseg[c]] = <<>> /\ p2c[cseg[c]] = <<>>
        BY <1>1 DEF Looking
  <2>2. c2p' = [c2p EXCEPT ![cseg[c]] = Append(@, header)]
        BY DEF TxHeader, header
  <2>.  QED BY <1>2, <2>1, <2>2, AppendToEmpty DEF TxHeader, TypeOK, ChannelTypeOK
<1>5. Len(<<header>>) = 1 /\ <<header>>[1] = header /\ <<header>> # <<>>
      OBVIOUS
<1>6. seg'[w] = cseg[c] /\ path'[w] = path[w]
      BY <1>1 DEF TxHeader, workerVars
<1>10. ~Asked(seg[w])' /\ Unanswered(w)' /\ pc'[w] = "get_filesize"
      BY <1>1 DEF TxHeader, Asked, Queued, Unanswered, workerVars, clientVars
<1>7. ASSUME Size(path[w]) > 0 PROVE RequestInv(w)'
  <2>1. /\ cpc'[c] = "fill" /\ cpkt'[c] = header /\ ctotal'[c] = 0
        /\ cseg'[c] = cseg[c] /\ cfile'[c] = cfile[c]
        BY <1>2, <1>3, <1>7 DEF LoopTest, TypeOK, CacheTypeOK
  <2>2. Sending(c, w)' /\ Filling(c, w, 0)'
        BY <1>1, <1>2, <1>3, <1>6, <1>7, <2>1 DEF Sending, On, Filling, Size
  <2>3. HeaderSent(w)'
        BY <1>2, <1>3, <1>4, <1>5, <1>6, <1>7, <2>2 DEF HeaderSent, IsHeader, Size
  <2>.  QED BY <1>10, <2>3 DEF RequestInv
<1>8. ASSUME Size(path[w]) <= 0 PROVE RequestInv(w)'
  <2>1. cseg'[c] = NoSeg
        BY <1>2, <1>3, <1>8 DEF LoopTest, TypeOK, CacheTypeOK
  <2>2. OnlyReply(w)'
        BY <1>2, <1>3, <1>4, <1>5, <1>6, <1>8, <2>1, Distinct
        DEF OnlyReply, IsHeader, On, Size, SingleCacheThread
  <2>.  QED BY <1>10, <2>2 DEF RequestInv
<1>9. RequestInv(w)'
      BY <1>2, <1>7, <1>8
<1>. QED BY <1>1, <1>9, CacheAssemble DEF CacheStep, RxRequest, TxHeader

\* Reading the next chunk into the segment keeps the invariant.
LEMMA InvFillSegment ==
    ASSUME TypeOK, TransferInv, SegmentsConserved, SingleCacheThread,
           NEW c \in CacheThreads, FillSegment(c)
    PROVE  TransferInv'
<1>1. PICK w \in Workers :
        /\ seg[w] = cseg[c] /\ Sending(c, w) /\ p2c[seg[w]] = <<>>
        /\ \/ /\ pc[w] = "get_filesize" /\ Unanswered(w)
              /\ ~Asked(seg[w]) /\ Size(path[w]) > 0
              /\ Len(c2p[seg[w]]) = 1 /\ IsHeader(c2p[seg[w]][1], path[w])
              /\ Filling(c, w, 0)
           \/ /\ pc[w] = "get_data" /\ Streaming(w)
              /\ total[w] < Size(path[w])
              /\ c2p[seg[w]] = <<>> /\ Filling(c, w, total[w])
      BY SendingFound DEF FillSegment
<1>2. cseg[c] \in Segments /\ path[w] \in Cached /\ Size(path[w]) \in Int
      BY <1>1, ToIntType, FileSizeAssumption
      DEF TypeOK, CacheTypeOK, FillSegment, Size, Sending
<1>3. PICK n \in 1 .. Smaller(Wanted(c), Available(c)) :
        /\ shm' = [shm EXCEPT ![cseg[c]] = [path |-> cfile[c],
                                            off  |-> ctotal[c],
                                            len  |-> n]]
        /\ cpkt' = [cpkt EXCEPT ![c].chunk_size = n]
      BY DEF FillSegment
<1>4. cpkt[c] \in Packet /\ ctotal[c] \in Nat
      BY DEF TypeOK, CacheTypeOK
<1>5. /\ shm'[cseg[c]] = [path |-> path[w], off |-> ctotal[c], len |-> n]
      /\ cpkt'[c].chunk_size = n /\ cpkt'[c].file_size = cpkt[c].file_size
      /\ cpc'[c] = "tx_data"
      BY <1>1, <1>2, <1>3, <1>4
      DEF TypeOK, CacheTypeOK, ChannelTypeOK, Packet, FillSegment, Sending
<1>6. cpkt[c].file_size = Size(path[w])
      BY <1>1 DEF FillSegment, Filling
<1>7. n > 0 /\ ctotal[c] + n <= Size(path[w])
  <2>1. Wanted(c) <= Size(path[w]) - ctotal[c] /\ Wanted(c) \in Int
        BY <1>2, <1>4, <1>6, SegSizeAssumption DEF Wanted, Smaller
  <2>2. Available(c) \in Int
        BY <1>1, <1>2, <1>4, FileSizeAssumption DEF Available, Sending
  <2>3. /\ Smaller(Wanted(c), Available(c)) \in Int
        /\ Smaller(Wanted(c), Available(c)) <= Wanted(c)
        BY <2>1, <2>2 DEF Smaller
  <2>.  QED BY <1>2, <1>4, <2>1, <2>3
<1>8. UNCHANGED <<c2p, p2c, ctrlQ, cseg, cfile, ctotal, workerVars, clientVars>>
      BY DEF FillSegment, queueVars
<1>9. Sending(c, w)' /\ \A at : Filling(c, w, at) => Filling(c, w, at)'
      BY <1>1, <1>5, <1>6, <1>7, <1>8
      DEF Sending, On, Filling, Chunk, workerVars, Size, FillSegment
<1>10. CASE pc[w] = "get_filesize"
  <2>1. HeaderSent(w)'
        BY <1>1, <1>8, <1>9, <1>10, EmptySeq DEF HeaderSent, IsHeader, Size, workerVars
  <2>2. pc'[w] = "get_filesize" /\ ~Asked(seg[w])' /\ Unanswered(w)'
        BY <1>1, <1>8, <1>10 DEF Asked, Queued, Unanswered, workerVars, clientVars
  <2>3. RequestInv(w)'
        BY <2>1, <2>2 DEF RequestInv
  <2>.  QED BY <1>1, <2>3, CacheAssemble DEF CacheStep, RxRequest, FillSegment
<1>11. CASE pc[w] = "get_data"
  <2>1. AwaitingChunk(w)'
        BY <1>1, <1>8, <1>9, <1>11 DEF AwaitingChunk, workerVars
  <2>2. pc'[w] = "get_data" /\ Streaming(w)' /\ (total[w] < Size(path[w]))'
        BY <1>1, <1>8, <1>11 DEF Streaming, Size, workerVars, clientVars
  <2>3. RequestInv(w)'
        BY <2>1, <2>2 DEF RequestInv
  <2>.  QED BY <1>1, <2>3, CacheAssemble DEF CacheStep, RxRequest, FillSegment
<1>. QED BY <1>1, <1>10, <1>11

\* The message about a chunk keeps the invariant.
LEMMA InvTxData ==
    ASSUME TypeOK, TransferInv, SegmentsConserved, SingleCacheThread,
           NEW c \in CacheThreads, TxData(c)
    PROVE  TransferInv'
<1>1. PICK w \in Workers :
        /\ seg[w] = cseg[c] /\ Sending(c, w) /\ p2c[seg[w]] = <<>>
        /\ \/ /\ pc[w] = "get_filesize" /\ Unanswered(w)
              /\ ~Asked(seg[w]) /\ Size(path[w]) > 0
              /\ Len(c2p[seg[w]]) = 1 /\ IsHeader(c2p[seg[w]][1], path[w])
              /\ Filling(c, w, 0)
           \/ /\ pc[w] = "get_data" /\ Streaming(w)
              /\ total[w] < Size(path[w])
              /\ c2p[seg[w]] = <<>> /\ Filling(c, w, total[w])
      BY SendingFound DEF TxData
<1>2. /\ cseg[c] \in Segments /\ cpkt[c] \in Packet /\ c2p[cseg[c]] \in Seq(Packet)
      /\ c2p \in [Segments -> Seq(Packet)]
      BY DEF TypeOK, CacheTypeOK, ChannelTypeOK, TxData
<1>3. c2p'[cseg[c]] = Append(c2p[cseg[c]], cpkt[c])
      BY <1>2 DEF TxData
<1>4. ASSUME NEW at, Filling(c, w, at)
      PROVE  Told(c, w, cpkt[c], at)'
  <2>1. ctotal[c] = at /\ Chunk(w, cpkt[c], at)
        BY <1>4 DEF Filling, TxData
  <2>2. Chunk(w, cpkt[c], at)'
        BY <2>1 DEF Chunk, TxData, workerVars, Size
  <2>3. cpc'[c] = "rx_ack" /\ ctotal'[c] = ctotal[c] + cpkt[c].chunk_size /\ cpkt' = cpkt
        BY DEF TxData, TypeOK, CacheTypeOK
  <2>.  QED BY <2>1, <2>2, <2>3 DEF Told
<1>5. UNCHANGED <<p2c, ctrlQ, cseg, cfile, cpkt, workerVars, clientVars>>
      BY DEF TxData
<1>6. Sending(c, w)'
      BY <1>1, <1>5 DEF Sending, On, workerVars
<1>7. CASE pc[w] = "get_filesize"
  <2>1. /\ Len(c2p'[cseg[c]]) = 2 /\ c2p'[cseg[c]] # <<>>
        /\ c2p'[cseg[c]][1] = c2p[cseg[c]][1]
        /\ c2p'[cseg[c]][2] = cpkt[c]
        BY <1>1, <1>2, <1>3, <1>7, AppendLast
  <2>2. Told(c, w, cpkt[c], 0)'
        BY <1>1, <1>4, <1>7
  <2>3. HeaderSent(w)'
        BY <1>1, <1>5, <1>6, <1>7, <2>1, <2>2 DEF HeaderSent, IsHeader, Size, workerVars
  <2>4. pc'[w] = "get_filesize" /\ ~Asked(seg[w])' /\ Unanswered(w)'
        BY <1>1, <1>5, <1>7 DEF Asked, Queued, Unanswered, workerVars, clientVars
  <2>5. RequestInv(w)'
        BY <2>3, <2>4 DEF RequestInv
  <2>.  QED BY <1>1, <2>5, CacheAssemble DEF CacheStep, RxRequest, TxData
<1>8. CASE pc[w] = "get_data"
  <2>1. Len(c2p'[cseg[c]]) = 1 /\ c2p'[cseg[c]][1] = cpkt[c]
        BY <1>1, <1>2, <1>3, <1>8, AppendLast
  <2>2. Told(c, w, cpkt[c], total[w])'
        BY <1>1, <1>4, <1>5, <1>8 DEF workerVars
  <2>3. AwaitingChunk(w)'
        BY <1>1, <1>5, <1>6, <1>8, <2>1, <2>2 DEF AwaitingChunk, workerVars
  <2>4. pc'[w] = "get_data" /\ Streaming(w)' /\ (total[w] < Size(path[w]))'
        BY <1>1, <1>5, <1>8 DEF Streaming, Size, workerVars, clientVars
  <2>5. RequestInv(w)'
        BY <2>3, <2>4 DEF RequestInv
  <2>.  QED BY <1>1, <2>5, CacheAssemble DEF CacheStep, RxRequest, TxData
<1>. QED BY <1>1, <1>7, <1>8

\* The acknowledgement that the cache takes keeps the invariant.
LEMMA InvRxAck ==
    ASSUME TypeOK, TransferInv, SegmentsConserved, SingleCacheThread,
           NEW c \in CacheThreads, RxAck(c)
    PROVE  TransferInv'
<1>0. PICK t : t = cseg[c]
      OBVIOUS
<1> DEFINE m == Head(p2c[t])
<1>1. /\ t \in Segments /\ t # NoSeg /\ p2c \in [Segments -> Seq(Packet)]
      /\ p2c[t] \in Seq(Packet) /\ p2c[t] # <<>>
      BY <1>0 DEF TypeOK, CacheTypeOK, ChannelTypeOK, RxAck
<1>2. /\ m = p2c[t][1] /\ m \in Packet /\ m.file_size \in Int
      /\ Len(Tail(p2c[t])) = Len(p2c[t]) - 1 /\ Tail(p2c[t]) \in Seq(Packet)
      BY <1>1, HeadTail, PacketFields
<1>3. /\ p2c'[t] = Tail(p2c[t]) /\ LoopTest(c, m, ctotal[c])
      /\ UNCHANGED <<c2p, ctrlQ, shm, workerVars, clientVars>>
      BY <1>0, <1>1 DEF RxAck
<1>4. \A d \in CacheThreads : d = c
      BY DEF SingleCacheThread
<1>5. ctotal[c] \in Nat
      BY DEF TypeOK, CacheTypeOK
<1>6. ASSUME Quiet(t), Len(p2c[t]) = 1, m.file_size <= ctotal[c]
      PROVE  TransferInv'
  <2>1. cseg'[c] = NoSeg
        BY <1>2, <1>3, <1>5, <1>6 DEF LoopTest, TypeOK, CacheTypeOK
  <2>2. p2c'[t] = <<>>
    <3>1. Len(Tail(p2c[t])) = 0
          BY <1>2, <1>6
    <3>2. Tail(p2c[t]) = <<>>
          BY <1>2, <3>1, LenZero
    <3>.  QED BY <1>3, <3>2
  <2>3. Quiet(t)'
        BY <1>1, <1>3, <1>4, <1>6, <2>1, <2>2 DEF Quiet, On
  <2>4. ASSUME NEW w \in Workers, seg[w] = t
        PROVE  RequestInv(w)'
    <3>1. RequestInv(w) /\ c2p[t] = <<>> /\ p2c[t] # <<>>
          BY <1>1, <1>6 DEF TransferInv, Quiet
    <3>2. ~Looking(w) /\ ~HeaderSent(w) /\ ~OnlyReply(w) /\ ~HasChunk(w) /\ ~OwesAck(w)
          BY <2>4, <3>1 DEF Looking, HeaderSent, OnlyReply, HasChunk, OwesAck
    <3>3. ~(pc[w] = "get_data" /\ Streaming(w) /\ total[w] < Size(path[w]) /\ AwaitingChunk(w))
      <4> SUFFICES ASSUME AwaitingChunk(w), total[w] < Size(path[w]) PROVE FALSE
          OBVIOUS
      <4>1. p2c[t][1].file_size = Size(path[w]) /\ ctotal[c] = total[w]
            BY <1>1, <1>4, <2>4, <3>1 DEF AwaitingChunk
      <4>2. Size(path[w]) \in Int
            BY <1>2, <4>1
      <4>.  QED BY <1>2, <1>5, <1>6, <4>1, <4>2
    <3>4. pc[w] \in {"send", "get_filesize", "release"}
          BY <1>1, <2>4, <3>1, <3>2, <3>3
          DEF RequestInv, TypeOK, ProxyTypeOK, WorkerPC
    <3>5. Quiet(seg[w])'
          BY <1>3, <2>3, <2>4 DEF workerVars, Quiet, On
    <3>6. pc'[w] = pc[w] /\ (Unanswered(w) => Unanswered(w)')
          BY <1>3 DEF Unanswered, workerVars, clientVars
    <3>7. Waiting(w) => Waiting(w)'
          BY <1>3, <3>5 DEF Waiting, Queued, workerVars
    <3>8. Over(w) => Over(w)'
          BY <1>3, <3>5 DEF Over, Streaming, Size, workerVars, clientVars
    <3>.  QED BY <3>1, <3>2, <3>4, <3>5, <3>6, <3>7, <3>8 DEF RequestInv
  <2>5. CASE \E w \in Workers : seg[w] = t
        BY <1>0, <2>4, <2>5, CacheAssemble DEF CacheStep, RxRequest, RxAck
  <2>6. CASE \A w \in Workers : seg[w] # t
    <3>1. CacheStep(c) /\ ~RxRequest(c)
          BY DEF CacheStep, RxRequest, RxAck
    <3>2. \A v \in Workers : WorkerSame(v) /\ seg[v] # t /\ seg'[v] = seg[v]
          BY <2>6, <3>1, CacheFrame DEF WorkerSame
    <3>3. /\ \A s \in Segments : s # t => SegSame(s) /\ AskSame(s)
          /\ ControlInv'
          BY <1>0, <3>1, CacheFrame
    <3>.  QED BY <2>3, <3>2, <3>3, Assemble
  <2>.  QED BY <2>5, <2>6
<1>7. ASSUME NEW w \in Workers, seg[w] = t, pc[w] = "get_data",
             Sending(c, w), Streaming(w), total[w] < Size(path[w]),
             c2p[t] = <<>>, Len(p2c[t]) = 1,
             p2c[t][1].file_size = Size(path[w]), ctotal[c] = total[w]
      PROVE  TransferInv'
  <2>1. /\ cpc'[c] = "fill" /\ cpkt'[c] = m /\ ctotal'[c] = ctotal[c]
        /\ cseg'[c] = t /\ cfile'[c] = cfile[c]
        BY <1>0, <1>2, <1>3, <1>5, <1>7 DEF LoopTest, TypeOK, CacheTypeOK
  <2>2. p2c'[t] = <<>>
    <3>1. Len(Tail(p2c[t])) = 0
          BY <1>2, <1>7
    <3>2. Tail(p2c[t]) = <<>>
          BY <1>2, <3>1, LenZero
    <3>.  QED BY <1>3, <3>2
  <2>3. Sending(c, w)' /\ Filling(c, w, total[w])'
        BY <1>2, <1>3, <1>7, <2>1 DEF Sending, On, Filling, Size, workerVars
  <2>4. AwaitingChunk(w)'
        BY <1>3, <1>7, <2>2, <2>3 DEF AwaitingChunk, workerVars
  <2>5. pc'[w] = "get_data" /\ Streaming(w)' /\ (total[w] < Size(path[w]))'
        BY <1>3, <1>7 DEF Streaming, Size, workerVars, clientVars
  <2>6. RequestInv(w)'
        BY <2>4, <2>5 DEF RequestInv
  <2>.  QED BY <1>0, <1>7, <2>6, CacheAssemble DEF CacheStep, RxRequest, RxAck
<1>. QED BY <1>0, <1>1, <1>6, <1>7, AckFound DEF RxAck

\* The request that the cache takes keeps the invariant.
LEMMA InvRxRequest ==
    ASSUME TypeOK, TransferInv, SegmentsConserved, SingleCacheThread,
           NEW c \in CacheThreads, RxRequest(c)
    PROVE  TransferInv'
<1>1. PICK t, p : t = Head(ctrlQ).segment_index /\ p = Head(ctrlQ).requested_file
      OBVIOUS
<1>2. /\ ctrlQ \in Seq(Request) /\ ctrlQ # <<>> /\ cpc[c] = "idle" /\ cseg[c] = NoSeg
      /\ ctrlQ' = Tail(ctrlQ)
      BY DEF TypeOK, ChannelTypeOK, CacheTypeOK, RxRequest
<1>3. /\ Head(ctrlQ) \in Request /\ Head(ctrlQ) = ctrlQ[1]
      /\ Len(ctrlQ) \in Nat /\ Len(ctrlQ) > 0 /\ Len(ctrlQ') = Len(ctrlQ) - 1
      /\ \A i \in 1 .. Len(ctrlQ') : ctrlQ'[i] = ctrlQ[i + 1]
      BY <1>2, HeadTail
<1>4. /\ ctrlQ[1] = [requested_file |-> p, segment_index |-> t]
      /\ p \in Paths /\ t \in Segments
      BY <1>1, <1>3 DEF Request
<1>5. \A i, j \in 1 .. Len(ctrlQ) :
        ctrlQ[i].segment_index = ctrlQ[j].segment_index => i = j
      BY DEF TransferInv, ControlInv
<1>6. \A i \in 1 .. Len(ctrlQ') : i + 1 \in 1 .. Len(ctrlQ) /\ i + 1 # 1
      BY <1>3
<1>7. \A i \in 1 .. Len(ctrlQ) : i # 1 => i - 1 \in 1 .. Len(ctrlQ') /\ ctrlQ'[i - 1] = ctrlQ[i]
  <2>1. \A i \in 1 .. Len(ctrlQ) : i # 1 => i - 1 \in 1 .. Len(ctrlQ') /\ (i - 1) + 1 = i
        BY <1>3
  <2>.  QED BY <1>3, <2>1
<1>8. 1 \in 1 .. Len(ctrlQ)
      BY <1>3
<1>9. Queued(p, t)
      BY <1>4, <1>8 DEF Queued
<1>10. \A q \in Paths : ~Queued(q, t)'
      BY <1>3, <1>4, <1>5, <1>6, <1>8 DEF Queued
<1>11. \A q \in Paths : Queued(q, t) => q = p
      BY <1>4, <1>5, <1>8 DEF Queued
<1>12. \A s \in Segments : s # t => AskSame(s)
  <2> SUFFICES ASSUME NEW s \in Segments, s # t, NEW q \in Paths
               PROVE  Queued(q, s)' <=> Queued(q, s)
      BY DEF AskSame
  <2>1. Queued(q, s)' => Queued(q, s)
        BY <1>3, <1>6 DEF Queued
  <2>2. Queued(q, s) => Queued(q, s)'
        BY <1>4, <1>7 DEF Queued
  <2>.  QED BY <2>1, <2>2
<1>13. PICK w \in Workers : seg[w] = t /\ pc[w] = "get_filesize"
      BY <1>4, <1>9 DEF TransferInv, ControlInv, Asked
<1>14. Unanswered(w) /\ Waiting(w) /\ path[w] \in Paths
      BY <1>4, <1>9, <1>13 DEF TransferInv, RequestInv, Asked, TypeOK, ProxyTypeOK
<1>15. path[w] = p /\ Quiet(t)
      BY <1>11, <1>13, <1>14 DEF Waiting
<1>16. c2p[t] = <<>> /\ p2c[t] = <<>>
      BY <1>2, <1>15 DEF Quiet, SingleCacheThread
<1>17. /\ UNCHANGED <<c2p, p2c, shm, workerVars, clientVars>>
       /\ cseg'[c] = t /\ cfile'[c] = p /\ cpc'[c] = "find"
      BY <1>1 DEF RxRequest, TypeOK, CacheTypeOK
<1>18. Looking(w)'
      BY <1>13, <1>15, <1>16, <1>17 DEF Looking, On, workerVars
<1>19. RequestInv(w)'
  <2>1. ~Asked(seg[w])'
        BY <1>10, <1>13, <1>17 DEF Asked, workerVars
  <2>2. Unanswered(w)' /\ pc'[w] = "get_filesize"
        BY <1>13, <1>14, <1>17 DEF Unanswered, workerVars, clientVars
  <2>.  QED BY <1>18, <2>1, <2>2 DEF RequestInv
<1>20. \A v \in Workers : WorkerSame(v) /\ seg'[v] = seg[v]
      BY <1>17 DEF WorkerSame, workerVars, clientVars
<1>21. \A v \in Workers : (WorkerSame(v) /\ seg[v] # t) \/ RequestInv(v)'
      BY <1>4, <1>13, <1>19, <1>20, Holder, Distinct
<1>22. \A s \in Segments : s # t => SegSame(s)
      BY <1>2, <1>17, Distinct DEF SegSame, On, SingleCacheThread
<1>23. ControlInv'
  <2>1. \A i, j \in 1 .. Len(ctrlQ') :
          ctrlQ'[i].segment_index = ctrlQ'[j].segment_index => i = j
        BY <1>3, <1>5, <1>6
  <2>2. ASSUME NEW s \in Segments, Asked(s)'
        PROVE  \E v \in Workers : seg'[v] = s /\ pc'[v] = "get_filesize"
    <3>1. s # t
          BY <1>10, <2>2 DEF Asked
    <3>2. Asked(s)
          BY <1>12, <2>2, <3>1 DEF Asked, AskSame
    <3>.  QED BY <1>17, <3>2 DEF TransferInv, ControlInv, workerVars
  <2>.  QED BY <2>1, <2>2 DEF ControlInv, Segments
<1>24. ~ \A v \in Workers : seg'[v] # t
      BY <1>13, <1>20
<1>. QED BY <1>12, <1>20, <1>21, <1>22, <1>23, <1>24, Assemble

\* A step that only ends a process, or none.
LEMMA InvUnchanged ==
    ASSUME TypeOK, TransferInv,
           UNCHANGED <<pool, workerVars, clientVars, queueVars, shm, cacheVars>>
    PROVE  TransferInv'
<1>1. \A s : SegSame(s) /\ AskSame(s)
      BY DEF SegSame, AskSame, Queued, On, queueVars, cacheVars
<1>2. \A w \in Workers : WorkerSame(w) /\ seg'[w] = seg[w]
      BY DEF WorkerSame, workerVars, clientVars
<1>3. \A w \in Workers : RequestInv(w)'
      BY <1>1, <1>2, RequestFrame DEF TransferInv
<1>4. FreeInv'
      BY <1>1, <1>2, QuietFrame DEF TransferInv, FreeInv, Segments
<1>5. ControlInv'
      BY ControlFrame DEF workerVars, queueVars
<1>. QED BY <1>3, <1>4, <1>5 DEF TransferInv

\* Every step of the cache keeps the invariant.
LEMMA InvCacheStep ==
    ASSUME TypeOK, TransferInv, SegmentsConserved, SingleCacheThread,
           NEW c \in CacheThreads, CacheStep(c) \/ FindSegmentFails(c)
    PROVE  TransferInv'
<1>1. CASE EmptyFile(c) \/ NothingToRead(c)
      BY <1>1, InvUnchanged DEF EmptyFile, NothingToRead
<1>. QED BY <1>1, InvRxRequest, InvFindSegment, InvTxMiss, InvTxHeader,
         InvFillSegment, InvTxData, InvRxAck DEF CacheStep

-----------------------------------------------------------------------------
(***************************************************************************)
(* The steps of the proxy.                                                 *)
(***************************************************************************)

\* The steps of a worker outside acquire_segment and release_segment touch
\* nothing of the other workers and only the worker's own segment.
LEMMA WorkerAssemble ==
    ASSUME TypeOK, TransferInv, SegmentsConserved, NEW w \in Workers,
           seg' = seg, seg[w] \in Segments, RequestInv(w)', ControlInv',
           \A v \in Workers \ {w} : WorkerSame(v),
           \A s \in Segments : s # seg[w] => SegSame(s) /\ AskSame(s)
    PROVE  TransferInv'
<1>1. PICK t : t = seg[w]
      OBVIOUS
<1>2. \A v \in Workers : (WorkerSame(v) /\ seg[v] # t) \/ RequestInv(v)'
      BY <1>1, Holder, Distinct
<1>3. \A v \in Workers : seg'[v] = seg[v]
      OBVIOUS
<1>4. ~ \A v \in Workers : seg'[v] # t
      BY <1>1
<1>. QED BY <1>1, <1>2, <1>3, <1>4, Assemble

\* A new request keeps the invariant.
LEMMA InvHandle ==
    ASSUME TypeOK, TransferInv, NEW w \in Workers, NEW p \in Paths,
           HandleWithCache(w, p)
    PROVE  TransferInv'
<1>1. /\ \A s : SegSame(s) /\ AskSame(s)
      /\ seg' = seg /\ ctrlQ' = ctrlQ
      BY DEF HandleWithCache, SegSame, AskSame, Queued, On, queueVars, cacheVars
<1>2. \A v \in Workers \ {w} : WorkerSame(v)
      BY DEF HandleWithCache, WorkerSame, clientVars, TypeOK, ProxyTypeOK
<1>3. \A v \in Workers \ {w} : RequestInv(v)'
      BY <1>1, <1>2, RequestFrame DEF TransferInv
<1>4. RequestInv(w)'
  <2>1. Unanswered(w) /\ pc'[w] = "acquire"
        BY DEF TransferInv, RequestInv, HandleWithCache, TypeOK, ProxyTypeOK
  <2>2. Unanswered(w)'
        BY <2>1 DEF Unanswered, HandleWithCache, clientVars
  <2>.  QED BY <2>1, <2>2 DEF RequestInv
<1>5. FreeInv'
      BY <1>1, QuietFrame DEF TransferInv, FreeInv, Segments
<1>6. ControlInv'
  <2>1. \A v \in Workers : pc[v] = "get_filesize" => pc'[v] = pc[v] /\ seg'[v] = seg[v]
        BY <1>1 DEF HandleWithCache, TypeOK, ProxyTypeOK
  <2>.  QED BY <1>1, <2>1, ControlFrame
<1>. QED BY <1>3, <1>4, <1>5, <1>6 DEF TransferInv

\* Waiting for a segment, or waking up, keeps the invariant.
LEMMA InvWait ==
    ASSUME TypeOK, TransferInv, NEW w \in Workers,
           WaitForSegment(w) \/ SpuriousWakeup(w)
    PROVE  TransferInv'
<1>1. /\ \A s : SegSame(s) /\ AskSame(s)
      /\ seg' = seg /\ ctrlQ' = ctrlQ
      BY DEF WaitForSegment, SpuriousWakeup, SegSame, AskSame, Queued, On,
         queueVars, cacheVars
<1>2. \A v \in Workers \ {w} : WorkerSame(v)
      BY DEF WaitForSegment, SpuriousWakeup, WorkerSame, clientVars, TypeOK, ProxyTypeOK
<1>3. \A v \in Workers \ {w} : RequestInv(v)'
      BY <1>1, <1>2, RequestFrame DEF TransferInv
<1>4. RequestInv(w)'
  <2>1. Unanswered(w) /\ pc'[w] \in {"acquire", "wait"}
        BY DEF TransferInv, RequestInv, WaitForSegment, SpuriousWakeup,
           TypeOK, ProxyTypeOK
  <2>2. Unanswered(w)'
        BY <2>1 DEF Unanswered, WaitForSegment, SpuriousWakeup, clientVars
  <2>.  QED BY <2>1, <2>2 DEF RequestInv
<1>5. FreeInv'
      BY <1>1, QuietFrame DEF TransferInv, FreeInv, Segments
<1>6. ControlInv'
  <2>1. \A v \in Workers : pc[v] = "get_filesize" => pc'[v] = pc[v] /\ seg'[v] = seg[v]
        BY <1>1 DEF WaitForSegment, SpuriousWakeup, TypeOK, ProxyTypeOK
  <2>.  QED BY <1>1, <2>1, ControlFrame
<1>. QED BY <1>3, <1>4, <1>5, <1>6 DEF TransferInv

\* Taking a segment keeps the invariant: a free segment is quiet.
LEMMA InvAcquire ==
    ASSUME TypeOK, TransferInv, SegmentsConserved, NEW w \in Workers,
           AcquireSegment(w)
    PROVE  TransferInv'
<1>1. PICK t : t = Head(pool)
      OBVIOUS
<1>2. t \in Segments /\ t = pool[1] /\ 1 \in 1 .. Len(pool)
      BY <1>1, HeadTail DEF AcquireSegment, TypeOK, ProxyTypeOK
<1>3. \A v \in Workers : seg[v] # t
      BY <1>2 DEF SegmentsConserved
<1>4. /\ \A s : SegSame(s) /\ AskSame(s)
      /\ seg' = [seg EXCEPT ![w] = t] /\ seg[w] = NoSeg /\ ctrlQ' = ctrlQ
      BY <1>1 DEF AcquireSegment, SegSame, AskSame, Queued, On, queueVars,
         cacheVars, TypeOK, ProxyTypeOK
<1>5. \A v \in Workers \ {w} : WorkerSame(v)
      BY <1>4 DEF AcquireSegment, WorkerSame, clientVars, TypeOK, ProxyTypeOK
<1>6. Quiet(t)'
      BY <1>2, <1>3, <1>4, QuietFrame DEF TransferInv, FreeInv
<1>7. RequestInv(w)'
  <2>1. Unanswered(w) /\ pc'[w] = "send" /\ seg'[w] = t
        BY <1>4 DEF TransferInv, RequestInv, AcquireSegment, TypeOK, ProxyTypeOK
  <2>2. Unanswered(w)'
        BY <2>1 DEF Unanswered, AcquireSegment, clientVars
  <2>3. Quiet(seg[w])'
        BY <1>6, <2>1 DEF Quiet, On
  <2>.  QED BY <2>1, <2>2, <2>3 DEF RequestInv
<1>8. \A v \in Workers : (WorkerSame(v) /\ seg[v] # t) \/ RequestInv(v)'
      BY <1>3, <1>5, <1>7
<1>9. \A v \in Workers, s \in Segments : s # t => (seg'[v] = s <=> seg[v] = s)
      BY <1>4, Distinct DEF TypeOK, ProxyTypeOK
<1>10. ControlInv'
  <2>1. \A v \in Workers : pc[v] = "get_filesize" => pc'[v] = pc[v] /\ seg'[v] = seg[v]
        BY <1>4 DEF AcquireSegment, TypeOK, ProxyTypeOK
  <2>.  QED BY <1>4, <2>1, ControlFrame
<1>. QED BY <1>4, <1>6, <1>8, <1>9, <1>10, Assemble

\* Giving a segment back keeps the invariant: it is quiet by then.
LEMMA InvRelease ==
    ASSUME TypeOK, TransferInv, SegmentsConserved, NEW w \in Workers,
           ReleaseSegment(w)
    PROVE  TransferInv'
<1>1. PICK t : t = seg[w]
      OBVIOUS
<1>2. t \in Segments /\ pc[w] = "release"
      BY <1>1 DEF ReleaseSegment, TypeOK, ProxyTypeOK
<1>3. /\ \A s : SegSame(s) /\ AskSame(s)
      /\ seg' = [seg EXCEPT ![w] = NoSeg] /\ ctrlQ' = ctrlQ
      BY DEF ReleaseSegment, SegSame, AskSame, Queued, On, queueVars, cacheVars
<1>4. \A v \in Workers \ {w} : WorkerSame(v)
      BY DEF ReleaseSegment, WorkerSame, TypeOK, ProxyTypeOK
<1>5. Quiet(t)'
      BY <1>1, <1>2, <1>3, QuietFrame DEF TransferInv, RequestInv, Over
<1>6. RequestInv(w)'
  <2>1. pc'[w] = "idle"
        BY <1>2 DEF ReleaseSegment, TypeOK, ProxyTypeOK
  <2>2. Unanswered(w)'
        BY DEF Unanswered, ReleaseSegment, TypeOK, ProxyTypeOK
  <2>.  QED BY <2>1, <2>2 DEF RequestInv
<1>7. \A v \in Workers : (WorkerSame(v) /\ seg[v] # t) \/ RequestInv(v)'
      BY <1>1, <1>2, <1>4, <1>6, Holder, Distinct
<1>8. \A v \in Workers, s \in Segments : s # t => (seg'[v] = s <=> seg[v] = s)
      BY <1>1, <1>3, Distinct DEF TypeOK, ProxyTypeOK
<1>9. ControlInv'
  <2>1. \A v \in Workers : pc[v] = "get_filesize" => pc'[v] = pc[v] /\ seg'[v] = seg[v]
        BY <1>2, <1>3 DEF ReleaseSegment, TypeOK, ProxyTypeOK
  <2>.  QED BY <1>3, <2>1, ControlFrame
<1>. QED BY <1>3, <1>5, <1>7, <1>8, <1>9, Assemble

\* Sending the request keeps the invariant.
LEMMA InvTxRequest ==
    ASSUME TypeOK, TransferInv, SegmentsConserved, NEW w \in Workers,
           TxRequest(w)
    PROVE  TransferInv'
<1>1. PICK t, p : t = seg[w] /\ p = path[w]
      OBVIOUS
<1> DEFINE r == [requested_file |-> p, segment_index |-> t]
<1>2. t \in Segments /\ p \in Paths /\ ctrlQ \in Seq(Request) /\ pc[w] = "send"
      BY <1>1 DEF TxRequest, TypeOK, ProxyTypeOK, ChannelTypeOK
<1>3. r \in Request /\ ctrlQ' = Append(ctrlQ, r)
      BY <1>1, <1>2 DEF Request, TxRequest
<1>4. /\ Len(ctrlQ) \in Nat /\ Len(ctrlQ') = Len(ctrlQ) + 1
      /\ ctrlQ'[Len(ctrlQ) + 1] = r
      /\ \A i \in 1 .. Len(ctrlQ) : ctrlQ'[i] = ctrlQ[i]
  <2> HIDE DEF r
  <2>.  QED BY <1>2, <1>3, AppendLast, LenProperties
<1>5. \A i \in 1 .. Len(ctrlQ') : i \in 1 .. Len(ctrlQ) \/ i = Len(ctrlQ) + 1
      BY <1>4
<1>6. \A i \in 1 .. Len(ctrlQ) : i \in 1 .. Len(ctrlQ')
      BY <1>4
<1>7. Len(ctrlQ) + 1 \in 1 .. Len(ctrlQ')
      BY <1>4
<1>8. \A s \in Segments : s # t => AskSame(s)
      BY <1>4, <1>5, <1>6 DEF AskSame, Queued
<1>9. Queued(p, t)'
      BY <1>4, <1>7 DEF Queued
<1>10. \A i \in 1 .. Len(ctrlQ) : ctrlQ[i].segment_index # t
  <2> SUFFICES ASSUME NEW i \in 1 .. Len(ctrlQ), ctrlQ[i].segment_index = t
               PROVE  FALSE
      OBVIOUS
  <2>1. ctrlQ[i] \in Request
        BY <1>2, ElementOfSeq
  <2>2. Asked(t)
        BY <2>1 DEF Asked, Queued, Request
  <2>3. PICK v \in Workers : seg[v] = t /\ pc[v] = "get_filesize"
        BY <1>2, <2>2 DEF TransferInv, ControlInv
  <2>.  QED BY <1>1, <1>2, <2>3, Holder, Distinct
<1>11. \A s : SegSame(s)
      BY DEF TxRequest, SegSame, On, cacheVars
<1>12. \A v \in Workers \ {w} : WorkerSame(v)
      BY DEF TxRequest, WorkerSame, clientVars, TypeOK, ProxyTypeOK
<1>13. Unanswered(w) /\ Quiet(t)
      BY <1>1, <1>2 DEF TransferInv, RequestInv
<1>14. /\ pc' = [pc EXCEPT ![w] = "get_filesize"] /\ seg' = seg /\ path' = path
       /\ UNCHANGED <<total, clientVars>>
      BY DEF TxRequest
<1>15. RequestInv(w)'
  <2>1. Quiet(t)'
        BY <1>11, <1>13, QuietFrame
  <2>2. Quiet(seg[w])' /\ Queued(path[w], seg[w])'
        BY <1>1, <1>9, <1>14, <2>1 DEF Quiet, On, Queued
  <2>3. pc'[w] = "get_filesize" /\ Unanswered(w)'
        BY <1>13, <1>14 DEF Unanswered, clientVars, TypeOK, ProxyTypeOK
  <2>.  QED BY <2>2, <2>3 DEF RequestInv, Waiting
<1>16. ControlInv'
  <2>1. \A i, j \in 1 .. Len(ctrlQ') :
          ctrlQ'[i].segment_index = ctrlQ'[j].segment_index => i = j
        BY <1>4, <1>5, <1>10 DEF TransferInv, ControlInv
  <2>2. ASSUME NEW s \in Segments, Asked(s)'
        PROVE  \E v \in Workers : seg'[v] = s /\ pc'[v] = "get_filesize"
    <3>1. CASE s = t
          BY <1>1, <1>14, <3>1 DEF TypeOK, ProxyTypeOK
    <3>2. CASE s # t
      <4>1. Asked(s)
            BY <1>8, <2>2, <3>2 DEF Asked, AskSame
      <4>2. PICK v \in Workers : seg[v] = s /\ pc[v] = "get_filesize"
            BY <4>1 DEF TransferInv, ControlInv
      <4>.  QED BY <1>14, <4>2 DEF TypeOK, ProxyTypeOK
    <3>.  QED BY <3>1, <3>2
  <2>.  QED BY <2>1, <2>2 DEF ControlInv, Segments
<1>. QED BY <1>1, <1>2, <1>8, <1>11, <1>12, <1>14, <1>15, <1>16, WorkerAssemble

\* The reply that the worker takes keeps the invariant.
LEMMA InvRxFilesize ==
    ASSUME TypeOK, TransferInv, SegmentsConserved, NEW w \in Workers,
           RxFilesize(w)
    PROVE  TransferInv'
<1>1. PICK t : t = seg[w]
      OBVIOUS
<1>2. PICK m : m = Head(c2p[t])
      OBVIOUS
<1>3. /\ t \in Segments /\ pc[w] = "get_filesize" /\ c2p \in [Segments -> Seq(Packet)]
      /\ c2p[t] # <<>> /\ c2p[t] \in Seq(Packet)
      BY <1>1 DEF RxFilesize, TypeOK, ProxyTypeOK, ChannelTypeOK
<1>4. /\ m = c2p[t][1] /\ m \in Packet /\ m.file_size \in Int /\ m.cache_hit \in BOOLEAN
      /\ Tail(c2p[t]) \in Seq(Packet)
      /\ Len(c2p[t]) \in Nat /\ Len(Tail(c2p[t])) = Len(c2p[t]) - 1
      /\ \A i \in 1 .. Len(Tail(c2p[t])) : Tail(c2p[t])[i] = c2p[t][i + 1]
      BY <1>2, <1>3, HeadTail, PacketFields
<1>5. /\ UNCHANGED <<seg, path, total, sent, ctrlQ, p2c, shm, cacheVars>>
      /\ c2p' = [c2p EXCEPT ![t] = Tail(c2p[t])]
      BY <1>1 DEF RxFilesize
<1>6. c2p'[t] = Tail(c2p[t])
      BY <1>3, <1>5
<1>7. Unanswered(w) /\ ~Asked(t) /\ (HeaderSent(w) \/ OnlyReply(w))
      BY <1>1, <1>3 DEF TransferInv, RequestInv, Waiting, Quiet, Looking
<1>8. \A v \in Workers \ {w} : WorkerSame(v)
      BY <1>5 DEF RxFilesize, WorkerSame, TypeOK, ProxyTypeOK
<1>9. \A s \in Segments : s # t => SegSame(s) /\ AskSame(s)
      BY <1>3, <1>5 DEF SegSame, AskSame, Queued, On, cacheVars
<1>10. ControlInv'
  <2>1. \A v \in Workers : pc[v] = "get_filesize" /\ Asked(seg[v])
                             => pc'[v] = pc[v] /\ seg'[v] = seg[v]
        BY <1>1, <1>5, <1>7, <1>8 DEF WorkerSame
  <2>.  QED BY <1>5, <2>1, ControlFrame
<1>11. ASSUME HeaderSent(w)
       PROVE  RequestInv(w)'
  <2>1. PICK c \in CacheThreads :
          /\ p2c[t] = <<>> /\ Sending(c, w) /\ IsHeader(m, path[w]) /\ Size(path[w]) > 0
          /\ \/ Len(c2p[t]) = 1 /\ Filling(c, w, 0)
             \/ Len(c2p[t]) = 2 /\ Told(c, w, c2p[t][2], 0)
        BY <1>1, <1>4, <1>11 DEF HeaderSent
  <2>2. /\ pc'[w] = "get_data" /\ status'[w] = "ok" /\ announced'[w] = Size(path[w])
        /\ path[w] \in Cached
        BY <1>1, <1>2, <1>4, <2>1
        DEF RxFilesize, IsHeader, TypeOK, ProxyTypeOK
  <2>3. Streaming(w)' /\ total'[w] = 0 /\ (total[w] < Size(path[w]))'
        BY <1>5, <1>7, <2>1, <2>2 DEF Streaming, Unanswered, Size
  <2>4. Sending(c, w)' /\ seg'[w] = t /\ p2c'[t] = <<>>
        BY <1>1, <1>5, <2>1 DEF Sending, On, cacheVars
  <2>5. ASSUME Len(c2p[t]) = 1, Filling(c, w, 0)
        PROVE  AwaitingChunk(w)'
    <3>1. Len(Tail(c2p[t])) = 0
          BY <1>4, <2>5
    <3>2. c2p'[t] = <<>>
          BY <1>4, <1>6, <3>1, LenZero
    <3>3. Filling(c, w, total[w])'
          BY <1>5, <2>3, <2>5 DEF Filling, Chunk, Size, cacheVars
    <3>.  QED BY <2>4, <3>2, <3>3 DEF AwaitingChunk
  <2>6. ASSUME Len(c2p[t]) = 2, Told(c, w, c2p[t][2], 0)
        PROVE  AwaitingChunk(w)'
    <3>1. Len(c2p'[t]) = 1 /\ c2p'[t][1] = c2p[t][2]
          BY <1>4, <1>6, <2>6
    <3>2. Told(c, w, c2p[t][1], total[w])'
          BY <1>1, <1>5, <2>3, <2>4, <2>6, <3>1 DEF Told, Chunk, Size, cacheVars
    <3>3. Told(c, w, c2p[seg[w]][1], total[w])'
          BY <2>4, <3>1, <3>2, <1>5, <2>3, <2>6 DEF Told, Chunk, Size, cacheVars
    <3>.  QED BY <2>4, <3>1, <3>3 DEF AwaitingChunk
  <2>.  QED BY <2>1, <2>2, <2>3, <2>5, <2>6 DEF RequestInv
<1>12. ASSUME OnlyReply(w)
       PROVE  RequestInv(w)'
  <2>1. /\ p2c[t] = <<>> /\ \A c \in CacheThreads : ~On(c, t)
        /\ Len(c2p[t]) = 1
        /\ \/ ~m.cache_hit /\ path[w] \notin Cached
           \/ IsHeader(m, path[w]) /\ Size(path[w]) <= 0
        BY <1>1, <1>4, <1>12 DEF OnlyReply
  <2>2. c2p'[t] = <<>>
    <3>1. Len(Tail(c2p[t])) = 0
          BY <1>4, <2>1
    <3>.  QED BY <1>4, <1>6, <3>1, LenZero
  <2>3. Quiet(seg[w])'
        BY <1>1, <1>5, <2>1, <2>2 DEF Quiet, On, cacheVars
  <2>4. CASE ~m.cache_hit /\ path[w] \notin Cached
    <3>1. pc'[w] = "release" /\ status'[w] = "not_found" /\ sent'[w] = 0
          BY <1>1, <1>2, <1>5, <1>7, <2>4 DEF RxFilesize, Unanswered, TypeOK, ProxyTypeOK
    <3>.  QED BY <1>5, <2>3, <2>4, <3>1 DEF RequestInv, Over
  <2>5. CASE IsHeader(m, path[w]) /\ Size(path[w]) <= 0
    <3>1. /\ pc'[w] = "release" /\ status'[w] = "ok" /\ announced'[w] = Size(path[w])
          /\ path[w] \in Cached
          BY <1>1, <1>2, <1>4, <2>5 DEF RxFilesize, IsHeader, TypeOK, ProxyTypeOK
    <3>2. Streaming(w)' /\ total'[w] = 0 /\ (~(Size(path[w]) > 0))'
          BY <1>4, <1>5, <1>7, <2>5, <3>1 DEF Streaming, Unanswered, Size, IsHeader
    <3>.  QED BY <2>3, <3>1, <3>2 DEF RequestInv, Over
  <2>.  QED BY <2>1, <2>4, <2>5
<1>13. RequestInv(w)'
       BY <1>7, <1>11, <1>12
<1>. QED BY <1>1, <1>3, <1>5, <1>8, <1>9, <1>10, <1>13, WorkerAssemble

\* The message about a chunk that the worker takes keeps the invariant.
LEMMA InvRxData ==
    ASSUME TypeOK, TransferInv, SegmentsConserved, NEW w \in Workers,
           RxData(w)
    PROVE  TransferInv'
<1>1. PICK t : t = seg[w]
      OBVIOUS
<1>2. /\ t \in Segments /\ pc[w] = "get_data" /\ c2p \in [Segments -> Seq(Packet)]
      /\ c2p[t] # <<>> /\ c2p[t] \in Seq(Packet)
      BY <1>1 DEF RxData, TypeOK, ProxyTypeOK, ChannelTypeOK
<1>3. /\ Head(c2p[t]) = c2p[t][1] /\ Tail(c2p[t]) \in Seq(Packet)
      /\ Len(c2p[t]) \in Nat /\ Len(Tail(c2p[t])) = Len(c2p[t]) - 1
      BY <1>2, HeadTail
<1>4. /\ UNCHANGED <<seg, path, total, clientVars, ctrlQ, p2c, shm, cacheVars>>
      /\ c2p' = [c2p EXCEPT ![t] = Tail(c2p[t])]
      /\ pkt' = [pkt EXCEPT ![w] = Head(c2p[t])]
      /\ pc' = [pc EXCEPT ![w] = "forward"]
      BY <1>1 DEF RxData
<1>5. Streaming(w) /\ AwaitingChunk(w)
      BY <1>2 DEF TransferInv, RequestInv
<1>6. PICK c \in CacheThreads :
        /\ Sending(c, w) /\ Len(c2p[t]) = 1 /\ p2c[t] = <<>>
        /\ Told(c, w, c2p[t][1], total[w])
      BY <1>1, <1>2, <1>5 DEF AwaitingChunk
<1>7. c2p'[t] = <<>>
  <2>1. Len(Tail(c2p[t])) = 0
        BY <1>3, <1>6
  <2>.  QED BY <1>2, <1>3, <1>4, <2>1, LenZero
<1>8. pkt'[w] = c2p[t][1] /\ pc'[w] = "forward"
      BY <1>3, <1>4 DEF TypeOK, ProxyTypeOK
<1>9. RequestInv(w)'
  <2>1. Sending(c, w)' /\ seg'[w] = t /\ p2c'[t] = <<>>
        BY <1>1, <1>4, <1>6 DEF Sending, On, cacheVars
  <2>2. Told(c, w, pkt[w], total[w])'
        BY <1>4, <1>6, <1>8 DEF Told, Chunk, Size, cacheVars
  <2>3. HasChunk(w)'
        BY <1>7, <2>1, <2>2 DEF HasChunk
  <2>4. Streaming(w)'
        BY <1>4, <1>5 DEF Streaming, Size, clientVars
  <2>.  QED BY <1>8, <2>3, <2>4 DEF RequestInv
<1>10. \A v \in Workers \ {w} : WorkerSame(v)
      BY <1>4 DEF WorkerSame, TypeOK, ProxyTypeOK, clientVars
<1>11. \A s \in Segments : s # t => SegSame(s) /\ AskSame(s)
      BY <1>2, <1>4 DEF SegSame, AskSame, Queued, On, cacheVars
<1>12. ControlInv'
  <2>1. \A v \in Workers : pc[v] = "get_filesize" => pc'[v] = pc[v] /\ seg'[v] = seg[v]
        BY <1>2, <1>4 DEF TypeOK, ProxyTypeOK
  <2>.  QED BY <1>4, <2>1, ControlFrame
<1>. QED BY <1>1, <1>2, <1>4, <1>9, <1>10, <1>11, <1>12, WorkerAssemble

\* The client gets the next piece of its file.
LEMMA ReceivedNext ==
    ASSUME TypeOK, NEW w \in Workers, Streaming(w), HasChunk(w)
    PROVE  /\ pkt[w].chunk_size \in Int /\ pkt[w].chunk_size > 0
           /\ Received(w) = sent[w] + pkt[w].chunk_size
           /\ total[w] + pkt[w].chunk_size <= Size(path[w])
<1>1. Chunk(w, pkt[w], total[w]) /\ sent[w] = total[w]
      BY DEF HasChunk, Told, Streaming
<1>2. pkt[w].chunk_size \in Int
      BY PacketFields DEF TypeOK, ProxyTypeOK
<1>. QED BY <1>1, <1>2 DEF Received, Chunk

\* Sending a chunk on to the client keeps the invariant.
LEMMA InvGfsSend ==
    ASSUME TypeOK, TransferInv, SegmentsConserved, NEW w \in Workers,
           GfsSend(w)
    PROVE  TransferInv'
<1>1. PICK t : t = seg[w]
      OBVIOUS
<1>2. t \in Segments /\ pc[w] = "forward" /\ total[w] \in Int
      BY <1>1 DEF GfsSend, TypeOK, ProxyTypeOK
<1>3. Streaming(w) /\ HasChunk(w)
      BY <1>2 DEF TransferInv, RequestInv
<1>4. /\ pkt[w].chunk_size \in Int /\ pkt[w].chunk_size > 0
      /\ Received(w) = sent[w] + pkt[w].chunk_size
      /\ total[w] + pkt[w].chunk_size <= Size(path[w])
      BY <1>3, ReceivedNext
<1>5. UNCHANGED <<seg, path, pkt, status, announced, queueVars, shm, cacheVars>>
      BY DEF GfsSend
<1>6. /\ sent'[w] = sent[w] + pkt[w].chunk_size
      /\ total'[w] = total[w] + pkt[w].chunk_size
      /\ pc'[w] = "ack"
      BY <1>4 DEF GfsSend, TypeOK, ProxyTypeOK
<1>7. PICK c \in CacheThreads : Sending(c, w) /\ Told(c, w, pkt[w], total[w])
      BY <1>3 DEF HasChunk
<1>8. RequestInv(w)'
  <2>1. Streaming(w)'
        BY <1>2, <1>3, <1>4, <1>5, <1>6 DEF Streaming, Size
  <2>2. Sending(c, w)' /\ cpc'[c] = "rx_ack" /\ ctotal'[c] = total'[w]
        BY <1>5, <1>6, <1>7 DEF Sending, On, Told, cacheVars
  <2>3. pkt'[w].file_size = Size(path[w])' /\ (total[w] <= Size(path[w]))'
        BY <1>4, <1>5, <1>6, <1>7 DEF Told, Chunk, Size
  <2>4. c2p'[seg'[w]] = <<>> /\ p2c'[seg'[w]] = <<>>
        BY <1>3, <1>5 DEF HasChunk, queueVars
  <2>5. OwesAck(w)'
        BY <2>2, <2>3, <2>4 DEF OwesAck
  <2>.  QED BY <1>6, <2>1, <2>5 DEF RequestInv
<1>9. \A v \in Workers \ {w} : WorkerSame(v)
      BY <1>5 DEF GfsSend, WorkerSame, TypeOK, ProxyTypeOK
<1>10. \A s : SegSame(s) /\ AskSame(s)
      BY <1>5 DEF SegSame, AskSame, Queued, On, cacheVars, queueVars
<1>11. ControlInv'
  <2>1. \A v \in Workers : pc[v] = "get_filesize" => pc'[v] = pc[v] /\ seg'[v] = seg[v]
        BY <1>2, <1>5 DEF GfsSend, TypeOK, ProxyTypeOK
  <2>.  QED BY <1>5, <2>1, ControlFrame DEF queueVars
<1>. QED BY <1>1, <1>2, <1>5, <1>8, <1>9, <1>10, <1>11, WorkerAssemble

\* Acknowledging a chunk keeps the invariant, the last chunk included.
LEMMA InvTxAck ==
    ASSUME TypeOK, TransferInv, SegmentsConserved, NEW w \in Workers,
           TxAck(w)
    PROVE  TransferInv'
<1>1. PICK t : t = seg[w]
      OBVIOUS
<1>2. /\ t \in Segments /\ pc[w] = "ack" /\ p2c \in [Segments -> Seq(Packet)]
      /\ total[w] \in Int /\ pkt[w] \in Packet /\ pkt[w].file_size \in Int
      BY <1>1, PacketFields DEF TxAck, TypeOK, ProxyTypeOK, ChannelTypeOK
<1>3. Streaming(w) /\ OwesAck(w)
      BY <1>2 DEF TransferInv, RequestInv
<1>4. PICK c \in CacheThreads :
        Sending(c, w) /\ cpc[c] = "rx_ack" /\ ctotal[c] = total[w]
      BY <1>3 DEF OwesAck
<1>5. /\ UNCHANGED <<seg, path, pkt, total, clientVars, ctrlQ, c2p, shm, cacheVars>>
      /\ p2c' = [p2c EXCEPT ![t] = Append(p2c[t], pkt[w])]
      BY <1>1 DEF TxAck
<1>6. c2p[t] = <<>> /\ p2c[t] = <<>> /\ pkt[w].file_size = Size(path[w])
      /\ total[w] <= Size(path[w])
      BY <1>1, <1>3 DEF OwesAck
<1>7. p2c'[t] = <<pkt[w]>>
      BY <1>2, <1>5, <1>6, AppendToEmpty
<1>8. Len(p2c'[t]) = 1 /\ p2c'[t][1] = pkt[w] /\ Head(p2c'[t]) = pkt[w]
      BY <1>7, AppendToEmpty
<1>9. Sending(c, w)' /\ cpc'[c] = "rx_ack" /\ ctotal'[c] = total'[w] /\ seg'[w] = t
      BY <1>1, <1>4, <1>5 DEF Sending, On, cacheVars
<1>10. Streaming(w)'
      BY <1>3, <1>5 DEF Streaming, Size, clientVars
<1>11. CASE total[w] < Size(path[w])
  <2>1. pc'[w] = "get_data"
        BY <1>1, <1>6, <1>11 DEF TxAck, TypeOK, ProxyTypeOK
  <2>2. AwaitingChunk(w)'
    <3>1. p2c'[t][1].file_size = Size(path[w])' /\ c2p'[t] = <<>>
          BY <1>5, <1>6, <1>8 DEF Size
    <3>.  QED BY <1>8, <1>9, <3>1 DEF AwaitingChunk
  <2>3. (total[w] < Size(path[w]))'
        BY <1>5, <1>11 DEF Size
  <2>4. RequestInv(w)'
        BY <1>10, <2>1, <2>2, <2>3 DEF RequestInv
  <2>5. \A v \in Workers \ {w} : WorkerSame(v)
        BY <1>5 DEF TxAck, WorkerSame, TypeOK, ProxyTypeOK, clientVars
  <2>6. \A s \in Segments : s # t => SegSame(s) /\ AskSame(s)
        BY <1>2, <1>5 DEF SegSame, AskSame, Queued, On, cacheVars
  <2>7. ControlInv'
    <3>1. \A v \in Workers : pc[v] = "get_filesize" => pc'[v] = pc[v] /\ seg'[v] = seg[v]
          BY <1>2, <1>5 DEF TxAck, TypeOK, ProxyTypeOK
    <3>.  QED BY <1>5, <3>1, ControlFrame
  <2>.  QED BY <1>1, <1>2, <1>5, <2>4, <2>5, <2>6, <2>7, WorkerAssemble
<1>12. CASE ~(total[w] < Size(path[w]))
  <2>1. pc'[w] = "release" /\ total[w] = Size(path[w])
        BY <1>1, <1>2, <1>6, <1>12 DEF TxAck, TypeOK, ProxyTypeOK
  <2>2. Quiet(t)'
    <3>1. c2p'[t] = <<>> /\ On(c, t)' /\ Head(p2c'[t]).file_size <= ctotal'[c]
          BY <1>1, <1>2, <1>4, <1>5, <1>6, <1>8, <1>9, <2>1 DEF On, Sending, cacheVars
    <3>.  QED BY <1>8, <1>9, <3>1 DEF Quiet
  <2>3. Quiet(seg[w])'
        BY <1>9, <2>2 DEF Quiet, On
  <2>4. (total[w] = IF Size(path[w]) > 0 THEN Size(path[w]) ELSE 0)'
        BY <1>2, <1>3, <1>5, <1>6, <2>1 DEF Streaming, Size
  <2>5. RequestInv(w)'
        BY <1>10, <2>1, <2>3, <2>4 DEF RequestInv, Over
  <2>6. \A v \in Workers \ {w} : WorkerSame(v)
        BY <1>5 DEF TxAck, WorkerSame, TypeOK, ProxyTypeOK, clientVars
  <2>7. \A s \in Segments : s # t => SegSame(s) /\ AskSame(s)
        BY <1>2, <1>5 DEF SegSame, AskSame, Queued, On, cacheVars
  <2>8. ControlInv'
    <3>1. \A v \in Workers : pc[v] = "get_filesize" => pc'[v] = pc[v] /\ seg'[v] = seg[v]
          BY <1>2, <1>5 DEF TxAck, TypeOK, ProxyTypeOK
    <3>.  QED BY <1>5, <3>1, ControlFrame
  <2>.  QED BY <1>1, <1>2, <1>5, <2>5, <2>6, <2>7, <2>8, WorkerAssemble
<1>. QED BY <1>11, <1>12

\* The invariant holds at the start.
LEMMA TransferInit == Init => TransferInv
<1> SUFFICES ASSUME Init PROVE TransferInv
    OBVIOUS
<1>1. Len(ctrlQ) = 0 /\ \A p, s : ~Queued(p, s)
      BY DEF Init, Queued
<1>2. ControlInv
      BY <1>1 DEF ControlInv, Asked
<1>3. FreeInv
  <2>1. \A c \in CacheThreads, s \in Segments : ~On(c, s)
        BY Distinct DEF Init, On
  <2>.  QED BY <2>1 DEF Init, FreeInv, Quiet
<1>4. \A w \in Workers : RequestInv(w)
      BY DEF Init, RequestInv, Unanswered
<1>. QED BY <1>2, <1>3, <1>4 DEF TransferInv

\* Every step of the protocol keeps the invariant.
LEMMA TransferStep ==
    ASSUME TypeOK, TransferInv, SegmentsConserved, SingleCacheThread, [Next]_vars
    PROVE  TransferInv'
<1>1. ASSUME NEW w \in Workers, WorkerStep(w)
      PROVE  TransferInv'
      BY <1>1, InvAcquire, InvWait, InvTxRequest, InvRxFilesize, InvRxData,
         InvGfsSend, InvTxAck, InvRelease DEF WorkerStep
<1>2. ASSUME NEW w \in Workers, NEW p \in Paths, HandleWithCache(w, p)
      PROVE  TransferInv'
      BY <1>2, InvHandle
<1>3. ASSUME NEW w \in Workers, SpuriousWakeup(w)
      PROVE  TransferInv'
      BY <1>3, InvWait
<1>4. ASSUME NEW w \in Workers, GfsSendFails(w)
      PROVE  TransferInv'
      BY <1>4, InvUnchanged DEF GfsSendFails
<1>5. ASSUME NEW c \in CacheThreads, CacheStep(c) \/ FindSegmentFails(c)
      PROVE  TransferInv'
      BY <1>5, InvCacheStep
<1>6. CASE UNCHANGED vars
      BY <1>6, InvUnchanged DEF vars
<1>. QED BY <1>1, <1>2, <1>3, <1>4, <1>5, <1>6 DEF Next

\* With one cache thread the invariant of the protocol holds: what a worker, the
\* cache and the two queues of a segment hold always belongs to one request, from
\* handle_with_cache to the last acknowledgement.
THEOREM TransferHolds ==
    ASSUME SingleCacheThread
    PROVE  Spec => [](TypeOK /\ TransferInv)
<1>1. Init => TransferInv
      BY TransferInit
<1>2. TypeOK /\ SegmentsConserved /\ TransferInv /\ [Next]_vars => TransferInv'
      BY TransferStep
<1>. QED BY <1>1, <1>2, TypeCorrect, PoolConserved, PTL DEF Spec

-----------------------------------------------------------------------------
(***************************************************************************)
(* What the invariant says to clients and to the cache.                    *)
(***************************************************************************)

\* The announced length is never more than the length.
LEMMA ToIntAtMost == \A n \in Nat : ToInt(n) <= n
<1> SUFFICES ASSUME NEW n \in Nat PROVE ToInt(n) <= n
    OBVIOUS
<1>1. PICK k : k = 2 * IntMax + 2
      OBVIOUS
<1>2. k \in Nat /\ k > 0
      BY <1>1, IntMaxAssumption
<1>3. n % k <= n /\ n % k \in Int
      BY <1>2
<1>. QED BY <1>1, <1>2, <1>3 DEF ToInt, Unsigned

\* What lengths are when they fit an int.
LEMMA SizeFits ==
    ASSUME NEW f \in Cached, Fits(f)
    PROVE  Size(f) = FileSize[f] /\ Size(f) > 0
<1>1. FileSize[f] \in 1 .. IntMax
      BY DEF Fits
<1>2. PICK k : k = 2 * IntMax + 2
      OBVIOUS
<1>3. FileSize[f] % k = FileSize[f]
      BY <1>1, <1>2, IntMaxAssumption
<1>. QED BY <1>1, <1>2, <1>3, IntMaxAssumption DEF Size, ToInt, Unsigned

\* In a state of the invariant what clients have is a prefix of their files.
LEMMA PrefixFromInv == TypeOK /\ TransferInv => ClientStreamPrefix
<1> SUFFICES ASSUME TypeOK, TransferInv, NEW w \in Workers
             PROVE  /\ sent[w] # Garbled
                    /\ sent[w] > 0 => /\ status[w] = "ok"
                                      /\ path[w] \in Cached
                                      /\ sent[w] <= FileSize[path[w]]
    BY DEF ClientStreamPrefix
<1>1. RequestInv(w) /\ pc[w] \in WorkerPC /\ total[w] \in Int
      BY DEF TransferInv, TypeOK, ProxyTypeOK
<1>2. CASE Unanswered(w)
      BY <1>2 DEF Unanswered, Garbled
<1>3. CASE Streaming(w) /\ total[w] <= Size(path[w])
  <2>1. path[w] \in Cached /\ FileSize[path[w]] \in Nat
        BY <1>3, FileSizeAssumption DEF Streaming
  <2>2. Size(path[w]) <= FileSize[path[w]] /\ Size(path[w]) \in Int
        BY <2>1, ToIntAtMost, ToIntType DEF Size
  <2>.  QED BY <1>1, <1>3, <2>1, <2>2 DEF Streaming, Garbled
<1>4. CASE pc[w] = "release" /\ ~(Streaming(w) /\ total[w] <= Size(path[w]))
  <2>1. \/ sent[w] = 0
        \/ Streaming(w) /\ total[w] = 0
    <3>1. Over(w)
          BY <1>1, <1>4 DEF RequestInv
    <3>2. Streaming(w) => Size(path[w]) \in Int
          BY ToIntType, FileSizeAssumption DEF Streaming, Size
    <3>.  QED BY <1>4, <3>1, <3>2 DEF Over
  <2>.  QED BY <2>1 DEF Streaming, Garbled
<1>5. CASE pc[w] \in {"get_data", "forward", "ack"}
  <2>1. Streaming(w) /\ Size(path[w]) \in Int
        BY <1>1, <1>5, ToIntType, FileSizeAssumption DEF RequestInv, Streaming, Size
  <2>2. total[w] <= Size(path[w])
    <3>1. CASE pc[w] = "forward"
      <4>1. /\ pkt[w].chunk_size \in Int /\ pkt[w].chunk_size > 0
            /\ total[w] + pkt[w].chunk_size <= Size(path[w])
            BY <1>1, <2>1, <3>1, ReceivedNext DEF RequestInv
      <4>.  QED BY <1>1, <2>1, <4>1
    <3>2. CASE pc[w] \in {"get_data", "ack"}
          BY <1>1, <2>1, <3>2 DEF RequestInv, OwesAck
    <3>.  QED BY <1>5, <3>1, <3>2
  <2>.  QED BY <1>3, <2>1, <2>2
<1>. QED BY <1>1, <1>2, <1>3, <1>4, <1>5 DEF RequestInv, WorkerPC

\* With one cache thread, what a client gets is always a prefix of the file it
\* asked for: no piece is lost, repeated, reordered or read from the segment
\* after the cache wrote to it again, for any number of workers and segments,
\* any segment size, any short read, and files of any length.
THEOREM StreamsArePrefixes ==
    ASSUME SingleCacheThread
    PROVE  Spec => []ClientStreamPrefix
BY TransferHolds, PrefixFromInv, PTL

\* In a state of the invariant a request that is over was answered in full.
LEMMA CompleteFromInv == TypeOK /\ TransferInv => CompleteWhenReleased
<1> SUFFICES ASSUME TypeOK, TransferInv, NEW w \in Workers, pc[w] = "release"
             PROVE  \/ /\ path[w] \notin Cached
                       /\ status[w] = "not_found" /\ sent[w] = 0
                    \/ /\ path[w] \in Cached
                       /\ Fits(path[w]) => /\ status[w] = "ok"
                                          /\ announced[w] = FileSize[path[w]]
                                          /\ sent[w] = FileSize[path[w]]
    BY DEF CompleteWhenReleased
<1>1. Over(w)
      BY DEF TransferInv, RequestInv
<1>2. CASE path[w] \in Cached
      BY <1>1, <1>2, SizeFits DEF Over, Streaming
<1>3. CASE path[w] \notin Cached
      BY <1>1, <1>3 DEF Over, Streaming
<1>. QED BY <1>2, <1>3

\* With one cache thread a worker that gives its segment back has answered its
\* request: with the whole file and its true length, if an int can hold it, or
\* with a header that says the file is not there.
THEOREM RequestsComplete ==
    ASSUME SingleCacheThread
    PROVE  Spec => []CompleteWhenReleased
BY TransferHolds, CompleteFromInv, PTL

\* In a state of the invariant no segment is written while it may be read.
LEMMA NoRaceFromInv ==
    ASSUME SingleCacheThread, TypeOK, TransferInv
    PROVE  NoSegmentRace
<1> SUFFICES ASSUME NEW w \in Workers, NEW c \in CacheThreads, MayRead(w),
                    cseg[c] = seg[w], cpc[c] \in {"fill", "tx_data"}
             PROVE  FALSE
    BY DEF NoSegmentRace
<1>1. RequestInv(w) /\ \A d \in CacheThreads : d = c
      BY DEF TransferInv, SingleCacheThread
<1>2. CASE pc[w] = "forward"
      BY <1>1, <1>2 DEF RequestInv, HasChunk, Told
<1>3. CASE pc[w] = "get_data" /\ c2p[seg[w]] # <<>>
      BY <1>1, <1>3 DEF RequestInv, AwaitingChunk, Told
<1>. QED BY <1>2, <1>3 DEF MayRead

\* With one cache thread the cache never writes to a segment that a worker is
\* reading or has been told to read: the messages are all the synchronisation
\* that the shared memory needs.
THEOREM SegmentsNotRaced ==
    ASSUME SingleCacheThread
    PROVE  Spec => []NoSegmentRace
<1>1. TypeOK /\ TransferInv => NoSegmentRace
      BY NoRaceFromInv
<1>. QED BY <1>1, TransferHolds, PTL

\* Small numbers are at most small.
LEMMA AtMost ==
    ASSUME NEW n
    PROVE  /\ n = 0 \/ n = 1 => n <= 1
           /\ n = 0 \/ n = 1 \/ n = 2 => n <= 2
OBVIOUS

\* In a state of the invariant the data queues are almost empty.
LEMMA QueuesFromInv ==
    ASSUME TypeOK, TransferInv
    PROVE  DataQueuesNeverFull
<1> SUFFICES ASSUME NEW s \in Segments
             PROVE  /\ Len(c2p[s]) <= 2
                    /\ Len(p2c[s]) <= 1
                    /\ (\E w \in Workers : seg[w] = s /\ pc[w] = "ack") => p2c[s] = <<>>
    BY DEF DataQueuesNeverFull
<1>0. /\ Len(c2p[s]) \in Nat
      /\ Len(p2c[s]) \in Nat
      /\ c2p[s] = <<>> => Len(c2p[s]) = 0
      /\ p2c[s] = <<>> => Len(p2c[s]) = 0
  <2>1. c2p[s] \in Seq(Packet) /\ p2c[s] \in Seq(Packet)
        BY DEF TypeOK, ChannelTypeOK
  <2>.  QED BY <2>1, EmptySeq, LenProperties
<1>1. ASSUME Quiet(s)
      PROVE  Len(c2p[s]) <= 2 /\ Len(p2c[s]) <= 1
  <2>1. Len(c2p[s]) = 0
        BY <1>0, <1>1 DEF Quiet
  <2>2. Len(p2c[s]) = 0 \/ Len(p2c[s]) = 1
        BY <1>0, <1>1 DEF Quiet
  <2>.  QED BY <2>1, <2>2, AtMost
<1>2. ASSUME NEW w \in Workers, seg[w] = s
      PROVE  /\ Len(c2p[s]) <= 2 /\ Len(p2c[s]) <= 1
             /\ pc[w] = "ack" => p2c[s] = <<>>
  <2>1. RequestInv(w) /\ pc[w] \in WorkerPC \ {"idle", "acquire", "wait"}
        BY <1>2, Distinct DEF TransferInv, TypeOK, ProxyTypeOK
  <2>2. CASE Quiet(s) /\ pc[w] # "ack"
        BY <1>1, <2>2
  <2>3. CASE pc[w] = "get_filesize" /\ (Looking(w) \/ HeaderSent(w) \/ OnlyReply(w))
    <3>1. Len(c2p[s]) = 0 \/ Len(c2p[s]) = 1 \/ Len(c2p[s]) = 2
          BY <1>0, <1>2, <2>3 DEF Looking, HeaderSent, OnlyReply
    <3>2. Len(p2c[s]) = 0 /\ pc[w] # "ack"
          BY <1>0, <1>2, <2>3 DEF Looking, HeaderSent, OnlyReply
    <3>.  QED BY <3>1, <3>2, AtMost
  <2>4. CASE pc[w] = "get_data"
    <3>1. Len(c2p[s]) = 0 \/ Len(c2p[s]) = 1
          BY <1>0, <1>2, <2>1, <2>4 DEF RequestInv, AwaitingChunk
    <3>2. Len(p2c[s]) = 0 \/ Len(p2c[s]) = 1
          BY <1>0, <1>2, <2>1, <2>4 DEF RequestInv, AwaitingChunk
    <3>.  QED BY <2>4, <3>1, <3>2, AtMost
  <2>5. CASE pc[w] \in {"forward", "ack"}
        BY <1>0, <1>2, <2>1, <2>5 DEF RequestInv, HasChunk, OwesAck
  <2>.  QED BY <1>2, <2>1, <2>2, <2>3, <2>4, <2>5
            DEF RequestInv, Waiting, Over, WorkerPC
<1>. QED BY <1>1, <1>2 DEF TransferInv, FreeInv

\* With one cache thread, no data queue holds more than a header and a chunk,
\* nor more than one acknowledgement: ten messages, the length the queues are
\* opened with, are enough for every file.
THEOREM QueuesBounded ==
    ASSUME SingleCacheThread
    PROVE  Spec => []DataQueuesNeverFull
<1>1. TypeOK /\ TransferInv => DataQueuesNeverFull
      BY QueuesFromInv
<1>. QED BY <1>1, TransferHolds, PTL

\* What a segment carries when its holder gives it back.
THEOREM SegmentsLeftClean ==
    ASSUME SingleCacheThread
    PROVE  Spec => []NothingLeftBehind
<1>1. TypeOK /\ TransferInv => NothingLeftBehind
  <2> SUFFICES ASSUME TypeOK, TransferInv, NEW s \in Segments,
                      \A w \in Workers : seg[w] # s
               PROVE  /\ c2p[s] = <<>>
                      /\ p2c[s] # <<>> => \E c \in CacheThreads :
                                            /\ cseg[c] = s /\ cpc[c] = "rx_ack"
                                            /\ Len(p2c[s]) = 1
                                            /\ ctotal[c] >= Head(p2c[s]).file_size
      BY DEF NothingLeftBehind
  <2>1. Quiet(s)
        BY DEF TransferInv, FreeInv
  <2>2. /\ p2c[s] \in Seq(Packet)
        /\ \A c \in CacheThreads : ctotal[c] \in Nat
        BY DEF TypeOK, ChannelTypeOK, CacheTypeOK
  <2>3. p2c[s] # <<>> => Head(p2c[s]).file_size \in Int
        BY <2>2, HeadTail, PacketFields
  <2>.  QED BY <2>1, <2>2, <2>3 DEF Quiet, On
<1>. QED BY <1>1, TransferHolds, PTL

\* With one cache thread the cache ends only when it is asked for a file whose
\* length reads as zero: it never runs out of file, and find_segment never
\* meets a damaged queue.
THEOREM CacheSurvives ==
    ASSUME SingleCacheThread
    PROVE  Spec => []CacheEndsOnlyOnEmptyFile
<1> DEFINE Sound == CacheEndsOnlyOnEmptyFile /\ ~listDamaged
<1>1. Init => Sound
      BY DEF Init, CacheEndsOnlyOnEmptyFile
<1>2. TypeOK /\ TransferInv /\ Sound /\ [Next]_vars => Sound'
  <2> SUFFICES ASSUME TypeOK, TransferInv, Sound, [Next]_vars PROVE Sound'
      OBVIOUS
  <2>1. \A c \in CacheThreads : ~Contended(c)
        BY DEF Contended, SingleCacheThread
  <2>2. ASSUME NEW w \in Workers,
               \/ \E p \in Paths : HandleWithCache(w, p)
               \/ WorkerStep(w) \/ SpuriousWakeup(w) \/ GfsSendFails(w)
        PROVE  Sound'
    <3>1. UNCHANGED cacheVars /\ ("cache" \in exited' <=> "cache" \in exited)
          BY <2>2 DEF HandleWithCache, WorkerStep, AcquireSegment,
             WaitForSegment, TxRequest, RxFilesize, RxData, GfsSend, TxAck,
             ReleaseSegment, SpuriousWakeup, GfsSendFails
    <3>.  QED BY <3>1 DEF CacheEndsOnlyOnEmptyFile, cacheVars
  <2>3. ASSUME NEW c \in CacheThreads, EmptyFile(c)
        PROVE  Sound'
        BY <2>3 DEF EmptyFile, cacheVars, CacheEndsOnlyOnEmptyFile
  <2>4. ASSUME NEW c \in CacheThreads, NothingToRead(c)
        PROVE  FALSE
    <3>1. PICK w \in Workers :
            /\ Sending(c, w)
            /\ \/ Filling(c, w, 0) /\ Size(path[w]) > 0
               \/ Filling(c, w, total[w]) /\ total[w] < Size(path[w])
          BY <2>4, SendingFound DEF NothingToRead
    <3>2. path[w] \in Cached /\ cfile[c] = path[w] /\ ctotal[c] < Size(path[w])
          BY <3>1 DEF Sending, Filling
    <3>3. /\ FileSize[path[w]] \in Nat /\ Size(path[w]) <= FileSize[path[w]]
          /\ Size(path[w]) \in Int
          BY <3>2, FileSizeAssumption, ToIntAtMost, ToIntType DEF Size
    <3>4. ctotal[c] \in Nat
          BY DEF TypeOK, CacheTypeOK
    <3>.  QED BY <2>4, <3>2, <3>3, <3>4 DEF NothingToRead, Available
  <2>5. ASSUME NEW c \in CacheThreads, FindSegment(c) \/ FindSegmentFails(c)
        PROVE  Sound'
        BY <2>1, <2>5 DEF FindSegment, FindSegmentFails, CacheUp,
           CacheEndsOnlyOnEmptyFile
  <2>6. ASSUME NEW c \in CacheThreads,
               \/ RxRequest(c) \/ TxMiss(c) \/ TxHeader(c) \/ FillSegment(c)
               \/ TxData(c) \/ RxAck(c)
        PROVE  Sound'
        BY <2>6 DEF RxRequest, TxMiss, TxHeader, FillSegment, TxData, RxAck,
           CacheUp, CacheEndsOnlyOnEmptyFile
  <2>7. CASE UNCHANGED vars
        BY <2>7 DEF vars, cacheVars, CacheEndsOnlyOnEmptyFile
  <2>.  QED BY <2>2, <2>3, <2>4, <2>5, <2>6, <2>7 DEF Next, CacheStep
<1>. QED BY <1>1, <1>2, TransferHolds, PTL DEF Spec

-----------------------------------------------------------------------------
(***************************************************************************)
(* The refinement: with one cache thread the initial states are initial    *)
(* states of FileService, and every step is a step of it or invisible to   *)
(* it.                                                                     *)
(***************************************************************************)
\* The phase of every request, as the service sees it.
phases == [w \in Workers |-> Phase(w)]

\* The phase depends on pc only.
LEMMA PhaseIs ==
    ASSUME TypeOK, NEW w \in Workers
    PROVE  /\ pc[w] = "idle" => Phase(w) = "idle"
           /\ pc[w] \in {"acquire", "wait", "send", "get_filesize"} => Phase(w) = "asked"
           /\ pc[w] \in {"get_data", "forward", "ack"} => Phase(w) = "streaming"
           /\ pc[w] = "release" => Phase(w) = "answered"
BY DEF Phase

\* A step that the service does not see.
LEMMA Invisible ==
    ASSUME UNCHANGED <<path, status, announced, sent>>,
           \A w \in Workers : Phase(w)' = Phase(w)
    PROVE  UNCHANGED Service!vars
BY DEF Service!vars

\* The initial states are those of the service.
LEMMA ServiceInit == Init => Service!Init
<1> SUFFICES ASSUME Init PROVE Service!Init
    OBVIOUS
<1>1. \A w \in Workers : Phase(w) = "idle"
      BY DEF Init, Phase
<1>. QED BY <1>1 DEF Init, Service!Init

\* A step of worker w that moves it from one phase to another.
LEMMA PhaseMoves ==
    ASSUME TypeOK, NEW w \in Workers, NEW to,
           Phase(w)' = to,
           \A v \in Workers \ {w} : Phase(v)' = Phase(v)
    PROVE  phases' = [phases EXCEPT ![w] = to]
BY DEF phases

-----------------------------------------------------------------------------
(***************************************************************************)
(* What each step of a worker is to the service.                           *)
(***************************************************************************)

\* gfserver hands over a request.
LEMMA HandleAsks ==
    ASSUME TypeOK, NEW w \in Workers, NEW p \in Paths, HandleWithCache(w, p)
    PROVE  Service!Ask(w, p)
<1>1. Phase(w) = "idle" /\ Phase(w)' = "asked"
      BY DEF HandleWithCache, Phase, TypeOK, ProxyTypeOK
<1>2. \A v \in Workers \ {w} : Phase(v)' = Phase(v)
      BY DEF HandleWithCache, Phase, TypeOK, ProxyTypeOK
<1>3. phases' = [phases EXCEPT ![w] = "asked"]
      BY <1>1, <1>2, PhaseMoves
<1>. QED BY <1>1, <1>3 DEF phases, HandleWithCache, clientVars, Service!Ask

\* Until the reply comes, and between a chunk and its being sent, the service
\* sees nothing.
LEMMA QuietStep ==
    ASSUME TypeOK, NEW w \in Workers,
           \/ AcquireSegment(w) \/ WaitForSegment(w) \/ SpuriousWakeup(w)
           \/ TxRequest(w) \/ RxData(w)
    PROVE  UNCHANGED Service!vars
<1>1. UNCHANGED <<path, status, announced, sent>>
      BY DEF AcquireSegment, WaitForSegment, SpuriousWakeup, TxRequest, RxData, clientVars
<1>2. \A v \in Workers : Phase(v)' = Phase(v)
      BY DEF AcquireSegment, WaitForSegment, SpuriousWakeup, TxRequest, RxData,
             Phase, TypeOK, ProxyTypeOK
<1>. QED BY <1>1, <1>2, Invisible

\* The reply is for w's file: a hit with the length that is announced, or a miss.
LEMMA ReplyOf ==
    ASSUME TypeOK, TransferInv, NEW w \in Workers, RxFilesize(w)
    PROVE  LET m == Head(c2p[seg[w]]) IN
             /\ m.cache_hit \in BOOLEAN /\ m.file_size \in Int
             /\ m.cache_hit => path[w] \in Cached /\ m.file_size = Size(path[w])
             /\ ~m.cache_hit => path[w] \notin Cached
<1>1. /\ pc[w] = "get_filesize" /\ c2p[seg[w]] # <<>> /\ c2p[seg[w]] \in Seq(Packet)
      BY DEF RxFilesize, TypeOK, ProxyTypeOK, ChannelTypeOK
<1>2. /\ Head(c2p[seg[w]]) = c2p[seg[w]][1] /\ Head(c2p[seg[w]]) \in Packet
      BY <1>1, HeadTail
<1>3. HeaderSent(w) \/ OnlyReply(w)
      BY <1>1 DEF TransferInv, RequestInv, Waiting, Quiet, Looking
<1>. QED BY <1>2, <1>3, PacketFields DEF HeaderSent, OnlyReply, IsHeader

\* The header for the client.
LEMMA HeaderAnswers ==
    ASSUME TypeOK, TransferInv, NEW w \in Workers, RxFilesize(w)
    PROVE  Service!Found(w) \/ Service!NotFound(w)
<1> DEFINE m == Head(c2p[seg[w]])
<1>1. /\ m.cache_hit \in BOOLEAN /\ m.file_size \in Int
      /\ m.cache_hit => path[w] \in Cached /\ m.file_size = ToInt(FileSize[path[w]])
      /\ ~m.cache_hit => path[w] \notin Cached
      BY ReplyOf DEF Size
<1>2. /\ UNCHANGED <<path, sent>> /\ pc[w] = "get_filesize"
      /\ \/ /\ m.cache_hit
            /\ status' = [status EXCEPT ![w] = "ok"]
            /\ announced' = [announced EXCEPT ![w] = m.file_size]
            /\ pc' = [pc EXCEPT ![w] = IF 0 < m.file_size THEN "get_data" ELSE "release"]
         \/ /\ ~m.cache_hit
            /\ status' = [status EXCEPT ![w] = "not_found"]
            /\ pc' = [pc EXCEPT ![w] = "release"]
            /\ UNCHANGED announced
      BY DEF RxFilesize
<1> HIDE DEF m
<1>3. /\ pc \in [Workers -> WorkerPC] /\ announced \in [Workers -> Int]
      BY DEF TypeOK, ProxyTypeOK
<1>4. Phase(w) = "asked" /\ \A v \in Workers \ {w} : Phase(v)' = Phase(v)
      BY <1>2, <1>3 DEF Phase
<1>5. CASE m.cache_hit
  <2>1. announced'[w] = m.file_size
        BY <1>2, <1>3, <1>5
  <2>2. Phase(w)' = IF 0 < announced'[w] THEN "streaming" ELSE "answered"
        BY <1>2, <1>3, <1>5, <2>1 DEF Phase
  <2>3. phases' = [phases EXCEPT ![w] = IF 0 < announced'[w] THEN "streaming" ELSE "answered"]
        BY <1>4, <2>2, PhaseMoves
  <2>4. m.file_size \in [f \in Cached |-> {ToInt(FileSize[f])}][path[w]]
        BY <1>1, <1>5
  <2>.  QED BY <1>1, <1>2, <1>4, <1>5, <2>1, <2>3, <2>4 DEF phases, Service!Found
<1>6. CASE ~m.cache_hit
  <2>1. Phase(w)' = "answered"
        BY <1>2, <1>3, <1>6 DEF Phase
  <2>2. phases' = [phases EXCEPT ![w] = "answered"]
        BY <1>4, <2>1, PhaseMoves
  <2>.  QED BY <1>1, <1>2, <1>4, <1>6, <2>2 DEF phases, Service!NotFound
<1>. QED BY <1>1, <1>5, <1>6

\* A chunk is the next piece of the file, and no more than was announced.
LEMMA ChunkDelivers ==
    ASSUME TypeOK, TransferInv, NEW w \in Workers, GfsSend(w)
    PROVE  \E n \in 1 .. announced[w] : Service!Deliver(w, n)
<1> DEFINE n == pkt[w].chunk_size
<1>1. pc[w] = "forward" /\ Streaming(w) /\ HasChunk(w)
      BY DEF GfsSend, TransferInv, RequestInv
<1>2. /\ n \in Int /\ n > 0 /\ Received(w) = sent[w] + n
      /\ total[w] + n <= Size(path[w])
      BY <1>1, ReceivedNext
<1>3. /\ announced[w] = Size(path[w]) /\ sent[w] = total[w] /\ total[w] \in Int
      /\ total[w] >= 0 /\ announced[w] \in Int
      BY <1>1 DEF Streaming, TypeOK, ProxyTypeOK
<1>4. n \in 1 .. announced[w] /\ sent[w] + n <= announced[w]
      BY <1>2, <1>3
<1>5. /\ UNCHANGED <<path, status, announced>>
      /\ sent' = [sent EXCEPT ![w] = sent[w] + n]
      BY <1>2 DEF GfsSend
<1>6. \A v \in Workers : Phase(v)' = Phase(v)
      BY DEF GfsSend, Phase, TypeOK, ProxyTypeOK
<1>7. phases' = phases /\ phases[w] = "streaming"
      BY <1>1, <1>6, PhaseIs DEF phases
<1>8. Service!Deliver(w, n)
      BY <1>2, <1>4, <1>5, <1>7 DEF phases, Service!Deliver
<1>. QED BY <1>4, <1>8

\* The acknowledgement of the last chunk completes the file, that of another is
\* invisible.
LEMMA AckCompletes ==
    ASSUME TypeOK, TransferInv, NEW w \in Workers, TxAck(w)
    PROVE  Service!Complete(w) \/ UNCHANGED Service!vars
<1>1. pc[w] = "ack" /\ Streaming(w) /\ OwesAck(w)
      BY DEF TxAck, TransferInv, RequestInv
<1>2. /\ announced[w] = Size(path[w]) /\ sent[w] = total[w] /\ total[w] \in Int
      /\ announced[w] \in Int /\ total[w] <= Size(path[w])
      /\ pkt[w].file_size = Size(path[w])
      BY <1>1 DEF Streaming, OwesAck, TypeOK, ProxyTypeOK
<1>3. UNCHANGED <<path, status, announced, sent>>
      BY DEF TxAck, clientVars
<1>4. \A v \in Workers \ {w} : Phase(v)' = Phase(v)
      BY DEF TxAck, Phase, TypeOK, ProxyTypeOK
<1>5. Phase(w) = "streaming"
      BY <1>1, PhaseIs
<1>6. CASE total[w] < pkt[w].file_size
  <2>1. Phase(w)' = "streaming"
        BY <1>6 DEF TxAck, Phase, TypeOK, ProxyTypeOK
  <2>.  QED BY <1>3, <1>4, <1>5, <2>1, Invisible
<1>7. CASE ~(total[w] < pkt[w].file_size)
  <2>1. Phase(w)' = "answered"
        BY <1>7 DEF TxAck, Phase, TypeOK, ProxyTypeOK
  <2>2. phases' = [phases EXCEPT ![w] = "answered"]
        BY <1>4, <2>1, PhaseMoves
  <2>3. sent[w] = announced[w]
        BY <1>2, <1>7
  <2>.  QED BY <1>3, <1>5, <2>2, <2>3 DEF phases, Service!Complete
<1>. QED BY <1>6, <1>7

\* The worker is free again; one that it wakes is still asking.
LEMMA ReleaseFinishes ==
    ASSUME TypeOK, NEW w \in Workers, ReleaseSegment(w)
    PROVE  Service!Finish(w)
<1>1. Phase(w) = "answered"
      BY PhaseIs DEF ReleaseSegment
<1>2. Phase(w)' = "idle" /\ \A v \in Workers \ {w} : Phase(v)' = Phase(v)
      BY DEF ReleaseSegment, Phase, TypeOK, ProxyTypeOK
<1>3. phases' = [phases EXCEPT ![w] = "idle"]
      BY <1>2, PhaseMoves
<1>. QED BY <1>1, <1>3 DEF phases, ReleaseSegment, Service!Finish

-----------------------------------------------------------------------------
\* The service does not see the cache.
LEMMA CacheInvisible ==
    ASSUME NEW c \in CacheThreads, CacheStep(c) \/ FindSegmentFails(c)
    PROVE  UNCHANGED Service!vars
<1>1. UNCHANGED <<workerVars, clientVars>>
      BY DEF CacheStep, RxRequest, FindSegment, TxMiss, TxHeader, EmptyFile,
             FillSegment, NothingToRead, TxData, RxAck, FindSegmentFails
<1>. QED BY <1>1, Invisible DEF workerVars, clientVars, Phase

\* Every step of the protocol is one of the service, or invisible to it.
LEMMA ServiceStep ==
    ASSUME TypeOK, TransferInv, [Next]_vars
    PROVE  [Service!Next]_(Service!vars)
<1>1. ASSUME NEW w \in Workers, NEW p \in Paths, HandleWithCache(w, p)
      PROVE  Service!Next
      BY <1>1, HandleAsks DEF Service!Next
<1>2. ASSUME NEW w \in Workers, RxFilesize(w)
      PROVE  Service!Next
      BY <1>2, HeaderAnswers DEF Service!Next
<1>3. ASSUME NEW w \in Workers, GfsSend(w)
      PROVE  Service!Next
      BY <1>3, ChunkDelivers DEF Service!Next
<1>4. ASSUME NEW w \in Workers, TxAck(w)
      PROVE  Service!Next \/ UNCHANGED Service!vars
      BY <1>4, AckCompletes DEF Service!Next
<1>5. ASSUME NEW w \in Workers, ReleaseSegment(w)
      PROVE  Service!Next
      BY <1>5, ReleaseFinishes DEF Service!Next
<1>6. ASSUME NEW w \in Workers, GfsSendFails(w)
      PROVE  UNCHANGED Service!vars
  <2>1. UNCHANGED <<workerVars, clientVars>>
        BY <1>6 DEF GfsSendFails
  <2>.  QED BY <2>1, Invisible DEF workerVars, clientVars, Phase
<1>7. CASE UNCHANGED vars
      BY <1>7, Invisible DEF vars, workerVars, clientVars, Phase
<1>. QED BY <1>1, <1>2, <1>3, <1>4, <1>5, <1>6, <1>7, QuietStep, CacheInvisible
         DEF Next, WorkerStep

\* With one cache thread, clients of the proxy see the file service: each request
\* is answered by one header, with a length that the path has as an int, and then
\* by that much of the file in order, whatever the threads do meanwhile.
THEOREM ProxyImplementsService ==
    ASSUME SingleCacheThread
    PROVE  Spec => ImplementsFileService
<1>1. Init => Service!Init
      BY ServiceInit
<1>2. TypeOK /\ TransferInv /\ [Next]_vars => [Service!Next]_(Service!vars)
      BY ServiceStep
<1>3. Spec => Service!Spec
      BY <1>1, <1>2, TransferHolds, PTL DEF Spec, Service!Spec
<1>. QED BY <1>3 DEF ImplementsFileService
=============================================================================
