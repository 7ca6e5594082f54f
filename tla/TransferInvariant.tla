------------------------- MODULE TransferInvariant --------------------------
(***************************************************************************)
(* The inductive invariant of ProxyCache with one cache thread: for every  *)
(* place a worker can be in, what its segment, the two queues of the       *)
(* segment and the cache thread look like.                                 *)
(***************************************************************************)
EXTENDS ProxyCache

SingleCacheThread == \A c, d \in CacheThreads : c = d

\* The length of f that the cache announces and sends.
Size(f) == ToInt(FileSize[f])

\* A request for path p on segment s waits on the control queue.
Queued(p, s) ==
    \E i \in 1 .. Len(ctrlQ) :
      ctrlQ[i] = [requested_file |-> p, segment_index |-> s]

Asked(s) == \E p \in Paths : Queued(p, s)

On(c, s) == cseg[c] = s

\* Nothing happens on segment s any more, but for the cache thread taking the
\* last acknowledgement of a file.
Quiet(s) ==
    /\ c2p[s] = <<>>
    /\ \/ /\ p2c[s] = <<>>
          /\ \A c \in CacheThreads : ~On(c, s)
       \/ \E c \in CacheThreads :
            /\ On(c, s) /\ cpc[c] = "rx_ack"
            /\ Len(p2c[s]) = 1
            /\ Head(p2c[s]).file_size <= ctotal[c]

\* The message m announces a chunk of w's file that starts at byte at, and the
\* segment holds that chunk.
Chunk(w, m, at) ==
    /\ m.file_size = Size(path[w])
    /\ m.chunk_size > 0
    /\ at + m.chunk_size <= Size(path[w])
    /\ shm[seg[w]] = [path |-> path[w], off |-> at, len |-> m.chunk_size]

\* Cache thread c sends w's file from the segment of w.
Sending(c, w) ==
    /\ On(c, seg[w]) /\ cfile[c] = path[w] /\ path[w] \in Cached

\* It is about to write the chunk at byte at, or did and is about to say so.
Filling(c, w, at) ==
    /\ ctotal[c] = at
    /\ \/ cpc[c] = "fill" /\ at < Size(path[w]) /\ cpkt[c].file_size = Size(path[w])
       \/ cpc[c] = "tx_data" /\ Chunk(w, cpkt[c], at)

\* It said so in message m and waits.
Told(c, w, m, at) ==
    /\ cpc[c] = "rx_ack"
    /\ Chunk(w, m, at)
    /\ ctotal[c] = at + m.chunk_size

IsHeader(m, f) == m.cache_hit /\ m.file_size = Size(f) /\ f \in Cached

-----------------------------------------------------------------------------
(***************************************************************************)
(* Where a request can be, from the worker's side.                         *)
(***************************************************************************)
Unanswered(w) == status[w] = "none" /\ total[w] = 0 /\ sent[w] = 0

\* The header went out, and sent bytes of the file.
Streaming(w) ==
    /\ status[w] = "ok"
    /\ announced[w] = Size(path[w])
    /\ path[w] \in Cached
    /\ sent[w] = total[w] /\ total[w] >= 0

\* The request waits on the control queue.
Waiting(w) ==
    Quiet(seg[w]) /\ Queued(path[w], seg[w])

\* The cache looks for the file and the segment.
Looking(w) ==
    /\ c2p[seg[w]] = <<>> /\ p2c[seg[w]] = <<>>
    /\ \E c \in CacheThreads :
         On(c, seg[w]) /\ cfile[c] = path[w] /\ cpc[c] \in {"find", "spin", "reply"}

\* The header is on its way and perhaps the first chunk behind it.
HeaderSent(w) ==
    /\ p2c[seg[w]] = <<>>
    /\ \E c \in CacheThreads :
         /\ Sending(c, w)
         /\ c2p[seg[w]] # <<>> /\ IsHeader(c2p[seg[w]][1], path[w])
         /\ Size(path[w]) > 0
         /\ \/ Len(c2p[seg[w]]) = 1 /\ Filling(c, w, 0)
            \/ Len(c2p[seg[w]]) = 2 /\ Told(c, w, c2p[seg[w]][2], 0)

\* The answer is on its way, and the cache is done with it.
OnlyReply(w) ==
    /\ p2c[seg[w]] = <<>>
    /\ \A c \in CacheThreads : ~On(c, seg[w])
    /\ Len(c2p[seg[w]]) = 1
    /\ LET m == c2p[seg[w]][1] IN
         \/ ~m.cache_hit /\ path[w] \notin Cached
         \/ IsHeader(m, path[w]) /\ Size(path[w]) <= 0

\* The worker waits for the chunk at byte total.
AwaitingChunk(w) ==
    \E c \in CacheThreads :
      /\ Sending(c, w)
      /\ \/ /\ c2p[seg[w]] = <<>> /\ p2c[seg[w]] = <<>>
            /\ Filling(c, w, total[w])
         \/ /\ c2p[seg[w]] = <<>> /\ Len(p2c[seg[w]]) = 1
            /\ p2c[seg[w]][1].file_size = Size(path[w])
            /\ cpc[c] = "rx_ack" /\ ctotal[c] = total[w]
         \/ /\ Len(c2p[seg[w]]) = 1 /\ p2c[seg[w]] = <<>>
            /\ Told(c, w, c2p[seg[w]][1], total[w])

\* The worker has the message about the chunk at byte total.
HasChunk(w) ==
    /\ c2p[seg[w]] = <<>> /\ p2c[seg[w]] = <<>>
    /\ \E c \in CacheThreads : Sending(c, w) /\ Told(c, w, pkt[w], total[w])

\* The worker sent the chunk on and owes the acknowledgement.
OwesAck(w) ==
    /\ c2p[seg[w]] = <<>> /\ p2c[seg[w]] = <<>>
    /\ pkt[w].file_size = Size(path[w]) /\ total[w] <= Size(path[w])
    /\ \E c \in CacheThreads :
         Sending(c, w) /\ cpc[c] = "rx_ack" /\ ctotal[c] = total[w]

\* The request is over.
Over(w) ==
    /\ Quiet(seg[w])
    /\ \/ status[w] = "not_found" /\ path[w] \notin Cached /\ sent[w] = 0
       \/ /\ Streaming(w)
          /\ total[w] = IF Size(path[w]) > 0 THEN Size(path[w]) ELSE 0

RequestInv(w) ==
    /\ pc[w] \in {"idle", "acquire", "wait"} => Unanswered(w)
    /\ pc[w] = "send" => Unanswered(w) /\ Quiet(seg[w])
    /\ pc[w] = "get_filesize" =>
         /\ Unanswered(w)
         /\ \/ Waiting(w)
            \/ ~Asked(seg[w]) /\ (Looking(w) \/ HeaderSent(w) \/ OnlyReply(w))
    /\ pc[w] = "get_data" => Streaming(w) /\ total[w] < Size(path[w]) /\ AwaitingChunk(w)
    /\ pc[w] = "forward"  => Streaming(w) /\ HasChunk(w)
    /\ pc[w] = "ack"      => Streaming(w) /\ OwesAck(w)
    /\ pc[w] = "release"  => Over(w)

\* Only requests that wait are on the control queue, each once.
ControlInv ==
    /\ \A i, j \in 1 .. Len(ctrlQ) :
         ctrlQ[i].segment_index = ctrlQ[j].segment_index => i = j
    /\ \A s \in Segments :
         Asked(s) => \E w \in Workers : seg[w] = s /\ pc[w] = "get_filesize"

\* Nothing happens on a segment that nobody holds.
FreeInv == \A s \in Segments : (\A w \in Workers : seg[w] # s) => Quiet(s)

\* What the protocol maintains when the cache has one thread.
TransferInv ==
    /\ ControlInv
    /\ FreeInv
    /\ \A w \in Workers : RequestInv(w)
=============================================================================
