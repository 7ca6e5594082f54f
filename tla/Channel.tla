------------------------------- MODULE Channel -------------------------------
(***************************************************************************)
(* How the proxy and the cache of project3 find each other, and what is    *)
(* left when one of them ends: webproxy.c, simplecached.c and              *)
(* shm_channel.c.                                                          *)
(*                                                                         *)
(* A message queue has a name, but lives as long as the name or a process  *)
(* that opened it: the queues that were created under name n are numbered  *)
(* 1 .. created[n], and linked[n] says whether the name leads to the last. *)
(* Names outlive processes, so a process may open a queue that another one *)
(* left behind.  Both programs may be started in any order, end at any     *)
(* moment and be started again.                                            *)
(*                                                                         *)
(* Only the control queues have contents here; what a request does on the  *)
(* queues of its segment is ProxyCache.                                    *)
(***************************************************************************)
EXTENDS Integers, Sequences, FiniteSets

CONSTANTS
    Options,    \* the numbers of segments that a proxy may be started with
    MqMaxMsg,   \* mq_maxmsg
    MaxStops,   \* bound: how often a process ends
    None

ASSUME OptionsAssumption == Options \subseteq Nat /\ IsFiniteSet(Options)
ASSUME BoundAssumption   == MqMaxMsg \in Nat \ {0} /\ MaxStops \in Nat

Process == {"proxy", "cache"}

ToCache == <<"/control_proxy_cache", 0>>
ToProxy == <<"/control_cache_proxy", 0>>
Control == {ToCache, ToProxy}

Sides   == {"/proxy-to-cache", "/cache-to-proxy"}

\* The queues that shm_create_segments opens for the first n segments, in the
\* order of process p.
Opposite(side) == IF side = "/proxy-to-cache" THEN "/cache-to-proxy"
                  ELSE "/proxy-to-cache"
Tx(p) == IF p = "proxy" THEN "/proxy-to-cache" ELSE "/cache-to-proxy"
SegmentQueues(p, n) ==
    [k \in 1 .. 2 * n |-> IF k % 2 = 1 THEN <<Tx(p), k \div 2>>
                          ELSE <<Opposite(Tx(p)), k \div 2 - 1>>]

Request  == UNION {0 .. n - 1 : n \in Options}
Names    == Control \cup (Sides \X Request)
Queues   == Names \X (0 .. MaxStops + 1)

\* A handshake message and a request are told apart by nothing in them.
Message == [kind : {"ctrl"}, n : Options] \cup [kind : {"request"}, n : Request]
Garbled == -1

VARIABLES
    created, linked,
    box,        \* the messages in each control queue
    pc,
    todo,       \* the names that a process has yet to open
    doomed,     \* the names that the proxy's handler has yet to unlink
    fd,         \* the queue of each name that it has open, or 0
    ctrl,       \* its ctrl.num_segments
    confused,   \* a cache thread took something else for a request
    stops,      \* how often a process ended
    stale,      \* history: the queues of processes that served and ended
    orderly     \* history: whoever ended did so in the right order

names   == <<created, linked>>
history == <<stops, stale, orderly>>
channelVars == <<names, box, pc, todo, doomed, fd, ctrl, confused, history>>

ChannelTypeOK ==
    /\ created \in [Names -> 0 .. MaxStops + 1]
    /\ linked \in [Names -> BOOLEAN]
    /\ \A q \in Queues : Len(box[q]) <= MqMaxMsg /\ box[q] \in Seq(Message)
    /\ pc \in [Process -> {"down", "open", "handshake", "reply", "segments",
                           "serve", "stopping", "lost"}]
    /\ todo \in [Process -> Seq(Names)] /\ doomed \subseteq Names
    /\ \A p \in Process : \A n \in Names : fd[p][n] \in 0 .. created[n]
    /\ ctrl \in [Process -> Options \cup {None, Garbled}]
    /\ confused \in BOOLEAN /\ orderly \in BOOLEAN
    /\ stops \in 0 .. MaxStops
    /\ stale \subseteq Queues

NoQueues == [n \in Names |-> 0]

ChannelInit ==
    /\ created = [n \in Names |-> 0] /\ linked = [n \in Names |-> FALSE]
    /\ box  = [q \in Queues |-> <<>>]
    /\ pc   = [p \in Process |-> "down"]
    /\ todo = [p \in Process |-> <<>>] /\ doomed = {}
    /\ fd   = [p \in Process |-> NoQueues]
    /\ ctrl = [p \in Process |-> None]
    /\ confused = FALSE /\ stops = 0 /\ stale = {} /\ orderly = TRUE

-----------------------------------------------------------------------------
(***************************************************************************)
(* Queues.                                                                 *)
(***************************************************************************)
\* create_message_queue for the next name: open the queue, or create it.
Open(p) ==
    LET n == Head(todo[p])
        q == IF linked[n] THEN created[n] ELSE created[n] + 1 IN
    /\ created' = [created EXCEPT ![n] = q]
    /\ linked'  = [linked EXCEPT ![n] = TRUE]
    /\ fd'      = [fd EXCEPT ![p][n] = q]
    /\ todo'    = [todo EXCEPT ![p] = Tail(@)]

Queue(p, n) == <<n, fd[p][n]>>

\* A bug: a message is sent to a full queue.
RoomUnbounded(q) == TRUE

Room(q) == Len(box[q]) < MqMaxMsg

\* tx_mq blocks while the queue is full, rx_mq while it is empty.
Send(p, n, m) ==
    /\ Room(Queue(p, n))
    /\ box' = [box EXCEPT ![Queue(p, n)] = Append(@, m)]

Receive(p, n) ==
    /\ box[Queue(p, n)] # <<>>
    /\ box' = [box EXCEPT ![Queue(p, n)] = Tail(@)]

Received(p, n) == Head(box[Queue(p, n)])

-----------------------------------------------------------------------------
(***************************************************************************)
(* Starting and the handshake.                                             *)
(***************************************************************************)
\* Process p still runs on queues that have lost their name.
Orphaned(p) ==
    \E n \in Names : fd[p][n] # 0 /\ ~(linked[n] /\ fd[p][n] = created[n])

Start(p) ==
    /\ pc[p] = "down"
    /\ pc' = [pc EXCEPT ![p] = "open"]
    /\ todo' = [todo EXCEPT ![p] = IF p = "proxy" THEN <<ToCache, ToProxy>>
                                   ELSE <<ToProxy, ToCache>>]
    /\ \E n \in Options :
         ctrl' = [ctrl EXCEPT ![p] = IF p = "proxy" THEN n ELSE None]
    /\ orderly' = (orderly /\ ~Orphaned("cache") /\ pc["proxy"] # "stopping")
    /\ UNCHANGED <<names, doomed, box, fd, confused, stops, stale>>

OpenControl(p) ==
    /\ pc[p] = "open"
    /\ \/ /\ todo[p] # <<>>
          /\ Open(p)
          /\ UNCHANGED pc
       \/ /\ todo[p] = <<>>
          /\ pc' = [pc EXCEPT ![p] = "handshake"]
          /\ UNCHANGED <<names, todo, fd>>
    /\ UNCHANGED <<doomed, box, ctrl, confused, history>>

\* main: tell the cache how many segments there are.
ProxySync ==
    /\ pc["proxy"] = "handshake"
    /\ Send("proxy", ToCache, [kind |-> "ctrl", n |-> ctrl["proxy"]])
    /\ pc' = [pc EXCEPT !["proxy"] = "reply"]
    /\ UNCHANGED <<names, doomed, todo, fd, ctrl, confused, history>>

\* main: the answer overwrites ctrl, so a number that the cache took from an
\* earlier proxy is the number of segments of this one.
ProxyReply ==
    /\ pc["proxy"] = "reply"
    /\ Receive("proxy", ToProxy)
    /\ LET n == Received("proxy", ToProxy).n IN
         /\ ctrl' = [ctrl EXCEPT !["proxy"] = n]
         /\ todo' = [todo EXCEPT !["proxy"] = SegmentQueues("proxy", n)]
    /\ pc' = [pc EXCEPT !["proxy"] = "segments"]
    /\ UNCHANGED <<names, doomed, fd, confused, history>>

\* A bug: the cache has the names of its control queues the wrong way round.
CacheRxSwapped == ToProxy

CacheRx == ToCache

\* sync_with_proxy: whatever comes first is taken for the handshake; the bytes
\* of a request make no number of segments.
CacheSync ==
    /\ pc["cache"] = "handshake"
    /\ Receive("cache", CacheRx)
    /\ LET m == Received("cache", CacheRx) IN
         \/ /\ m.kind = "ctrl"
            /\ ctrl' = [ctrl EXCEPT !["cache"] = m.n]
            /\ pc'   = [pc EXCEPT !["cache"] = "reply"]
         \/ /\ m.kind = "request"
            /\ ctrl' = [ctrl EXCEPT !["cache"] = Garbled]
            /\ pc'   = [pc EXCEPT !["cache"] = "lost"]
    /\ UNCHANGED <<names, doomed, todo, fd, confused, history>>

CacheReply ==
    /\ pc["cache"] = "reply"
    /\ Send("cache", ToProxy, [kind |-> "ctrl", n |-> ctrl["cache"]])
    /\ pc'   = [pc EXCEPT !["cache"] = "segments"]
    /\ todo' = [todo EXCEPT !["cache"] = SegmentQueues("cache", ctrl["cache"])]
    /\ UNCHANGED <<names, doomed, fd, ctrl, confused, history>>

\* shm_create_segments.  The segments themselves are opened in the same way,
\* and never unlinked.
CreateSegments(p) ==
    /\ pc[p] = "segments"
    /\ \/ /\ todo[p] # <<>>
          /\ Open(p)
          /\ UNCHANGED pc
       \/ /\ todo[p] = <<>>
          /\ pc' = [pc EXCEPT ![p] = "serve"]
          /\ UNCHANGED <<names, todo, fd>>
    /\ UNCHANGED <<doomed, box, ctrl, confused, history>>

-----------------------------------------------------------------------------
(***************************************************************************)
(* Serving.                                                                *)
(***************************************************************************)
\* A worker of the proxy sends a request for one of its segments.
TxRequest ==
    /\ pc["proxy"] = "serve"
    /\ \E s \in 0 .. ctrl["proxy"] - 1 :
         Send("proxy", ToCache, [kind |-> "request", n |-> s])
    /\ UNCHANGED <<names, pc, todo, doomed, fd, ctrl, confused, history>>

\* perform_task takes whatever comes.  For a segment that the cache does not
\* have, and for a handshake message, find_segment never returns.
RxRequest ==
    /\ pc["cache"] = "serve" /\ ~confused
    /\ Receive("cache", ToCache)
    /\ LET m == Received("cache", ToCache) IN
         confused' = (m.kind = "ctrl" \/ m.n >= ctrl["cache"])
    /\ UNCHANGED <<names, doomed, pc, todo, fd, ctrl, history>>

-----------------------------------------------------------------------------
(***************************************************************************)
(* Ending.                                                                 *)
(***************************************************************************)
\* The process is gone, and its queues are closed.
Gone(p) ==
    /\ stale' = IF pc[p] \in {"serve", "stopping"}
                  THEN stale \cup {Queue(p, n) : n \in {m \in Names : fd[p][m] # 0}}
                ELSE stale
    /\ fd'    = [fd EXCEPT ![p] = NoQueues]
    /\ ctrl'  = [ctrl EXCEPT ![p] = None]
    /\ todo'  = [todo EXCEPT ![p] = <<>>]
    /\ pc'    = [pc EXCEPT ![p] = "down"]

\* The cache ends: a failed ASSERT, a crash, or a signal, whose handler unlinks
\* nothing.
CacheStop ==
    /\ pc["cache"] # "down" /\ stops < MaxStops
    /\ stops' = stops + 1
    /\ Gone("cache")
    /\ confused' = FALSE
    /\ orderly' = (orderly /\ pc["proxy"] = "down")
    /\ UNCHANGED <<names, box, doomed>>

\* The proxy ends without its handler.
ProxyCrash ==
    /\ pc["proxy"] # "down" /\ stops < MaxStops
    /\ stops' = stops + 1
    /\ Gone("proxy")
    /\ doomed' = {} /\ orderly' = FALSE
    /\ UNCHANGED <<names, box, confused>>

\* The segments that the proxy has put into its segment queue, if there is one.
SegmentsMade == {i \in Request : \A side \in Sides : fd["proxy"][<<side, i>>] # 0}

\* A bug: the loop over the segments ends one too early.
PoolQueuesShort(held) ==
    {n \in Sides \X (SegmentsMade \ held) : n[2] + 1 \in SegmentsMade}

\* What shm_clean_segments unlinks: the queues of each segment in the pool, so
\* not of those that workers hold.
PoolQueues(held) == Sides \X (SegmentsMade \ held)

\* No worker holds a segment while the segments are made.
MayBeHeld == IF pc["proxy"] = "serve" THEN SegmentsMade ELSE {}

InOrder(held) ==
    \/ pc["cache"] = "down"
    \/ pc["cache"] = "serve" /\ pc["proxy"] = "serve" /\ held = {}

\* A bug: the handler leaves the control queues.
ControlQueuesLeft == {}

ControlQueues == {ToCache, ToProxy}

\* SIGINT or SIGTERM: the handler unlinks the control queues and those of the
\* free segments; without a segment queue it fails where that would begin.
ProxySignal ==
    /\ pc["proxy"] \notin {"down", "stopping"} /\ stops < MaxStops
    /\ stops' = stops + 1
    /\ pc'   = [pc EXCEPT !["proxy"] = "stopping"]
    /\ \E held \in SUBSET MayBeHeld :
         /\ doomed' = ControlQueues \cup PoolQueues(held)
         /\ orderly' = (orderly /\ InOrder(held))
    /\ todo' = [todo EXCEPT !["proxy"] = <<>>]
    /\ UNCHANGED <<names, box, fd, ctrl, confused, stale>>

\* mq_unlink of a name: first of the control queues, then of the others, in the
\* order of the pool, which depends on the requests so far; then exit.
Unlink ==
    /\ pc["proxy"] = "stopping"
    /\ \/ \E n \in doomed :
            /\ n = ToCache \/ ToCache \notin doomed
            /\ n \in Control \/ ToProxy \notin doomed
            /\ linked' = [linked EXCEPT ![n] = FALSE]
            /\ doomed' = doomed \ {n}
            /\ UNCHANGED <<pc, todo, fd, ctrl, stale>>
       \/ /\ doomed = {}
          /\ Gone("proxy")
          /\ UNCHANGED <<linked, doomed>>
    /\ UNCHANGED <<created, box, confused, stops, orderly>>

-----------------------------------------------------------------------------
ProcessStep ==
    \/ \E p \in Process : OpenControl(p) \/ CreateSegments(p)
    \/ ProxySync \/ ProxyReply \/ CacheSync \/ CacheReply \/ Unlink

ChannelNext ==
    \/ ProcessStep \/ TxRequest \/ RxRequest
    \/ \E p \in Process : Start(p)
    \/ CacheStop \/ ProxyCrash \/ ProxySignal

ChannelSpec == ChannelInit /\ [][ChannelNext]_channelVars

\* A process that was started runs; nobody has to start or to stop one.
FairSpec ==
    /\ ChannelSpec
    /\ WF_channelVars(Unlink)
    /\ WF_channelVars(ProxySync) /\ WF_channelVars(ProxyReply)
    /\ WF_channelVars(CacheSync) /\ WF_channelVars(CacheReply)
    /\ \A p \in Process : WF_channelVars(OpenControl(p)) /\ WF_channelVars(CreateSegments(p))

-----------------------------------------------------------------------------
(***************************************************************************)
(* Ending in order is: the proxy first, by a signal, when both serve and   *)
(* every segment is free, or when there is no cache; then the cache; and   *)
(* only then are they started again.                                       *)
(***************************************************************************)
\* The handshake makes both ready: a proxy that creates its segments has a cache
\* that knows their number, on the same control queues.
BothReady ==
    orderly /\ pc["proxy"] \in {"segments", "serve"} =>
      /\ pc["cache"] \in {"segments", "serve"}
      /\ ctrl["cache"] = ctrl["proxy"]
      /\ \A n \in Control : fd["cache"][n] = fd["proxy"][n]

\* Both serve on the same queues, and nobody left a message in one of them.
FreshQueues ==
    orderly /\ pc["proxy"] = "serve" /\ pc["cache"] = "serve" =>
      \A n \in Names :
        /\ fd["cache"][n] = fd["proxy"][n]
        /\ Queue("proxy", n) \notin stale

\* The cache answers requests and nothing else.
NeverConfused == orderly => ~confused /\ pc["cache"] # "lost"

\* Two processes that run get through the handshake, unless one of them ends.
HandshakeEnds ==
    (orderly /\ pc["proxy"] # "down" /\ pc["cache"] # "down")
      ~> \/ pc["proxy"] = "serve" /\ pc["cache"] = "serve"
         \/ pc["proxy"] = "down" \/ pc["cache"] = "down"
=============================================================================
