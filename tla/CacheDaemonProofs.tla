-------------------------- MODULE CacheDaemonProofs ---------------------------
(***************************************************************************)
(* The cache daemon of project3 finds the segment of a request.            *)
(*                                                                         *)
(* Channel: whatever the numbers of segments, the length of the queues and *)
(* how often the processes end, as long as they end in order, the proxy    *)
(* and the cache serve on the same queues, with the same number of         *)
(* segments, and the cache gets only requests for segments that it has.    *)
(*                                                                         *)
(* SegmentLookup: then find_segment, for every number of cache threads and *)
(* of segments, as long as no two calls overlap, rotates the queue until   *)
(* it meets the segment, in at most as many rounds as there are segments,  *)
(* and leaves a queue of all of them behind.                               *)
(***************************************************************************)
EXTENDS Channel, SegmentLookup, NaturalsInduction, WellFoundedInduction, TLAPS

-----------------------------------------------------------------------------
(***************************************************************************)
(* The invariant of Channel: what holds whoever ends, and when.            *)
(***************************************************************************)
Handshake(n) == [kind |-> "ctrl", n |-> n]
Handshakes   == [kind : {"ctrl"}, n : Options]
Has(p, n)    == fd[p][n] # 0

\* What has gone wrong so far bounds the queues under one name: the handler
\* unlinks it once for each time that the proxy stops.
Created(n) ==
    created[n] + (IF n \in doomed THEN 1 ELSE 0) <= stops + (IF linked[n] THEN 1 ELSE 0)

NameShapes ==
    /\ created \in [Names -> Nat] /\ linked \in [Names -> BOOLEAN] /\ doomed \subseteq Names
    /\ \A n \in Names : Created(n) /\ (linked[n] => created[n] # 0)
    /\ fd \in [Process -> [Names -> Nat]]
    /\ \A p \in Process : \A n \in Names : fd[p][n] <= created[n]
    /\ stops \in 0 .. MaxStops /\ stale \subseteq Queues

BoxShapes ==
    /\ box \in [Queues -> Seq(Message)]
    /\ \A q \in Queues : Len(box[q]) <= MqMaxMsg /\ (q[1] = ToProxy => box[q] \in Seq(Handshakes))

ProcessShapes ==
    /\ pc \in [Process -> {"down", "open", "handshake", "reply", "segments",
                           "serve", "stopping", "lost"}]
    /\ pc["cache"] # "stopping"
    /\ todo \in [Process -> Seq(Names)]
    /\ ctrl \in [Process -> Options \cup {None, Garbled}]
    /\ pc["proxy"] \in {"open", "handshake", "reply", "segments", "serve"} => ctrl["proxy"] \in Options
    /\ pc["cache"] \in {"reply", "segments", "serve"} => ctrl["cache"] \in Options
    /\ confused \in BOOLEAN /\ orderly \in BOOLEAN

ChannelShapes == NameShapes /\ BoxShapes /\ ProcessShapes

-----------------------------------------------------------------------------
(***************************************************************************)
(* What holds as long as everything ends in order.                         *)
(***************************************************************************)
Starting == {"down", "open", "handshake"}

\* The cache serves on without its proxy.
Widowed == pc["proxy"] = "down" /\ pc["cache"] = "serve"

\* How far one process can be ahead of the other.
Together ==
    /\ pc["cache"] \in Starting \cup {"reply", "segments", "serve"}
    /\ pc["proxy"] \in Starting \cup {"reply", "segments", "serve", "stopping"}
    /\ pc["proxy"] \in {"open", "handshake"} => pc["cache"] \in Starting
    /\ pc["proxy"] \in {"segments", "serve"} => pc["cache"] \in {"segments", "serve"}
    /\ pc["proxy"] = "stopping" => pc["cache"] \in {"down", "serve"}
    /\ pc["proxy"] = "down"     => pc["cache"] \in Starting \cup {"serve"}

\* A queue in use is the last one of its name, and the name leads to it unless
\* the handler has been there.
QueuesInUse ==
    /\ \A p \in Process : \A n \in Names : Has(p, n) => fd[p][n] = created[n]
    /\ \A p \in Process : \A n \in Names :
         Has(p, n) => linked[n] \/ pc["proxy"] = "stopping" \/ Widowed
    /\ pc["proxy"] = "stopping" =>
         \A n \in Names : linked[n] /\ (n \in Control \/ \E p \in Process : Has(p, n))
                            => n \in doomed
    /\ Widowed => \A n \in Names : Has("cache", n) => ~linked[n]
    /\ \A q \in stale : /\ q[2] # 0 /\ q[2] <= created[q[1]]
                        /\ q[2] = created[q[1]] => ~linked[q[1]]

SegmentNames(n) == Sides \X (0 .. n - 1)
ToOpen(p) == {todo[p][i] : i \in DOMAIN todo[p]}

\* The queues that p has open.
Opened(p) ==
    /\ pc[p] = "down" => \A n \in Names : ~Has(p, n)
    /\ pc[p] \in {"open", "handshake", "reply"} => \A n \in Names \ Control : ~Has(p, n)
    /\ pc[p] = "open" => /\ \A n \in Control : Has(p, n) \/ n \in ToOpen(p)
                         /\ ToOpen(p) \subseteq Control
    /\ pc[p] \in {"handshake", "reply", "segments", "serve"} => \A n \in Control : Has(p, n)
    /\ pc[p] = "segments" =>
         /\ \A n \in SegmentNames(ctrl[p]) : Has(p, n) \/ n \in ToOpen(p)
         /\ ToOpen(p) \subseteq SegmentNames(ctrl[p])
    /\ pc[p] \in {"segments", "serve"} =>
         \A n \in Names \ (Control \cup SegmentNames(ctrl[p])) : ~Has(p, n)
    /\ pc[p] = "serve" => \A n \in SegmentNames(ctrl[p]) : Has(p, n)

\* The messages in the last queue of a name.
Now(n) == box[<<n, created[n]>>]

Requests(s, n) == \A i \in DOMAIN s : s[i].kind = "request" /\ s[i].n < n

\* The handshake's messages, and where they are.
Messages ==
    /\ \A q \in Queues : q[2] > created[q[1]] => box[q] = <<>>
    /\ pc["proxy"] \in Starting /\ pc["cache"] \in Starting =>
         \A n \in Control : linked[n] => Now(n) = <<>>
    /\ pc["proxy"] = "reply" /\ pc["cache"] \in Starting =>
         Now(ToCache) = <<Handshake(ctrl["proxy"])>> /\ Now(ToProxy) = <<>>
    /\ pc["cache"] = "reply" => pc["proxy"] = "reply" /\ Now(ToCache) = <<>> /\ Now(ToProxy) = <<>>
    /\ pc["proxy"] = "reply" /\ pc["cache"] \in {"segments", "serve"} =>
         Now(ToProxy) = <<Handshake(ctrl["cache"])>>
    /\ pc["cache"] \in {"segments", "serve"} => Requests(Now(ToCache), ctrl["cache"])
    /\ pc["proxy"] \in {"reply", "segments", "serve"} /\ pc["cache"] \in {"reply", "segments", "serve"}
         => ctrl["cache"] = ctrl["proxy"]
    /\ ~confused

OrderlyInv == Together /\ QueuesInUse /\ (\A p \in Process : Opened(p)) /\ Messages

ChannelInv == ChannelShapes /\ (orderly => OrderlyInv)

-----------------------------------------------------------------------------
(***************************************************************************)
(* Names, queues and messages.                                             *)
(***************************************************************************)
LEMMA NamesAre ==
    /\ ToCache \in Names /\ ToProxy \in Names /\ ToCache # ToProxy
    /\ Control = {ToCache, ToProxy} /\ Control \subseteq Names
    /\ \A n \in Options : /\ SegmentNames(n) \subseteq Names
                         /\ \A m \in SegmentNames(n) : m \notin Control
    /\ Options \subseteq Nat /\ Request \subseteq Nat
    /\ \A n \in Options : \A s \in 0 .. n - 1 : s \in Request /\ s < n
<1>1. ToCache # ToProxy /\ ToCache \in Control /\ ToProxy \in Control
  BY DEF ToCache, ToProxy, Control
<1>2. \A n \in Options : \A s \in 0 .. n - 1 : s \in Request /\ s < n /\ s \in Nat
  BY OptionsAssumption DEF Request
<1>3. \A n : \A m \in SegmentNames(n) : m \notin Control
  <2>1. \A side \in Sides : \A k : <<side, k>> # ToCache /\ <<side, k>> # ToProxy
    BY DEF Sides, ToCache, ToProxy
  <2>2. QED BY <2>1 DEF SegmentNames, Control
<1>4. \A n \in Options : SegmentNames(n) \subseteq Names
  BY <1>2 DEF SegmentNames, Names
<1>5. Options \subseteq Nat /\ Request \subseteq Nat
  BY OptionsAssumption DEF Request
<1>6. Control = {ToCache, ToProxy} /\ Control \subseteq Names
  BY DEF Control, Names
<1>7. QED BY <1>1, <1>2, <1>3, <1>4, <1>5, <1>6

LEMMA SegmentQueuesAre ==
    ASSUME NEW p \in Process, NEW n \in Options
    PROVE  /\ SegmentQueues(p, n) \in Seq(Names)
           /\ {SegmentQueues(p, n)[i] : i \in DOMAIN SegmentQueues(p, n)} = SegmentNames(n)
<1> DEFINE s == SegmentQueues(p, n)
<1>1. n \in Nat /\ 2 * n \in Nat
  BY NamesAre
<1>2. DOMAIN s = 1 .. 2 * n
  BY DEF SegmentQueues
<1>3. Tx(p) \in Sides /\ Opposite(Tx(p)) \in Sides /\ Sides = {Tx(p), Opposite(Tx(p))}
  BY DEF Process, Tx, Opposite, Sides
<1>4. \A k \in 1 .. 2 * n : s[k] \in SegmentNames(n)
  <2> SUFFICES ASSUME NEW k \in 1 .. 2 * n PROVE s[k] \in SegmentNames(n)
    OBVIOUS
  <2>1. s[k] = IF k % 2 = 1 THEN <<Tx(p), k \div 2>> ELSE <<Opposite(Tx(p)), k \div 2 - 1>>
    BY DEF SegmentQueues
  <2>2. k \in Nat /\ k >= 1 /\ k <= 2 * n
    BY <1>1
  <2>3. CASE k % 2 = 1
    <3>1. k \div 2 \in 0 .. n - 1
      BY <2>2, <2>3, <1>1
    <3>2. QED BY <2>1, <2>3, <3>1, <1>3 DEF SegmentNames
  <2>4. CASE k % 2 # 1
    <3>1. k \div 2 - 1 \in 0 .. n - 1
      BY <2>2, <2>4, <1>1
    <3>2. QED BY <2>1, <2>4, <3>1, <1>3 DEF SegmentNames
  <2>5. QED BY <2>3, <2>4
<1>5. ASSUME NEW m \in SegmentNames(n) PROVE \E k \in 1 .. 2 * n : s[k] = m
  <2>1. PICK side \in Sides : \E i \in 0 .. n - 1 : m = <<side, i>>
    BY DEF SegmentNames
  <2>2. PICK i \in 0 .. n - 1 : m = <<side, i>>
    BY <2>1
  <2>3. CASE side = Tx(p)
    <3>1. 2 * i + 1 \in 1 .. 2 * n /\ (2 * i + 1) % 2 = 1 /\ (2 * i + 1) \div 2 = i
      BY <1>1
    <3>2. s[2 * i + 1] = <<Tx(p), i>>
      BY <3>1 DEF SegmentQueues
    <3>3. QED BY <2>2, <2>3, <3>1, <3>2
  <2>4. CASE side = Opposite(Tx(p))
    <3>1. 2 * i + 2 \in 1 .. 2 * n /\ (2 * i + 2) % 2 # 1 /\ (2 * i + 2) \div 2 - 1 = i
      BY <1>1
    <3>2. s[2 * i + 2] = <<Opposite(Tx(p)), i>>
      BY <3>1 DEF SegmentQueues
    <3>3. QED BY <2>2, <2>4, <3>1, <3>2
  <2>5. QED BY <1>3, <2>3, <2>4
<1>6. s \in Seq(Names)
  <2>1. \A k \in 1 .. 2 * n : s[k] \in Names
    BY <1>4, NamesAre
  <2>2. QED BY <1>1, <2>1 DEF SegmentQueues
<1>7. QED BY <1>2, <1>4, <1>5, <1>6

LEMMA QueueIs ==
    ASSUME NameShapes, NEW n \in Names
    PROVE  /\ \A p \in Process : Queue(p, n) \in Queues
           /\ <<n, created[n]>> \in Queues
           /\ created[n] \in 0 .. MaxStops + 1
           /\ ~linked[n] => created[n] + 1 \in 0 .. MaxStops + 1
<1>1. created[n] \in Nat /\ stops \in Nat /\ stops <= MaxStops /\ MaxStops \in Nat /\ Created(n)
  BY BoundAssumption DEF NameShapes
<1>2. created[n] <= stops + (IF linked[n] THEN 1 ELSE 0)
  BY <1>1 DEF Created
<1>3. created[n] \in 0 .. MaxStops + 1 /\ (~linked[n] => created[n] + 1 \in 0 .. MaxStops + 1)
  BY <1>1, <1>2
<1>4. \A p \in Process : fd[p][n] \in 0 .. MaxStops + 1
  BY <1>1, <1>3 DEF NameShapes
<1>5. QED BY <1>3, <1>4 DEF Queue, Queues

\* Which queue is the next one to open, and what is left to open.
LEMMA OpenIs ==
    ASSUME NameShapes, ProcessShapes, NEW p \in Process, todo[p] # <<>>, Open(p)
    PROVE  \E n \in Names :
             /\ n \in ToOpen(p)
             /\ \A m \in Names : created'[m] = IF m = n /\ ~linked[n] THEN created[n] + 1
                                               ELSE created[m]
             /\ \A m \in Names : linked'[m] = (m = n \/ linked[m])
             /\ fd'[p][n] = created'[n]
             /\ \A r \in Process, m \in Names : r # p \/ m # n => fd'[r][m] = fd[r][m]
             /\ ToOpen(p)' \subseteq ToOpen(p) /\ ToOpen(p) \subseteq ToOpen(p)' \cup {n}
             /\ \A r \in Process : r # p => todo'[r] = todo[r]
             /\ created' \in [Names -> Nat] /\ linked' \in [Names -> BOOLEAN]
             /\ fd' \in [Process -> [Names -> Nat]] /\ todo' \in [Process -> Seq(Names)]
<1>1. PICK s : s = todo[p]
  OBVIOUS
<1>2. s \in Seq(Names) /\ s # <<>>
  BY <1>1 DEF ProcessShapes
<1>3. PICK n \in Names : n = Head(s)
  BY <1>2
<1>4. PICK q : q = IF linked[n] THEN created[n] ELSE created[n] + 1
  OBVIOUS
<1>5. /\ created' = [created EXCEPT ![n] = q] /\ linked' = [linked EXCEPT ![n] = TRUE]
      /\ fd' = [fd EXCEPT ![p][n] = q] /\ todo' = [todo EXCEPT ![p] = Tail(s)]
  BY <1>1, <1>3, <1>4 DEF Open
<1>6. created[n] \in Nat /\ linked[n] \in BOOLEAN /\ q \in Nat
  BY <1>4 DEF NameShapes
<1>7. /\ created' \in [Names -> Nat] /\ linked' \in [Names -> BOOLEAN]
      /\ fd' \in [Process -> [Names -> Nat]]
  BY <1>5, <1>6 DEF NameShapes
<1>8. /\ \A m \in Names : created'[m] = IF m = n THEN q ELSE created[m]
      /\ \A m \in Names : linked'[m] = (m = n \/ linked[m])
      /\ fd'[p][n] = q
      /\ \A r \in Process, m \in Names : r # p \/ m # n => fd'[r][m] = fd[r][m]
  BY <1>5, <1>6 DEF NameShapes
<1>9. Tail(s) \in Seq(Names) /\ Len(s) \in Nat /\ Len(s) >= 1
  BY <1>2
<1>10. /\ todo' \in [Process -> Seq(Names)] /\ todo'[p] = Tail(s)
       /\ \A r \in Process : r # p => todo'[r] = todo[r]
  BY <1>5, <1>9 DEF ProcessShapes
<1>11. {s[i] : i \in DOMAIN s} = {Tail(s)[i] : i \in DOMAIN Tail(s)} \cup {n}
  <2>1. DOMAIN s = 1 .. Len(s) /\ DOMAIN Tail(s) = 1 .. Len(s) - 1
    BY <1>2, <1>9
  <2>2. \A i \in 1 .. Len(s) - 1 : Tail(s)[i] = s[i + 1]
    BY <1>2, <1>9
  <2>3. \A i \in 1 .. Len(s) : i = 1 \/ (i - 1 \in 1 .. Len(s) - 1 /\ s[i] = Tail(s)[i - 1])
    BY <2>2, <1>9
  <2>4. \A i \in 1 .. Len(s) - 1 : i + 1 \in 1 .. Len(s)
    BY <1>9
  <2>5. n = s[1] /\ 1 \in 1 .. Len(s)
    BY <1>2, <1>3, <1>9
  <2>6. PICK t : t = Tail(s)
    OBVIOUS
  <2>7. \A i \in 1 .. Len(s) : s[i] = n \/ \E j \in 1 .. Len(s) - 1 : t[j] = s[i]
    BY <2>3, <2>5, <2>6
  <2>8. \A j \in 1 .. Len(s) - 1 : \E i \in 1 .. Len(s) : s[i] = t[j]
    BY <2>2, <2>4, <2>6
  <2>9. {s[i] : i \in 1 .. Len(s)} = {t[j] : j \in 1 .. Len(s) - 1} \cup {n}
    <3>1. \A e \in {s[i] : i \in 1 .. Len(s)} : e = n \/ \E j \in 1 .. Len(s) - 1 : t[j] = e
      BY <2>7
    <3>2. \A e \in {t[j] : j \in 1 .. Len(s) - 1} : e \in {s[i] : i \in 1 .. Len(s)}
      BY <2>8
    <3>3. n \in {s[i] : i \in 1 .. Len(s)}
      BY <2>5
    <3>4. QED BY <3>1, <3>2, <3>3
  <2>10. QED BY <2>1, <2>6, <2>9
<1>12. ToOpen(p) = {s[i] : i \in DOMAIN s} /\ ToOpen(p)' = {Tail(s)[i] : i \in DOMAIN Tail(s)}
  BY <1>1, <1>10 DEF ToOpen
<1>13. /\ n \in ToOpen(p) /\ ToOpen(p)' \subseteq ToOpen(p)
       /\ ToOpen(p) \subseteq ToOpen(p)' \cup {n}
  BY <1>11, <1>12
<1>14. \A m \in Names : created'[m] = IF m = n /\ ~linked[n] THEN created[n] + 1 ELSE created[m]
  BY <1>4, <1>8
<1>15. fd'[p][n] = created'[n]
  BY <1>8
<1>16. QED BY <1>7, <1>8, <1>10, <1>13, <1>14, <1>15

\* Sending and receiving touch one queue.
LEMMA SendIs ==
    ASSUME NameShapes, BoxShapes, NEW p \in Process, NEW n \in Names, NEW m \in Message,
           Send(p, n, m)
    PROVE  /\ box' \in [Queues -> Seq(Message)]
           /\ Len(box[Queue(p, n)]) < MqMaxMsg
           /\ box'[Queue(p, n)] = Append(box[Queue(p, n)], m)
           /\ \A q \in Queues : q # Queue(p, n) => box'[q] = box[q]
<1>1. PICK q : q = Queue(p, n)
  OBVIOUS
<1>2. q \in Queues
  BY <1>1, QueueIs
<1>3. box[q] \in Seq(Message) /\ box \in [Queues -> Seq(Message)]
  BY <1>2 DEF BoxShapes
<1>4. box' = [box EXCEPT ![q] = Append(box[q], m)] /\ Len(box[q]) < MqMaxMsg
  BY <1>1, <1>2, <1>3 DEF Send, Room
<1>5. Append(box[q], m) \in Seq(Message)
  BY <1>3
<1>6. QED BY <1>1, <1>2, <1>3, <1>4, <1>5

LEMMA ReceiveIs ==
    ASSUME NameShapes, BoxShapes, NEW p \in Process, NEW n \in Names, Receive(p, n)
    PROVE  /\ box' \in [Queues -> Seq(Message)]
           /\ box[Queue(p, n)] # <<>> /\ Received(p, n) = Head(box[Queue(p, n)])
           /\ Received(p, n) \in Message
           /\ box'[Queue(p, n)] = Tail(box[Queue(p, n)])
           /\ \A q \in Queues : q # Queue(p, n) => box'[q] = box[q]
<1>1. PICK q : q = Queue(p, n)
  OBVIOUS
<1>2. q \in Queues
  BY <1>1, QueueIs
<1>3. box[q] \in Seq(Message) /\ box \in [Queues -> Seq(Message)]
  BY <1>2 DEF BoxShapes
<1>4. box' = [box EXCEPT ![q] = Tail(box[q])] /\ box[q] # <<>>
  BY <1>1, <1>2, <1>3 DEF Receive
<1>5. Tail(box[q]) \in Seq(Message) /\ Head(box[q]) \in Message
  BY <1>3, <1>4
<1>6. QED BY <1>1, <1>2, <1>3, <1>4, <1>5 DEF Received

\* What a process that is gone leaves behind.
LEMMA GoneIs ==
    ASSUME NameShapes, ProcessShapes, NEW p \in Process, Gone(p)
    PROVE  /\ \A n \in Names : fd'[p][n] = 0
           /\ \A r \in Process : r # p => /\ fd'[r] = fd[r] /\ ctrl'[r] = ctrl[r]
                                          /\ todo'[r] = todo[r] /\ pc'[r] = pc[r]
           /\ ctrl'[p] = None /\ todo'[p] = <<>> /\ pc'[p] = "down"
           /\ fd' \in [Process -> [Names -> Nat]]
           /\ \A r \in Process : \A n \in Names : fd'[r][n] <= fd[r][n]
           /\ stale' \subseteq Queues
           /\ \A q \in stale' : \/ q \in stale
                                \/ /\ pc[p] \in {"serve", "stopping"}
                                   /\ q[1] \in Names /\ Has(p, q[1]) /\ q[2] = fd[p][q[1]]
<1>1. /\ fd' = [fd EXCEPT ![p] = NoQueues] /\ ctrl' = [ctrl EXCEPT ![p] = None]
      /\ todo' = [todo EXCEPT ![p] = <<>>] /\ pc' = [pc EXCEPT ![p] = "down"]
  BY DEF Gone
<1>2. NoQueues \in [Names -> Nat] /\ \A n \in Names : NoQueues[n] = 0
  BY DEF NoQueues
<1>3. /\ fd' \in [Process -> [Names -> Nat]] /\ fd'[p] = NoQueues
      /\ \A r \in Process : r # p => fd'[r] = fd[r]
  BY <1>1, <1>2 DEF NameShapes
<1>4. /\ ctrl'[p] = None /\ todo'[p] = <<>> /\ pc'[p] = "down"
      /\ \A r \in Process : r # p => ctrl'[r] = ctrl[r] /\ todo'[r] = todo[r] /\ pc'[r] = pc[r]
  BY <1>1 DEF ProcessShapes
<1>5. \A r \in Process : \A n \in Names : fd'[r][n] <= fd[r][n]
  <2>1. \A r \in Process : \A n \in Names : fd[r][n] \in Nat
    BY DEF NameShapes
  <2>2. QED BY <1>2, <1>3, <2>1
<1>6. \A n \in Names : Queue(p, n) \in Queues /\ Queue(p, n) = <<n, fd[p][n]>>
  BY QueueIs DEF Queue
<1>7. \A q \in stale' : \/ q \in stale
                        \/ pc[p] \in {"serve", "stopping"} /\ \E n \in Names : Has(p, n) /\ q = Queue(p, n)
  BY DEF Gone, Has
<1>8. \A q \in stale' : q \in stale \/ \/ /\ pc[p] \in {"serve", "stopping"}
                                          /\ q[1] \in Names /\ Has(p, q[1]) /\ q[2] = fd[p][q[1]]
  BY <1>6, <1>7
<1>9. stale' \subseteq Queues
  BY <1>6, <1>7 DEF NameShapes
<1>10. QED BY <1>2, <1>3, <1>4, <1>5, <1>8, <1>9

-----------------------------------------------------------------------------
(***************************************************************************)
(* The shapes.                                                             *)
(***************************************************************************)
LEMMA ChannelShapesInit == ChannelInit => ChannelShapes /\ OrderlyInv
<1> SUFFICES ASSUME ChannelInit PROVE ChannelShapes /\ OrderlyInv
  OBVIOUS
<1> USE DEF ChannelInit
<1>1. MaxStops \in Nat /\ MqMaxMsg \in Nat /\ 0 \in 0 .. MaxStops
  BY BoundAssumption
<1>2. \A p \in Process : /\ pc[p] = "down" /\ todo[p] = <<>> /\ ctrl[p] = None
                         /\ \A n \in Names : fd[p][n] = 0
  BY DEF NoQueues
<1>3. \A n \in Names : created[n] = 0 /\ linked[n] = FALSE /\ n \notin doomed /\ Created(n)
  BY <1>1 DEF Created
<1>4. fd \in [Process -> [Names -> Nat]]
  BY DEF NoQueues
<1>5. NameShapes
  BY <1>1, <1>2, <1>3, <1>4 DEF NameShapes
<1>6. BoxShapes
  <2>1. \A q \in Queues : box[q] = <<>>
    OBVIOUS
  <2>2. QED BY <1>1, <2>1 DEF BoxShapes
<1>7. ProcessShapes
  <2>1. /\ pc["proxy"] = "down" /\ pc["cache"] = "down" /\ confused = FALSE /\ orderly = TRUE
    BY <1>2 DEF Process
  <2>2. pc \in [Process -> {"down"}] /\ ctrl \in [Process -> {None}]
    OBVIOUS
  <2>3. todo \in [Process -> Seq(Names)]
    <3>1. <<>> \in Seq(Names)
      OBVIOUS
    <3>2. QED BY <3>1
  <2>4. QED BY <2>1, <2>2, <2>3 DEF ProcessShapes
<1>8. "proxy" \in Process /\ "cache" \in Process
  BY DEF Process
<1>9. Together
  BY <1>2, <1>8 DEF Together, Starting
<1>10. QueuesInUse
  BY <1>2, <1>3, <1>8 DEF QueuesInUse, Has, Widowed
<1>11. \A p \in Process : Opened(p)
  BY <1>2 DEF Opened, Has
<1>12. Messages
  BY <1>2, <1>3, <1>8, NamesAre DEF Messages
<1>13. QED BY <1>5, <1>6, <1>7, <1>9, <1>10, <1>11, <1>12 DEF ChannelShapes, OrderlyInv

\* Opening the next queue keeps the shapes.
LEMMA OpenShapes ==
    ASSUME ChannelShapes, NEW p \in Process, todo[p] # <<>>, Open(p),
           UNCHANGED <<doomed, box, pc, ctrl, confused, history>>
    PROVE  ChannelShapes'
<1> USE DEF ChannelShapes, history
<1>1. PICK n \in Names :
        /\ \A m \in Names : created'[m] = IF m = n /\ ~linked[n] THEN created[n] + 1 ELSE created[m]
        /\ \A m \in Names : linked'[m] = (m = n \/ linked[m])
        /\ fd'[p][n] = created'[n]
        /\ \A r \in Process, m \in Names : r # p \/ m # n => fd'[r][m] = fd[r][m]
        /\ created' \in [Names -> Nat] /\ linked' \in [Names -> BOOLEAN]
        /\ fd' \in [Process -> [Names -> Nat]] /\ todo' \in [Process -> Seq(Names)]
  BY OpenIs
<1>2. ASSUME NEW m \in Names PROVE Created(m)' /\ (linked'[m] => created'[m] # 0)
  <2>1. /\ created[m] \in Nat /\ stops \in Nat /\ Created(m) /\ linked[m] \in BOOLEAN
        /\ (linked[m] => created[m] # 0) /\ stops' = stops /\ doomed' = doomed
    BY BoundAssumption DEF NameShapes
  <2>2. CASE m = n /\ ~linked[n]
    BY <1>1, <2>1, <2>2 DEF Created
  <2>3. CASE ~(m = n /\ ~linked[n])
    BY <1>1, <2>1, <2>3 DEF Created
  <2>4. QED BY <2>2, <2>3
<1>3. \A m \in Names : created[m] \in Nat /\ created'[m] \in Nat /\ created[m] <= created'[m]
  <2> SUFFICES ASSUME NEW m \in Names
               PROVE  created[m] \in Nat /\ created'[m] \in Nat /\ created[m] <= created'[m]
    OBVIOUS
  <2>1. created[m] \in Nat /\ created'[m] \in Nat
    BY <1>1 DEF NameShapes
  <2>2. created'[m] = created[m] \/ created'[m] = created[m] + 1
    BY <1>1
  <2>3. QED BY <2>1, <2>2
<1>4. ASSUME NEW r \in Process, NEW m \in Names PROVE fd'[r][m] <= created'[m]
  <2>1. fd[r][m] \in Nat /\ fd[r][m] <= created[m]
    BY DEF NameShapes
  <2>2. CASE r = p /\ m = n
    BY <1>1, <1>3, <2>2
  <2>3. CASE ~(r = p /\ m = n)
    BY <1>1, <1>3, <2>1, <2>3
  <2>4. QED BY <2>2, <2>3
<1>5. NameShapes'
  BY <1>1, <1>2, <1>4 DEF NameShapes
<1>6. BoxShapes' /\ ProcessShapes'
  BY <1>1 DEF BoxShapes, ProcessShapes
<1>7. QED BY <1>5, <1>6

\* A message that fits is added to a queue of its own kind.
LEMMA SendShapes ==
    ASSUME ChannelShapes, NEW p \in Process, NEW n \in Names, NEW m \in Message, Send(p, n, m),
           n = ToProxy => m \in Handshakes
    PROVE  BoxShapes'
<1>1. /\ box' \in [Queues -> Seq(Message)] /\ Len(box[Queue(p, n)]) < MqMaxMsg
      /\ box'[Queue(p, n)] = Append(box[Queue(p, n)], m)
      /\ \A q \in Queues : q # Queue(p, n) => box'[q] = box[q]
  BY SendIs DEF ChannelShapes
<1>2. Queue(p, n) \in Queues /\ Queue(p, n)[1] = n
  BY QueueIs DEF ChannelShapes, Queue
<1>3. PICK s : s = box[Queue(p, n)]
  OBVIOUS
<1>4. s \in Seq(Message) /\ Len(s) < MqMaxMsg /\ MqMaxMsg \in Nat /\ Len(s) \in Nat
  BY <1>1, <1>2, <1>3, BoundAssumption DEF ChannelShapes, BoxShapes
<1>5. Len(Append(s, m)) <= MqMaxMsg
  BY <1>4
<1>6. n = ToProxy => Append(s, m) \in Seq(Handshakes)
  BY <1>2, <1>3 DEF ChannelShapes, BoxShapes
<1>7. ASSUME NEW q \in Queues
      PROVE  Len(box'[q]) <= MqMaxMsg /\ (q[1] = ToProxy => box'[q] \in Seq(Handshakes))
  <2>1. CASE q = Queue(p, n)
    BY <1>1, <1>2, <1>3, <1>5, <1>6, <2>1
  <2>2. CASE q # Queue(p, n)
    BY <1>1, <2>2 DEF ChannelShapes, BoxShapes
  <2>3. QED BY <2>1, <2>2
<1>8. QED BY <1>1, <1>7 DEF BoxShapes

LEMMA ReceiveShapes ==
    ASSUME ChannelShapes, NEW p \in Process, NEW n \in Names, Receive(p, n)
    PROVE  BoxShapes' /\ Received(p, n) \in Message /\ (n = ToProxy => Received(p, n) \in Handshakes)
<1>1. /\ box' \in [Queues -> Seq(Message)]
      /\ box[Queue(p, n)] # <<>> /\ Received(p, n) = Head(box[Queue(p, n)])
      /\ Received(p, n) \in Message
      /\ box'[Queue(p, n)] = Tail(box[Queue(p, n)])
      /\ \A q \in Queues : q # Queue(p, n) => box'[q] = box[q]
  BY ReceiveIs DEF ChannelShapes
<1>2. Queue(p, n) \in Queues /\ Queue(p, n)[1] = n
  BY QueueIs DEF ChannelShapes, Queue
<1>3. PICK s : s = box[Queue(p, n)]
  OBVIOUS
<1>4. s \in Seq(Message) /\ s # <<>> /\ Len(s) <= MqMaxMsg /\ MqMaxMsg \in Nat /\ Len(s) \in Nat
  BY <1>1, <1>2, <1>3, BoundAssumption DEF ChannelShapes, BoxShapes
<1>5. Len(Tail(s)) <= MqMaxMsg
  BY <1>4
<1>6. n = ToProxy => Tail(s) \in Seq(Handshakes) /\ Head(s) \in Handshakes
  <2>1. n = ToProxy => s \in Seq(Handshakes)
    BY <1>2, <1>3 DEF ChannelShapes, BoxShapes
  <2>2. QED BY <1>4, <2>1
<1>7. ASSUME NEW q \in Queues
      PROVE  Len(box'[q]) <= MqMaxMsg /\ (q[1] = ToProxy => box'[q] \in Seq(Handshakes))
  <2>1. CASE q = Queue(p, n)
    BY <1>1, <1>2, <1>3, <1>5, <1>6, <2>1
  <2>2. CASE q # Queue(p, n)
    BY <1>1, <2>2 DEF ChannelShapes, BoxShapes
  <2>3. QED BY <2>1, <2>2
<1>8. QED BY <1>1, <1>3, <1>6, <1>7 DEF BoxShapes

LEMMA ChannelShapesNext == ChannelShapes /\ [ChannelNext]_channelVars => ChannelShapes'
<1> SUFFICES ASSUME ChannelShapes, [ChannelNext]_channelVars PROVE ChannelShapes'
  OBVIOUS
<1> USE DEF ChannelShapes, history, names
<1>0. /\ "proxy" \in Process /\ "cache" \in Process
      /\ \A p \in Process : p = "proxy" \/ p = "cache"
  BY DEF Process
<1>1. ASSUME names' = names, doomed' = doomed, fd' = fd, stops' = stops, stale' = stale
      PROVE  NameShapes'
  BY <1>1 DEF NameShapes, Created
<1>2. ASSUME box' = box PROVE BoxShapes'
  BY <1>2 DEF BoxShapes
<1>3. ASSUME NEW p \in Process, OpenControl(p) PROVE ChannelShapes'
  <2>1. CASE todo[p] # <<>> /\ Open(p) /\ UNCHANGED pc
    BY <1>3, <2>1, OpenShapes DEF OpenControl
  <2>2. CASE pc' = [pc EXCEPT ![p] = "handshake"] /\ UNCHANGED <<names, todo, fd>>
    <3>1. NameShapes' /\ BoxShapes'
      BY <1>1, <1>2, <1>3, <2>2 DEF OpenControl
    <3>2. ProcessShapes'
      BY <1>0, <1>3, <2>2 DEF OpenControl, ProcessShapes
    <3>3. QED BY <3>1, <3>2
  <2>3. QED BY <1>3, <2>1, <2>2 DEF OpenControl
<1>4. ASSUME NEW p \in Process, CreateSegments(p) PROVE ChannelShapes'
  <2>1. CASE todo[p] # <<>> /\ Open(p) /\ UNCHANGED pc
    BY <1>4, <2>1, OpenShapes DEF CreateSegments
  <2>2. CASE pc' = [pc EXCEPT ![p] = "serve"] /\ UNCHANGED <<names, todo, fd>>
    <3>1. NameShapes' /\ BoxShapes'
      BY <1>1, <1>2, <1>4, <2>2 DEF CreateSegments
    <3>2. ProcessShapes'
      BY <1>0, <1>4, <2>2 DEF CreateSegments, ProcessShapes
    <3>3. QED BY <3>1, <3>2
  <2>3. QED BY <1>4, <2>1, <2>2 DEF CreateSegments
<1>5. ASSUME ProxySync PROVE ChannelShapes'
  <2>1. ctrl["proxy"] \in Options
    BY <1>5 DEF ProxySync, ProcessShapes
  <2>2. PICK m : m = Handshake(ctrl["proxy"])
    OBVIOUS
  <2>3. m \in Message /\ m \in Handshakes /\ Send("proxy", ToCache, m)
    BY <1>5, <2>1, <2>2 DEF ProxySync, Message, Handshakes, Handshake
  <2>4. BoxShapes'
    BY <1>0, <2>3, SendShapes, NamesAre
  <2>5. NameShapes'
    BY <1>1, <1>5 DEF ProxySync
  <2>6. ProcessShapes'
    BY <1>0, <1>5 DEF ProxySync, ProcessShapes
  <2>7. QED BY <2>4, <2>5, <2>6
<1>6. ASSUME ProxyReply PROVE ChannelShapes'
  <2>1. Receive("proxy", ToProxy)
    BY <1>6 DEF ProxyReply
  <2>2. BoxShapes' /\ Received("proxy", ToProxy) \in Handshakes
    BY <1>0, <2>1, ReceiveShapes, NamesAre
  <2>3. PICK n \in Options : n = Received("proxy", ToProxy).n
    BY <2>2 DEF Handshakes
  <2>4. NameShapes'
    BY <1>1, <1>6 DEF ProxyReply
  <2>5. SegmentQueues("proxy", n) \in Seq(Names)
    BY <1>0, SegmentQueuesAre
  <2>6. /\ ctrl' = [ctrl EXCEPT !["proxy"] = n]
        /\ todo' = [todo EXCEPT !["proxy"] = SegmentQueues("proxy", n)]
        /\ pc' = [pc EXCEPT !["proxy"] = "segments"]
        /\ UNCHANGED <<confused, orderly>>
    BY <1>6, <2>3 DEF ProxyReply
  <2>7. ProcessShapes'
    BY <1>0, <2>5, <2>6 DEF ProcessShapes
  <2>8. QED BY <2>2, <2>4, <2>7
<1>7. ASSUME CacheSync PROVE ChannelShapes'
  <2>1. Receive("cache", ToCache)
    BY <1>7 DEF CacheSync, CacheRx
  <2>2. BoxShapes' /\ Received("cache", ToCache) \in Message
    BY <1>0, <2>1, ReceiveShapes, NamesAre
  <2>3. PICK m : m = Received("cache", ToCache)
    OBVIOUS
  <2>4. NameShapes'
    BY <1>1, <1>7 DEF CacheSync
  <2>5. \/ /\ m.kind = "ctrl" /\ ctrl' = [ctrl EXCEPT !["cache"] = m.n]
           /\ pc' = [pc EXCEPT !["cache"] = "reply"]
        \/ /\ ctrl' = [ctrl EXCEPT !["cache"] = Garbled]
           /\ pc' = [pc EXCEPT !["cache"] = "lost"]
    BY <1>7, <2>3 DEF CacheSync, CacheRx
  <2>6. m.kind = "ctrl" => m.n \in Options
    BY <2>2, <2>3 DEF Message
  <2>7. UNCHANGED <<todo, confused, orderly>>
    BY <1>7 DEF CacheSync
  <2>8. ProcessShapes'
    BY <1>0, <2>5, <2>6, <2>7 DEF ProcessShapes
  <2>9. QED BY <2>2, <2>4, <2>8
<1>8. ASSUME CacheReply PROVE ChannelShapes'
  <2>1. ctrl["cache"] \in Options
    BY <1>8 DEF CacheReply, ProcessShapes
  <2>2. PICK m : m = Handshake(ctrl["cache"])
    OBVIOUS
  <2>3. m \in Message /\ m \in Handshakes /\ Send("cache", ToProxy, m)
    BY <1>8, <2>1, <2>2 DEF CacheReply, Message, Handshakes, Handshake
  <2>4. BoxShapes'
    BY <1>0, <2>3, SendShapes, NamesAre
  <2>5. NameShapes'
    BY <1>1, <1>8 DEF CacheReply
  <2>6. SegmentQueues("cache", ctrl["cache"]) \in Seq(Names)
    BY <1>0, <2>1, SegmentQueuesAre
  <2>7. PICK s : s = SegmentQueues("cache", ctrl["cache"])
    OBVIOUS
  <2>8. ProcessShapes'
    <3>1. /\ todo' = [todo EXCEPT !["cache"] = s] /\ pc' = [pc EXCEPT !["cache"] = "segments"]
          /\ UNCHANGED <<ctrl, confused, orderly>>
      BY <1>8, <2>7 DEF CacheReply
    <3>2. QED BY <1>0, <2>1, <2>6, <2>7, <3>1 DEF ProcessShapes
  <2>9. QED BY <2>4, <2>5, <2>8
<1>9. ASSUME TxRequest PROVE ChannelShapes'
  <2>1. ctrl["proxy"] \in Options
    BY <1>9 DEF TxRequest, ProcessShapes
  <2>2. PICK s \in 0 .. ctrl["proxy"] - 1 : Send("proxy", ToCache, [kind |-> "request", n |-> s])
    BY <1>9 DEF TxRequest
  <2>3. PICK m : m = [kind |-> "request", n |-> s]
    OBVIOUS
  <2>4. m \in Message /\ Send("proxy", ToCache, m)
    BY <2>1, <2>2, <2>3, NamesAre DEF Message
  <2>5. BoxShapes'
    BY <1>0, <2>4, SendShapes, NamesAre
  <2>6. NameShapes'
    BY <1>1, <1>9 DEF TxRequest
  <2>7. ProcessShapes'
    BY <1>9 DEF TxRequest, ProcessShapes
  <2>8. QED BY <2>5, <2>6, <2>7
<1>10. ASSUME RxRequest PROVE ChannelShapes'
  <2>1. Receive("cache", ToCache)
    BY <1>10 DEF RxRequest
  <2>2. BoxShapes'
    BY <1>0, <2>1, ReceiveShapes, NamesAre
  <2>3. NameShapes'
    BY <1>1, <1>10 DEF RxRequest
  <2>4. confused' \in BOOLEAN /\ UNCHANGED <<pc, todo, ctrl, orderly>>
    BY <1>10 DEF RxRequest
  <2>5. ProcessShapes'
    BY <2>4 DEF ProcessShapes
  <2>6. QED BY <2>2, <2>3, <2>5
<1>11. ASSUME NEW p \in Process, Start(p) PROVE ChannelShapes'
  <2>1. NameShapes' /\ BoxShapes'
    BY <1>1, <1>2, <1>11 DEF Start
  <2>2. PICK n \in Options : ctrl' = [ctrl EXCEPT ![p] = IF p = "proxy" THEN n ELSE None]
    BY <1>11 DEF Start
  <2>3. PICK s : s = IF p = "proxy" THEN <<ToCache, ToProxy>> ELSE <<ToProxy, ToCache>>
    OBVIOUS
  <2>4. s \in Seq(Names)
    BY <2>3, NamesAre
  <2>5. todo' = [todo EXCEPT ![p] = s] /\ pc' = [pc EXCEPT ![p] = "open"] /\ confused' = confused
    BY <1>11, <2>3 DEF Start
  <2>6. orderly' \in BOOLEAN
    BY <1>11 DEF Start
  <2>7. ProcessShapes'
    BY <1>0, <2>2, <2>4, <2>5, <2>6 DEF ProcessShapes
  <2>8. QED BY <2>1, <2>7
<1>12. ASSUME NEW p \in Process, Gone(p), names' = names, doomed' \subseteq doomed,
              stops' \in 0 .. MaxStops, stops <= stops'
       PROVE  NameShapes'
  <2>1. /\ fd' \in [Process -> [Names -> Nat]]
        /\ \A r \in Process : \A n \in Names : fd'[r][n] <= fd[r][n]
        /\ stale' \subseteq Queues
    BY <1>12, GoneIs
  <2>2. \A n \in Names : Created(n)'
    <3> SUFFICES ASSUME NEW n \in Names PROVE Created(n)'
      OBVIOUS
    <3>1. created[n] \in Nat /\ stops \in Nat /\ stops' \in Nat /\ Created(n)
      BY <1>12, BoundAssumption DEF NameShapes
    <3>2. QED BY <1>12, <3>1 DEF Created
  <2>3. \A r \in Process : \A n \in Names : fd'[r][n] <= created'[n]
    <3> SUFFICES ASSUME NEW r \in Process, NEW n \in Names PROVE fd'[r][n] <= created'[n]
      OBVIOUS
    <3>1. fd[r][n] \in Nat /\ created[n] \in Nat /\ fd[r][n] <= created[n] /\ fd'[r][n] \in Nat
      BY <2>1 DEF NameShapes
    <3>2. QED BY <1>12, <2>1, <3>1
  <2>4. QED BY <1>12, <2>1, <2>2, <2>3 DEF NameShapes
<1>13. ASSUME NEW p \in Process, Gone(p), confused' \in BOOLEAN, orderly' \in BOOLEAN
       PROVE  ProcessShapes'
  <2>1. <<>> \in Seq(Names)
    OBVIOUS
  <2>2. /\ ctrl' = [ctrl EXCEPT ![p] = None] /\ todo' = [todo EXCEPT ![p] = <<>>]
        /\ pc' = [pc EXCEPT ![p] = "down"]
    BY <1>13 DEF Gone
  <2>3. QED BY <1>0, <1>13, <2>1, <2>2 DEF ProcessShapes
<1>14. stops \in Nat /\ MaxStops \in Nat /\ stops <= MaxStops
  BY BoundAssumption DEF NameShapes
<1>15. ASSUME CacheStop PROVE ChannelShapes'
  <2>1. stops' \in 0 .. MaxStops /\ stops <= stops'
    BY <1>14, <1>15 DEF CacheStop
  <2>2. NameShapes'
    BY <1>0, <1>12, <1>15, <2>1 DEF CacheStop
  <2>3. Gone("cache") /\ confused' \in BOOLEAN /\ orderly' \in BOOLEAN /\ box' = box
    BY <1>15 DEF CacheStop
  <2>4. ProcessShapes' /\ BoxShapes'
    BY <1>0, <1>2, <1>13, <2>3
  <2>5. QED BY <2>2, <2>4
<1>16. ASSUME ProxyCrash PROVE ChannelShapes'
  <2>1. stops' \in 0 .. MaxStops /\ stops <= stops' /\ doomed' \subseteq doomed
    BY <1>14, <1>16 DEF ProxyCrash
  <2>2. NameShapes'
    BY <1>0, <1>12, <1>16, <2>1 DEF ProxyCrash
  <2>3. Gone("proxy") /\ confused' \in BOOLEAN /\ orderly' \in BOOLEAN /\ box' = box
    BY <1>16 DEF ProxyCrash, ProcessShapes
  <2>4. ProcessShapes' /\ BoxShapes'
    BY <1>0, <1>2, <1>13, <2>3
  <2>5. QED BY <2>2, <2>4
<1>17. ASSUME ProxySignal PROVE ChannelShapes'
  <2>1. stops' = stops + 1 /\ stops' \in 0 .. MaxStops
    BY <1>14, <1>17 DEF ProxySignal
  <2>2. doomed' \subseteq Names
    <3>1. PICK held : doomed' = ControlQueues \cup PoolQueues(held)
      BY <1>17 DEF ProxySignal
    <3>2. QED BY <3>1, NamesAre DEF ControlQueues, PoolQueues, SegmentsMade, Names
  <2>3. \A n \in Names : Created(n)'
    <3> SUFFICES ASSUME NEW n \in Names PROVE Created(n)'
      OBVIOUS
    <3>1. /\ created[n] \in Nat /\ Created(n) /\ linked[n] \in BOOLEAN
          /\ names' = names
      BY <1>17 DEF NameShapes, ProxySignal
    <3>2. QED BY <1>14, <2>1, <3>1 DEF Created
  <2>4. NameShapes'
    BY <1>17, <2>1, <2>2, <2>3 DEF ProxySignal, NameShapes
  <2>5. BoxShapes'
    BY <1>2, <1>17 DEF ProxySignal
  <2>6. ProcessShapes'
    <3>1. <<>> \in Seq(Names)
      OBVIOUS
    <3>2. orderly' \in BOOLEAN
      BY <1>17 DEF ProxySignal
    <3>3. /\ pc' = [pc EXCEPT !["proxy"] = "stopping"] /\ todo' = [todo EXCEPT !["proxy"] = <<>>]
          /\ UNCHANGED <<ctrl, confused>>
      BY <1>17 DEF ProxySignal
    <3>4. QED BY <1>0, <3>1, <3>2, <3>3 DEF ProcessShapes
  <2>7. QED BY <2>4, <2>5, <2>6
<1>18. ASSUME Unlink PROVE ChannelShapes'
  <2>1. CASE \E n \in doomed : /\ linked' = [linked EXCEPT ![n] = FALSE] /\ doomed' = doomed \ {n}
                               /\ UNCHANGED <<pc, todo, fd, ctrl, stale>>
    <3>1. PICK n \in doomed : /\ linked' = [linked EXCEPT ![n] = FALSE] /\ doomed' = doomed \ {n}
                              /\ UNCHANGED <<pc, todo, fd, ctrl, stale>>
      BY <2>1
    <3>2. UNCHANGED <<created, box, confused, stops, orderly>>
      BY <1>18 DEF Unlink
    <3>3. ASSUME NEW m \in Names PROVE Created(m)' /\ (linked'[m] => created'[m] # 0)
      <4>1. /\ created[m] \in Nat /\ Created(m) /\ linked[m] \in BOOLEAN
            /\ (linked[m] => created[m] # 0) /\ linked'[m] = (linked[m] /\ m # n)
        BY <3>1 DEF NameShapes
      <4>2. CASE m = n
        BY <1>14, <3>1, <3>2, <4>1, <4>2 DEF Created
      <4>3. CASE m # n
        BY <1>14, <3>1, <3>2, <4>1, <4>3 DEF Created
      <4>4. QED BY <4>2, <4>3
    <3>4. NameShapes'
      BY <3>1, <3>2, <3>3 DEF NameShapes
    <3>5. BoxShapes' /\ ProcessShapes'
      BY <1>2, <3>1, <3>2 DEF ProcessShapes
    <3>6. QED BY <3>4, <3>5
  <2>2. CASE doomed = {} /\ Gone("proxy") /\ UNCHANGED <<linked, doomed>>
    <3>1. UNCHANGED <<created, box, confused, stops, orderly>>
      BY <1>18 DEF Unlink
    <3>2. NameShapes'
      <4>1. stops' \in 0 .. MaxStops /\ stops <= stops' /\ names' = names /\ doomed' \subseteq doomed
        BY <1>14, <2>2, <3>1
      <4>2. QED BY <1>0, <1>12, <2>2, <4>1
    <3>3. ProcessShapes' /\ BoxShapes'
      <4>1. confused' \in BOOLEAN /\ orderly' \in BOOLEAN
        BY <3>1 DEF ProcessShapes
      <4>2. QED BY <1>0, <1>2, <1>13, <2>2, <3>1, <4>1
    <3>4. QED BY <3>2, <3>3
  <2>3. QED BY <1>18, <2>1, <2>2 DEF Unlink
<1>19. ASSUME UNCHANGED channelVars PROVE ChannelShapes'
  <2>1. NameShapes' /\ BoxShapes'
    BY <1>1, <1>2, <1>19 DEF channelVars
  <2>2. ProcessShapes'
    BY <1>19 DEF channelVars, ProcessShapes
  <2>3. QED BY <2>1, <2>2
<1>20. QED
  BY <1>3, <1>4, <1>5, <1>6, <1>7, <1>8, <1>9, <1>10, <1>11, <1>15, <1>16, <1>17, <1>18, <1>19
     DEF ChannelNext, ProcessStep

-----------------------------------------------------------------------------
(***************************************************************************)
(* Opening the next queue.                                                 *)
(***************************************************************************)
LEMMA ProcessesAre ==
    /\ "proxy" \in Process /\ "cache" \in Process
    /\ \A p \in Process : p = "proxy" \/ p = "cache"
BY DEF Process

\* The handler that stops, and the cache without its proxy, open nothing.
LEMMA OpeningIs ==
    ASSUME OrderlyInv, NEW p \in Process, pc[p] \in {"open", "segments"}
    PROVE  /\ pc["proxy"] # "stopping" /\ ~Widowed
           /\ \A r \in Process : \A m \in Names : Has(r, m) => linked[m] /\ fd[r][m] = created[m]
           /\ \A m \in ToOpen(p) : m \in Control <=> pc[p] = "open"
           /\ pc[p] = "open" => pc["cache"] \notin {"segments", "serve"}
<1>1. pc["proxy"] # "stopping" /\ ~Widowed
  BY ProcessesAre DEF OrderlyInv, Together, Starting, Widowed
<1>2. \A r \in Process : \A m \in Names : Has(r, m) => linked[m] /\ fd[r][m] = created[m]
  BY <1>1 DEF OrderlyInv, QueuesInUse
<1>3. pc[p] = "open" => ToOpen(p) \subseteq Control
  BY DEF OrderlyInv, Opened
<1>4. pc[p] = "segments" => ToOpen(p) \subseteq SegmentNames(ctrl[p])
  BY DEF OrderlyInv, Opened
<1>5. pc[p] = "segments" => \A m \in ToOpen(p) : m \notin Control
  <2>1. \A k : \A m \in SegmentNames(k) : m \notin Control
    BY DEF SegmentNames, Control, ToCache, ToProxy, Sides
  <2>2. QED BY <1>4, <2>1
<1>6. pc[p] = "open" => pc["cache"] \notin {"segments", "serve"}
  BY ProcessesAre DEF OrderlyInv, Together, Starting
<1>7. QED BY <1>1, <1>2, <1>3, <1>4, <1>5, <1>6

LEMMA OpenOrderly ==
    ASSUME ChannelShapes, ChannelShapes', OrderlyInv, NEW p \in Process,
           pc[p] \in {"open", "segments"}, todo[p] # <<>>, Open(p),
           UNCHANGED <<doomed, box, pc, ctrl, confused, history>>
    PROVE  OrderlyInv'
<1>1. PICK n \in Names :
        /\ n \in ToOpen(p)
        /\ \A m \in Names : created'[m] = IF m = n /\ ~linked[n] THEN created[n] + 1 ELSE created[m]
        /\ \A m \in Names : linked'[m] = (m = n \/ linked[m])
        /\ fd'[p][n] = created'[n]
        /\ \A r \in Process, m \in Names : r # p \/ m # n => fd'[r][m] = fd[r][m]
        /\ ToOpen(p)' \subseteq ToOpen(p) /\ ToOpen(p) \subseteq ToOpen(p)' \cup {n}
        /\ \A r \in Process : r # p => todo'[r] = todo[r]
  BY OpenIs DEF ChannelShapes
<1>2. /\ pc["proxy"] # "stopping" /\ ~Widowed
      /\ \A r \in Process : \A m \in Names : Has(r, m) => linked[m] /\ fd[r][m] = created[m]
      /\ n \in Control <=> pc[p] = "open"
      /\ pc[p] = "open" => pc["cache"] \notin {"segments", "serve"}
  BY <1>1, OpeningIs
<1>3. /\ pc' = pc /\ ctrl' = ctrl /\ box' = box /\ stale' = stale /\ confused' = confused
      /\ doomed' = doomed
  BY DEF history
<1>4. ~Widowed' /\ pc'["proxy"] # "stopping"
  BY <1>2, <1>3 DEF Widowed
<1>5. \A m \in Names : created[m] \in Nat /\ created'[m] \in Nat
  BY DEF ChannelShapes, NameShapes
<1>6. \A m \in Names : created'[m] = created[m] \/ (m = n /\ ~linked[n] /\ created'[m] = created[m] + 1)
  BY <1>1
<1>7. \A m \in Names : linked[m] => created'[m] = created[m] /\ linked'[m]
  BY <1>1
<1>8. \A m \in Names : /\ linked[m] => Now(m)' = Now(m)
                       /\ ~linked[m] /\ linked'[m] => Now(m)' = <<>>
  <2> SUFFICES ASSUME NEW m \in Names
               PROVE  /\ linked[m] => Now(m)' = Now(m)
                      /\ ~linked[m] /\ linked'[m] => Now(m)' = <<>>
    OBVIOUS
  <2>1. linked[m] => Now(m)' = Now(m)
    BY <1>3, <1>7 DEF Now
  <2>2. ASSUME ~linked[m], linked'[m] PROVE Now(m)' = <<>>
    <3>1. m = n /\ created'[m] = created[m] + 1
      BY <1>1, <2>2
    <3>2. <<m, created[m] + 1>> \in Queues
      BY <2>2, QueueIs DEF ChannelShapes, Queues
    <3>3. PICK q \in Queues : q = <<m, created[m] + 1>>
      BY <3>2
    <3>4. q[2] > created[q[1]]
      BY <1>5, <3>3
    <3>5. box[q] = <<>>
      BY <3>4 DEF OrderlyInv, Messages
    <3>6. QED BY <1>3, <3>1, <3>3, <3>5 DEF Now
  <2>3. QED BY <2>1, <2>2
<1>9. Together'
  BY <1>3 DEF OrderlyInv, Together
<1>10. QueuesInUse'
  <2>1. ASSUME NEW r \in Process, NEW m \in Names, Has(r, m)'
        PROVE  fd'[r][m] = created'[m] /\ linked'[m]
    <3>1. CASE r = p /\ m = n
      BY <1>1, <3>1
    <3>2. CASE ~(r = p /\ m = n)
      <4>1. fd'[r][m] = fd[r][m] /\ Has(r, m)
        BY <1>1, <2>1, <3>2 DEF Has
      <4>2. QED BY <1>2, <1>7, <4>1
    <3>3. QED BY <3>1, <3>2
  <2>2. ASSUME NEW q \in stale'
        PROVE  /\ q[2] # 0 /\ q[2] <= created'[q[1]]
               /\ q[2] = created'[q[1]] => ~linked'[q[1]]
    <3>1. PICK m \in Names, k \in Nat : q = <<m, k>>
      <4>1. q \in Queues
        BY <2>2 DEF ChannelShapes, NameShapes
      <4>2. QED BY <4>1, BoundAssumption DEF Queues
    <3>2. k # 0 /\ k <= created[m] /\ (k = created[m] => ~linked[m])
      BY <1>3, <2>2, <3>1 DEF OrderlyInv, QueuesInUse
    <3>3. k <= created'[m] /\ (k = created'[m] => ~linked'[m])
      <4>1. CASE created'[m] = created[m]
        <5>1. linked'[m] => linked[m]
          <6>1. ASSUME linked'[m], ~linked[m] PROVE FALSE
            <7>1. m = n
              BY <1>1, <6>1
            <7>2. created'[m] = created[m] + 1
              BY <1>1, <6>1, <7>1
            <7>3. QED BY <1>5, <4>1, <7>2
          <6>2. QED BY <6>1
        <5>2. QED BY <3>2, <4>1, <5>1
      <4>2. CASE created'[m] = created[m] + 1
        BY <1>5, <3>2, <4>2
      <4>3. QED BY <1>6, <4>1, <4>2
    <3>4. QED BY <3>1, <3>2, <3>3
  <2>3. QED BY <1>4, <2>1, <2>2 DEF QueuesInUse
<1>11. ASSUME NEW r \in Process PROVE Opened(r)'
  <2>1. Opened(r) /\ Opened(p)
    BY DEF OrderlyInv
  <2>2. CASE r # p
    <3>1. \A m \in Names : Has(r, m)' = Has(r, m)
      BY <1>1, <2>2 DEF Has
    <3>2. ToOpen(r)' = ToOpen(r)
      BY <1>1, <2>2 DEF ToOpen
    <3>3. SegmentNames(ctrl[r])' = SegmentNames(ctrl[r]) /\ pc'[r] = pc[r]
      BY <1>3 DEF SegmentNames
    <3>4. Control \subseteq Names
      BY NamesAre
    <3>5. ctrl[r] \in Options => SegmentNames(ctrl[r]) \subseteq Names
      BY NamesAre
    <3>6. pc[r] \in {"segments", "serve"} => ctrl[r] \in Options
      BY ProcessesAre DEF ChannelShapes, ProcessShapes
    <3>7. QED BY <2>1, <3>1, <3>2, <3>3, <3>4, <3>5, <3>6 DEF Opened
  <2>3. CASE r = p
    <3>1. \A m \in Names : Has(p, m) => Has(p, m)'
      BY <1>1, <1>2, <1>7 DEF Has
    <3>2. Has(p, n)'
      <4>1. linked'[n] /\ (linked'[n] => created'[n] # 0)
        BY <1>1 DEF ChannelShapes, NameShapes
      <4>2. QED BY <1>1, <4>1 DEF Has
    <3>3. \A m \in Names : Has(p, m)' => Has(p, m) \/ m = n
      BY <1>1 DEF Has
    <3>4. SegmentNames(ctrl[p])' = SegmentNames(ctrl[p]) /\ pc'[p] = pc[p]
      BY <1>3 DEF SegmentNames
    <3>5. CASE pc[p] = "open"
      <4>1. /\ \A m \in Names \ Control : ~Has(p, m)
            /\ \A m \in Control : Has(p, m) \/ m \in ToOpen(p)
            /\ ToOpen(p) \subseteq Control
        BY <2>1, <3>5 DEF Opened
      <4>2. n \in Control
        BY <1>2, <3>5
      <4>3. \A m \in Names \ Control : ~Has(p, m)'
        BY <3>3, <4>1, <4>2
      <4>4. \A m \in Control : Has(p, m)' \/ m \in ToOpen(p)'
        BY <1>1, <3>1, <3>2, <4>1, NamesAre
      <4>5. ToOpen(p)' \subseteq Control
        BY <1>1, <4>1
      <4>6. QED BY <2>3, <3>4, <3>5, <4>3, <4>4, <4>5 DEF Opened
    <3>6. CASE pc[p] = "segments"
      <4>1. ctrl[p] \in Options
        BY <3>6, ProcessesAre DEF ChannelShapes, ProcessShapes
      <4>2. PICK S : S = SegmentNames(ctrl[p])
        OBVIOUS
      <4>3. S \subseteq Names
        BY <4>1, <4>2, NamesAre
      <4>4. /\ \A m \in S : Has(p, m) \/ m \in ToOpen(p)
            /\ ToOpen(p) \subseteq S
            /\ \A m \in Control : Has(p, m)
            /\ \A m \in Names \ (Control \cup S) : ~Has(p, m)
        BY <2>1, <3>6, <4>2 DEF Opened
      <4>5. n \in S
        BY <1>1, <4>4
      <4>6. \A m \in S : Has(p, m)' \/ m \in ToOpen(p)'
        BY <1>1, <3>1, <3>2, <4>3, <4>4
      <4>7. ToOpen(p)' \subseteq S
        BY <1>1, <4>4
      <4>8. \A m \in Control : Has(p, m)'
        BY <3>1, <4>4, NamesAre
      <4>9. \A m \in Names \ (Control \cup S) : ~Has(p, m)'
        BY <3>3, <4>4, <4>5
      <4>10. QED BY <2>3, <3>4, <3>6, <4>2, <4>6, <4>7, <4>8, <4>9 DEF Opened
    <3>7. QED BY <3>5, <3>6
  <2>4. QED BY <2>2, <2>3
<1>12. Messages'
  <2>1. ASSUME NEW q \in Queues, q[2] > created'[q[1]] PROVE box'[q] = <<>>
    <3>1. PICK m \in Names, k \in Nat : q = <<m, k>>
      BY <2>1, BoundAssumption DEF Queues
    <3>2. k > created[m]
      BY <1>5, <1>6, <2>1, <3>1
    <3>3. box[q] = <<>>
      BY <3>1, <3>2 DEF OrderlyInv, Messages
    <3>4. QED BY <1>3, <3>3
  <2>2. \A m \in Control : m \in Names
    BY NamesAre
  <2>3. ASSUME pc["proxy"] \in Starting, pc["cache"] \in Starting, NEW m \in Control, linked'[m]
        PROVE  Now(m)' = <<>>
    <3>1. linked[m] => Now(m) = <<>>
      BY <2>3 DEF OrderlyInv, Messages
    <3>2. QED BY <1>8, <2>2, <2>3, <3>1
  <2>4. ASSUME NEW r \in Process, pc[r] \in {"reply", "segments", "serve"}, NEW m \in Control
        PROVE  Now(m)' = Now(m)
    <3>1. Has(r, m)
      BY <2>4 DEF OrderlyInv, Opened
    <3>2. QED BY <1>2, <1>8, <2>2, <3>1
  <2>5. ToCache \in Control /\ ToProxy \in Control
    BY NamesAre
  <2>6. pc["proxy"] \in {"reply", "segments", "serve"} \/ pc["cache"] \in {"reply", "segments", "serve"}
          => Now(ToCache)' = Now(ToCache) /\ Now(ToProxy)' = Now(ToProxy)
    BY <2>4, <2>5, ProcessesAre
  <2>8. pc["cache"] \in {"segments", "serve"} => Requests(Now(ToCache), ctrl["cache"])'
    <3>1. pc["cache"] \in {"segments", "serve"} => Requests(Now(ToCache), ctrl["cache"])
      BY DEF OrderlyInv, Messages
    <3>2. QED BY <1>3, <2>6, <3>1 DEF Requests
  <2>9. /\ pc["proxy"] = "reply" /\ pc["cache"] \in Starting =>
             Now(ToCache) = <<Handshake(ctrl["proxy"])>> /\ Now(ToProxy) = <<>>
        /\ pc["cache"] = "reply" => pc["proxy"] = "reply" /\ Now(ToCache) = <<>> /\ Now(ToProxy) = <<>>
        /\ pc["proxy"] = "reply" /\ pc["cache"] \in {"segments", "serve"} =>
             Now(ToProxy) = <<Handshake(ctrl["cache"])>>
        /\ pc["proxy"] \in {"reply", "segments", "serve"} /\ pc["cache"] \in {"reply", "segments", "serve"}
             => ctrl["cache"] = ctrl["proxy"]
        /\ ~confused
    BY DEF OrderlyInv, Messages
  <2>11. /\ Handshake(ctrl["proxy"])' = Handshake(ctrl["proxy"])
         /\ Handshake(ctrl["cache"])' = Handshake(ctrl["cache"])
    BY <1>3 DEF Handshake
  <2>12. QED BY <1>3, <2>1, <2>3, <2>6, <2>8, <2>9, <2>11 DEF Messages
<1>13. QED BY <1>9, <1>10, <1>11, <1>12 DEF OrderlyInv

-----------------------------------------------------------------------------
(***************************************************************************)
(* What the other steps leave alone.                                       *)
(***************************************************************************)
LEMMA QueuesStay ==
    ASSUME OrderlyInv, UNCHANGED <<names, fd, doomed, stale>>,
           pc'["proxy"] = "stopping" <=> pc["proxy"] = "stopping", Widowed' <=> Widowed
    PROVE  QueuesInUse'
BY DEF OrderlyInv, QueuesInUse, Has, names

LEMMA OpenedStays ==
    ASSUME ChannelShapes, NEW r \in Process, Opened(r),
           \A n \in Names : fd'[r][n] = fd[r][n], todo'[r] = todo[r], ctrl'[r] = ctrl[r],
           pc'[r] = pc[r]
    PROVE  Opened(r)'
<1>1. \A m \in Names : Has(r, m)' = Has(r, m)
  BY DEF Has
<1>2. ToOpen(r)' = ToOpen(r)
  BY DEF ToOpen
<1>3. SegmentNames(ctrl[r])' = SegmentNames(ctrl[r])
  BY DEF SegmentNames
<1>4. Control \subseteq Names
  BY NamesAre
<1>5. ctrl[r] \in Options => SegmentNames(ctrl[r]) \subseteq Names
  BY NamesAre
<1>6. pc[r] \in {"segments", "serve"} => ctrl[r] \in Options
  BY ProcessesAre DEF ChannelShapes, ProcessShapes
<1>7. QED BY <1>1, <1>2, <1>3, <1>4, <1>5, <1>6 DEF Opened

\* The next program counter of one process.
LEMMA PcIs ==
    ASSUME ProcessShapes, NEW p \in Process, NEW v, pc' = [pc EXCEPT ![p] = v]
    PROVE  pc'[p] = v /\ \A r \in Process : r # p => pc'[r] = pc[r]
BY DEF ProcessShapes

\* A process that sends or receives does it on the last queue of the name.
LEMMA LastQueue ==
    ASSUME NameShapes, OrderlyInv, NEW p \in Process, NEW n \in Names, Has(p, n)
    PROVE  /\ Queue(p, n) = <<n, created[n]>> /\ Queue(p, n) \in Queues
           /\ Now(n) = box[Queue(p, n)]
           /\ \A k \in Names : k # n => <<k, created[k]>> \in Queues /\ <<k, created[k]>> # Queue(p, n)
           /\ \A q \in Queues : q[2] > created[q[1]] => q # Queue(p, n)
<1>1. fd[p][n] = created[n] /\ created[n] \in Nat
  BY DEF OrderlyInv, QueuesInUse, NameShapes
<1>2. Queue(p, n) = <<n, created[n]>> /\ Queue(p, n) \in Queues
  BY <1>1, QueueIs DEF Queue
<1>3. \A k \in Names : k # n => <<k, created[k]>> \in Queues /\ <<k, created[k]>> # Queue(p, n)
  BY <1>2, QueueIs
<1>4. ASSUME NEW q \in Queues, q[2] > created[q[1]], q = Queue(p, n) PROVE FALSE
  BY <1>1, <1>2, <1>4
<1>5. QED BY <1>2, <1>3, <1>4 DEF Now

LEMMA SentNow ==
    ASSUME ChannelShapes, OrderlyInv, NEW p \in Process, NEW n \in Names, Has(p, n),
           NEW m \in Message, Send(p, n, m), created' = created
    PROVE  /\ Now(n)' = Append(Now(n), m) /\ Now(n) \in Seq(Message)
           /\ \A k \in Names : k # n => Now(k)' = Now(k)
           /\ \A q \in Queues : q[2] > created'[q[1]] => box'[q] = <<>>
<1>1. /\ box'[Queue(p, n)] = Append(box[Queue(p, n)], m)
      /\ \A q \in Queues : q # Queue(p, n) => box'[q] = box[q]
  BY SendIs DEF ChannelShapes
<1>2. /\ Queue(p, n) = <<n, created[n]>> /\ Queue(p, n) \in Queues
      /\ Now(n) = box[Queue(p, n)]
      /\ \A k \in Names : k # n => <<k, created[k]>> \in Queues /\ <<k, created[k]>> # Queue(p, n)
      /\ \A q \in Queues : q[2] > created[q[1]] => q # Queue(p, n)
  BY LastQueue DEF ChannelShapes
<1>3. Now(n)' = box'[<<n, created[n]>>] /\ \A k : Now(k)' = box'[<<k, created[k]>>]
  BY DEF Now
<1>4. Now(n)' = Append(Now(n), m) /\ Now(n) \in Seq(Message)
  BY <1>1, <1>2, <1>3 DEF ChannelShapes, BoxShapes
<1>5. \A k \in Names : k # n => Now(k)' = Now(k)
  BY <1>1, <1>2, <1>3 DEF Now
<1>6. \A q \in Queues : q[2] > created[q[1]] => box'[q] = <<>>
  BY <1>1, <1>2 DEF OrderlyInv, Messages
<1>7. QED BY <1>4, <1>5, <1>6

LEMMA ReceivedNow ==
    ASSUME ChannelShapes, OrderlyInv, NEW p \in Process, NEW n \in Names, Has(p, n),
           Receive(p, n), created' = created
    PROVE  /\ Now(n) # <<>> /\ Now(n) \in Seq(Message)
           /\ Now(n)' = Tail(Now(n)) /\ Received(p, n) = Head(Now(n))
           /\ \A k \in Names : k # n => Now(k)' = Now(k)
           /\ \A q \in Queues : q[2] > created'[q[1]] => box'[q] = <<>>
<1>1. /\ box[Queue(p, n)] # <<>> /\ Received(p, n) = Head(box[Queue(p, n)])
      /\ box'[Queue(p, n)] = Tail(box[Queue(p, n)])
      /\ \A q \in Queues : q # Queue(p, n) => box'[q] = box[q]
  BY ReceiveIs DEF ChannelShapes
<1>2. /\ Queue(p, n) = <<n, created[n]>> /\ Queue(p, n) \in Queues
      /\ Now(n) = box[Queue(p, n)]
      /\ \A k \in Names : k # n => <<k, created[k]>> \in Queues /\ <<k, created[k]>> # Queue(p, n)
      /\ \A q \in Queues : q[2] > created[q[1]] => q # Queue(p, n)
  BY LastQueue DEF ChannelShapes
<1>3. Now(n)' = box'[<<n, created[n]>>] /\ \A k : Now(k)' = box'[<<k, created[k]>>]
  BY DEF Now
<1>4. Now(n)' = Tail(Now(n)) /\ Now(n) \in Seq(Message)
  BY <1>1, <1>2, <1>3 DEF ChannelShapes, BoxShapes
<1>5. \A k \in Names : k # n => Now(k)' = Now(k)
  BY <1>1, <1>2, <1>3 DEF Now
<1>6. \A q \in Queues : q[2] > created[q[1]] => box'[q] = <<>>
  BY <1>1, <1>2 DEF OrderlyInv, Messages
<1>7. QED BY <1>1, <1>2, <1>4, <1>5, <1>6

\* Without a message sent or received.
LEMMA NothingSent ==
    ASSUME OrderlyInv, UNCHANGED <<created, box>>
    PROVE  /\ \A k : Now(k)' = Now(k)
           /\ \A q \in Queues : q[2] > created'[q[1]] => box'[q] = <<>>
BY DEF OrderlyInv, Messages, Now

-----------------------------------------------------------------------------
(***************************************************************************)
(* Starting and the handshake.                                             *)
(***************************************************************************)
LEMMA StartOrderly ==
    ASSUME ChannelShapes, OrderlyInv, NEW p \in Process, Start(p), orderly'
    PROVE  OrderlyInv'
<1>1. /\ pc[p] = "down" /\ ~Orphaned("cache") /\ pc["proxy"] # "stopping"
      /\ UNCHANGED <<names, doomed, box, fd, confused, stops, stale>>
  BY DEF Start
<1>2. pc'[p] = "open" /\ \A r \in Process : r # p => pc'[r] = pc[r]
  BY PcIs DEF Start, ChannelShapes
<1>3. PICK s : s = IF p = "proxy" THEN <<ToCache, ToProxy>> ELSE <<ToProxy, ToCache>>
  OBVIOUS
<1>4. todo'[p] = s /\ \A r \in Process : r # p => todo'[r] = todo[r] /\ ctrl'[r] = ctrl[r]
  BY <1>3 DEF Start, ChannelShapes, ProcessShapes
<1>5. ToOpen(p)' = Control
  <2>1. {s[i] : i \in DOMAIN s} = {ToCache, ToProxy}
    <3>1. CASE p = "proxy"
      BY <1>3, <3>1
    <3>2. CASE p # "proxy"
      BY <1>3, <3>2
    <3>3. QED BY <3>1, <3>2
  <2>2. QED BY <1>4, <2>1, NamesAre DEF ToOpen
<1>6. ~Widowed \/ p = "cache"
  <2>1. ASSUME Widowed, p = "proxy" PROVE FALSE
    <3>1. Has("cache", ToCache) /\ ~linked[ToCache]
      BY <2>1, ProcessesAre, NamesAre DEF OrderlyInv, Opened, QueuesInUse, Widowed
    <3>2. QED BY <1>1, <3>1, NamesAre DEF Orphaned, Has
  <2>2. QED BY <2>1, ProcessesAre
<1>7. ~Widowed /\ ~Widowed'
  BY <1>1, <1>2, <1>6, ProcessesAre DEF Widowed
<1>8. pc["cache"] \in Starting
        \/ (pc["proxy"] \in {"open", "handshake", "reply", "segments", "serve"} /\ p = "cache")
  BY <1>1, <1>7, ProcessesAre DEF OrderlyInv, Together, Widowed, Starting
<1>9. Together'
  BY <1>1, <1>2, <1>7, ProcessesAre DEF OrderlyInv, Together, Widowed, Starting
<1>10. QueuesInUse'
  BY <1>1, <1>2, <1>7, QueuesStay, ProcessesAre
<1>11. ASSUME NEW r \in Process PROVE Opened(r)'
  <2>1. CASE r = p
    <3>1. \A n \in Names : ~Has(p, n)
      BY <1>1 DEF OrderlyInv, Opened
    <3>2. \A n \in Names : ~Has(p, n)'
      BY <1>1, <3>1 DEF Has
    <3>3. QED BY <1>2, <1>5, <2>1, <3>2 DEF Opened
  <2>2. CASE r # p
    BY <1>1, <1>2, <1>4, <2>2, OpenedStays DEF OrderlyInv
  <2>3. QED BY <2>1, <2>2
<1>12. Messages'
  <2>1. /\ \A k : Now(k)' = Now(k)
        /\ \A q \in Queues : q[2] > created'[q[1]] => box'[q] = <<>>
    BY <1>1, NothingSent DEF names
  <2>2. p = "cache" => pc["proxy"] \in Starting \cup {"reply"}
    BY <1>1, <1>7, ProcessesAre DEF OrderlyInv, Together, Widowed, Starting
  <2>3. p = "proxy" => pc["cache"] \in Starting
    BY <1>8
  <2>4. linked' = linked /\ confused' = confused
    BY <1>1 DEF names
  <2>5. CASE p = "proxy"
    <3>1. pc'["proxy"] = "open" /\ pc'["cache"] = pc["cache"] /\ pc["proxy"] = "down"
      BY <1>1, <1>2, <2>5, ProcessesAre
    <3>2. \A n \in Control : linked[n] => Now(n) = <<>>
      BY <2>3, <2>5, <3>1 DEF OrderlyInv, Messages, Starting
    <3>3. QED BY <2>1, <2>3, <2>4, <2>5, <3>1, <3>2 DEF OrderlyInv, Messages, Starting
  <2>6. CASE p = "cache"
    <3>1. pc'["cache"] = "open" /\ pc'["proxy"] = pc["proxy"] /\ pc["cache"] = "down"
          /\ ctrl'["proxy"] = ctrl["proxy"]
      BY <1>1, <1>2, <1>4, <2>6, ProcessesAre
    <3>2. Handshake(ctrl["proxy"])' = Handshake(ctrl["proxy"])
      BY <3>1 DEF Handshake
    <3>3. /\ pc["proxy"] \in Starting => \A n \in Control : linked[n] => Now(n) = <<>>
          /\ pc["proxy"] = "reply" =>
               Now(ToCache) = <<Handshake(ctrl["proxy"])>> /\ Now(ToProxy) = <<>>
          /\ ~confused
      BY <3>1 DEF OrderlyInv, Messages, Starting
    <3>4. QED BY <2>1, <2>2, <2>4, <3>1, <3>2, <3>3 DEF Messages, Starting
  <2>7. QED BY <2>5, <2>6, ProcessesAre
<1>13. QED BY <1>9, <1>10, <1>11, <1>12 DEF OrderlyInv

LEMMA OpenControlOrderly ==
    ASSUME ChannelShapes, ChannelShapes', OrderlyInv, NEW p \in Process, OpenControl(p)
    PROVE  OrderlyInv'
<1>1. pc[p] = "open" /\ UNCHANGED <<doomed, box, ctrl, confused, history>>
  BY DEF OpenControl
<1>2. CASE todo[p] # <<>> /\ Open(p) /\ UNCHANGED pc
  BY <1>1, <1>2, OpenOrderly
<1>3. CASE todo[p] = <<>> /\ pc' = [pc EXCEPT ![p] = "handshake"] /\ UNCHANGED <<names, todo, fd>>
  <2>1. pc'[p] = "handshake" /\ \A r \in Process : r # p => pc'[r] = pc[r]
    BY <1>3, PcIs DEF ChannelShapes
  <2>2. \A r \in Process : pc'[r] = pc[r] \/ (pc[r] = "open" /\ pc'[r] = "handshake")
    BY <1>1, <2>1
  <2>3. Widowed' <=> Widowed
    BY <2>2, ProcessesAre DEF Widowed
  <2>4. Together'
    BY <2>2, ProcessesAre DEF OrderlyInv, Together, Starting
  <2>5. QueuesInUse'
    BY <1>1, <1>3, <2>2, <2>3, QueuesStay, ProcessesAre DEF history
  <2>6. ASSUME NEW r \in Process PROVE Opened(r)'
    <3>1. CASE r = p
      <4>1. ToOpen(p) = {}
        BY <1>3 DEF ToOpen
      <4>2. /\ \A n \in Names \ Control : ~Has(p, n)
            /\ \A n \in Control : Has(p, n)
        BY <1>1, <4>1 DEF OrderlyInv, Opened
      <4>3. \A n : Has(p, n)' = Has(p, n)
        BY <1>3 DEF Has
      <4>4. QED BY <2>1, <3>1, <4>2, <4>3 DEF Opened
    <3>2. CASE r # p
      BY <1>1, <1>3, <2>1, <3>2, OpenedStays DEF OrderlyInv
    <3>3. QED BY <3>1, <3>2
  <2>7. Messages'
    <3>1. /\ \A k : Now(k)' = Now(k)
          /\ \A q \in Queues : q[2] > created'[q[1]] => box'[q] = <<>>
      BY <1>1, <1>3, NothingSent DEF names
    <3>2. \A r \in Process : /\ pc'[r] \in Starting <=> pc[r] \in Starting
                             /\ \A v \in {"reply", "segments", "serve"} : pc'[r] = v <=> pc[r] = v
      BY <2>2 DEF Starting
    <3>3. linked' = linked /\ confused' = confused /\ ctrl' = ctrl
      BY <1>1, <1>3 DEF names
    <3>4. \A r : Handshake(ctrl[r])' = Handshake(ctrl[r])
      BY <3>3 DEF Handshake
    <3>5. Requests(Now(ToCache), ctrl["cache"])' = Requests(Now(ToCache), ctrl["cache"])
      BY <3>1, <3>3 DEF Requests
    <3>6. QED BY <3>1, <3>2, <3>3, <3>4, <3>5, ProcessesAre DEF OrderlyInv, Messages
  <2>8. QED BY <2>4, <2>5, <2>6, <2>7 DEF OrderlyInv
<1>4. QED BY <1>2, <1>3 DEF OpenControl

LEMMA CreateSegmentsOrderly ==
    ASSUME ChannelShapes, ChannelShapes', OrderlyInv, NEW p \in Process, CreateSegments(p)
    PROVE  OrderlyInv'
<1>1. pc[p] = "segments" /\ UNCHANGED <<doomed, box, ctrl, confused, history>>
  BY DEF CreateSegments
<1>2. CASE todo[p] # <<>> /\ Open(p) /\ UNCHANGED pc
  BY <1>1, <1>2, OpenOrderly
<1>3. CASE todo[p] = <<>> /\ pc' = [pc EXCEPT ![p] = "serve"] /\ UNCHANGED <<names, todo, fd>>
  <2>1. pc'[p] = "serve" /\ \A r \in Process : r # p => pc'[r] = pc[r]
    BY <1>3, PcIs DEF ChannelShapes
  <2>2. \A r \in Process : pc'[r] = pc[r] \/ (pc[r] = "segments" /\ pc'[r] = "serve")
    BY <1>1, <2>1
  <2>3. ~Widowed /\ ~Widowed'
    BY <1>1, <2>1, ProcessesAre DEF OrderlyInv, Together, Starting, Widowed
  <2>4. Together'
    BY <1>1, <2>1, <2>2, ProcessesAre DEF OrderlyInv, Together, Starting
  <2>5. QueuesInUse'
    BY <1>1, <1>3, <2>2, <2>3, QueuesStay, ProcessesAre DEF history
  <2>6. ASSUME NEW r \in Process PROVE Opened(r)'
    <3>1. CASE r = p
      <4>1. ToOpen(p) = {}
        BY <1>3 DEF ToOpen
      <4>2. ctrl[p] \in Options
        BY <1>1, ProcessesAre DEF ChannelShapes, ProcessShapes
      <4>3. PICK S : S = SegmentNames(ctrl[p])
        OBVIOUS
      <4>4. /\ \A n \in Control : Has(p, n)
            /\ \A n \in S : Has(p, n)
            /\ \A n \in Names \ (Control \cup S) : ~Has(p, n)
        BY <1>1, <4>1, <4>3 DEF OrderlyInv, Opened
      <4>5. \A n : Has(p, n)' = Has(p, n)
        BY <1>3 DEF Has
      <4>6. SegmentNames(ctrl[p])' = S
        BY <1>1, <4>3 DEF SegmentNames
      <4>7. QED BY <2>1, <3>1, <4>4, <4>5, <4>6 DEF Opened
    <3>2. CASE r # p
      BY <1>1, <1>3, <2>1, <3>2, OpenedStays DEF OrderlyInv
    <3>3. QED BY <3>1, <3>2
  <2>7. Messages'
    <3>1. /\ \A k : Now(k)' = Now(k)
          /\ \A q \in Queues : q[2] > created'[q[1]] => box'[q] = <<>>
      BY <1>1, <1>3, NothingSent DEF names
    <3>2. \A r \in Process : /\ pc'[r] \in Starting <=> pc[r] \in Starting
                             /\ pc'[r] = "reply" <=> pc[r] = "reply"
                             /\ pc'[r] \in {"segments", "serve"} <=> pc[r] \in {"segments", "serve"}
      BY <2>2 DEF Starting
    <3>3. linked' = linked /\ confused' = confused /\ ctrl' = ctrl
      BY <1>1, <1>3 DEF names
    <3>4. \A r : Handshake(ctrl[r])' = Handshake(ctrl[r])
      BY <3>3 DEF Handshake
    <3>5. Requests(Now(ToCache), ctrl["cache"])' = Requests(Now(ToCache), ctrl["cache"])
      BY <3>1, <3>3 DEF Requests
    <3>6. \A r \in Process : pc'[r] \in {"reply", "segments", "serve"}
                               <=> pc[r] \in {"reply", "segments", "serve"}
      BY <3>2
    <3>7. QED BY <3>1, <3>2, <3>3, <3>4, <3>5, <3>6, ProcessesAre DEF OrderlyInv, Messages
  <2>8. QED BY <2>4, <2>5, <2>6, <2>7 DEF OrderlyInv
<1>4. QED BY <1>2, <1>3 DEF CreateSegments

LEMMA ProxySyncOrderly ==
    ASSUME ChannelShapes, OrderlyInv, ProxySync
    PROVE  OrderlyInv'
<1>1. /\ pc["proxy"] = "handshake" /\ pc' = [pc EXCEPT !["proxy"] = "reply"]
      /\ Send("proxy", ToCache, Handshake(ctrl["proxy"]))
      /\ UNCHANGED <<names, doomed, todo, fd, ctrl, confused, history>>
  BY DEF ProxySync, Handshake
<1>2. pc'["proxy"] = "reply" /\ pc'["cache"] = pc["cache"]
  BY <1>1, PcIs, ProcessesAre DEF ChannelShapes
<1>3. pc["cache"] \in Starting
  BY <1>1 DEF OrderlyInv, Together
<1>4. ~Widowed /\ ~Widowed'
  BY <1>1, <1>2 DEF Widowed
<1>5. \A n \in Control : Has("proxy", n) /\ linked[n]
  BY <1>1, <1>4, NamesAre, ProcessesAre DEF OrderlyInv, Opened, QueuesInUse
<1>6. Now(ToCache) = <<>> /\ Now(ToProxy) = <<>>
  BY <1>1, <1>3, <1>5, NamesAre DEF OrderlyInv, Messages, Starting
<1>7. PICK m : m = Handshake(ctrl["proxy"])
  OBVIOUS
<1>8. m \in Message
  BY <1>1, <1>7 DEF ChannelShapes, ProcessShapes, Handshake, Message
<1>9. /\ Now(ToCache)' = Append(Now(ToCache), m)
      /\ \A k \in Names : k # ToCache => Now(k)' = Now(k)
      /\ \A q \in Queues : q[2] > created'[q[1]] => box'[q] = <<>>
  BY <1>1, <1>5, <1>7, <1>8, SentNow, NamesAre, ProcessesAre DEF names
<1>10. Now(ToCache)' = <<m>> /\ Now(ToProxy)' = <<>>
  BY <1>6, <1>9, NamesAre
<1>11. Together'
  BY <1>2, <1>3 DEF OrderlyInv, Together, Starting
<1>12. QueuesInUse'
  BY <1>1, <1>2, <1>4, QueuesStay DEF history
<1>13. Opened("cache")'
  BY <1>1, <1>2, OpenedStays, ProcessesAre DEF OrderlyInv
<1>14. Opened("proxy")'
  <2>1. /\ \A n \in Names \ Control : ~Has("proxy", n)
        /\ \A n \in Control : Has("proxy", n)
    BY <1>1, ProcessesAre DEF OrderlyInv, Opened
  <2>2. \A n : Has("proxy", n)' = Has("proxy", n)
    BY <1>1 DEF Has
  <2>3. QED BY <1>2, <2>1, <2>2 DEF Opened
<1>15. Messages'
  <2>1. Handshake(ctrl["proxy"])' = m /\ ~confused'
    BY <1>1, <1>7 DEF Handshake, OrderlyInv, Messages
  <2>2. QED BY <1>2, <1>3, <1>9, <1>10, <2>1 DEF Messages, Starting
<1>16. QED BY <1>11, <1>12, <1>13, <1>14, <1>15, ProcessesAre DEF OrderlyInv

LEMMA CacheSyncOrderly ==
    ASSUME ChannelShapes, OrderlyInv, CacheSync
    PROVE  OrderlyInv'
<1>1. /\ pc["cache"] = "handshake" /\ Receive("cache", ToCache)
      /\ UNCHANGED <<names, doomed, todo, fd, confused, history>>
  BY DEF CacheSync, CacheRx
<1>2. ~Widowed /\ pc["proxy"] # "stopping" /\ pc["proxy"] \in Starting \cup {"reply"}
  BY <1>1 DEF OrderlyInv, Together, Widowed
<1>3. \A n \in Control : Has("cache", n) /\ linked[n]
  BY <1>1, <1>2, NamesAre, ProcessesAre DEF OrderlyInv, Opened, QueuesInUse
<1>4. /\ Now(ToCache) # <<>> /\ Now(ToCache)' = Tail(Now(ToCache))
      /\ Received("cache", ToCache) = Head(Now(ToCache))
      /\ \A k \in Names : k # ToCache => Now(k)' = Now(k)
      /\ \A q \in Queues : q[2] > created'[q[1]] => box'[q] = <<>>
  BY <1>1, <1>3, ReceivedNow, NamesAre, ProcessesAre DEF names
<1>5. pc["proxy"] = "reply"
  <2>1. pc["proxy"] \in Starting => Now(ToCache) = <<>>
    BY <1>1, <1>3, NamesAre DEF OrderlyInv, Messages, Starting
  <2>2. QED BY <1>2, <1>4, <2>1
<1>6. Now(ToCache) = <<Handshake(ctrl["proxy"])>> /\ Now(ToProxy) = <<>>
  BY <1>1, <1>5 DEF OrderlyInv, Messages, Starting
<1>7. Now(ToCache)' = <<>> /\ Now(ToProxy)' = <<>> /\ Received("cache", ToCache) = Handshake(ctrl["proxy"])
  BY <1>4, <1>6, NamesAre
<1>8. /\ Received("cache", ToCache).kind = "ctrl"
      /\ Received("cache", ToCache).n = ctrl["proxy"]
  BY <1>7 DEF Handshake
<1>9. ctrl' = [ctrl EXCEPT !["cache"] = ctrl["proxy"]] /\ pc' = [pc EXCEPT !["cache"] = "reply"]
  BY <1>8 DEF CacheSync, CacheRx
<1>10. /\ pc'["cache"] = "reply" /\ pc'["proxy"] = "reply"
       /\ ctrl'["cache"] = ctrl["proxy"] /\ ctrl'["proxy"] = ctrl["proxy"]
  BY <1>5, <1>9, ProcessesAre DEF ChannelShapes, ProcessShapes
<1>11. Together'
  BY <1>10 DEF Together, Starting
<1>12. QueuesInUse'
  <2>1. ~Widowed'
    BY <1>10 DEF Widowed
  <2>2. QED BY <1>1, <1>2, <1>10, <2>1, QueuesStay DEF history
<1>13. Opened("proxy")'
  BY <1>1, <1>5, <1>10, OpenedStays, ProcessesAre DEF OrderlyInv
<1>14. Opened("cache")'
  <2>1. /\ \A n \in Names \ Control : ~Has("cache", n)
        /\ \A n \in Control : Has("cache", n)
    BY <1>1, ProcessesAre DEF OrderlyInv, Opened
  <2>2. \A n : Has("cache", n)' = Has("cache", n)
    BY <1>1 DEF Has
  <2>3. QED BY <1>10, <2>1, <2>2 DEF Opened
<1>15. Messages'
  <2>1. ~confused'
    BY <1>1 DEF OrderlyInv, Messages
  <2>2. QED BY <1>4, <1>7, <1>10, <2>1 DEF Messages, Starting
<1>16. QED BY <1>11, <1>12, <1>13, <1>14, <1>15, ProcessesAre DEF OrderlyInv

\* What a process has when it begins with its segments.
LEMMA SegmentsBegin ==
    ASSUME ChannelShapes, OrderlyInv, NEW p \in Process, pc[p] = "reply", pc'[p] = "segments",
           NEW n \in Options, ctrl'[p] = n, todo'[p] = SegmentQueues(p, n), fd' = fd
    PROVE  Opened(p)'
<1>1. /\ \A m \in Names \ Control : ~Has(p, m)
      /\ \A m \in Control : Has(p, m)
  BY DEF OrderlyInv, Opened
<1>2. \A m : Has(p, m)' = Has(p, m)
  BY DEF Has
<1>3. PICK S : S = SegmentNames(n)
  OBVIOUS
<1>4. ToOpen(p)' = S
  <2>1. {SegmentQueues(p, n)[i] : i \in DOMAIN SegmentQueues(p, n)} = S
    BY <1>3, SegmentQueuesAre
  <2>2. QED BY <2>1 DEF ToOpen
<1>5. SegmentNames(ctrl[p])' = S
  BY <1>3 DEF SegmentNames
<1>6. QED BY <1>1, <1>2, <1>4, <1>5 DEF Opened

LEMMA CacheReplyOrderly ==
    ASSUME ChannelShapes, OrderlyInv, CacheReply
    PROVE  OrderlyInv'
<1>1. /\ pc["cache"] = "reply" /\ pc' = [pc EXCEPT !["cache"] = "segments"]
      /\ Send("cache", ToProxy, Handshake(ctrl["cache"]))
      /\ todo' = [todo EXCEPT !["cache"] = SegmentQueues("cache", ctrl["cache"])]
      /\ UNCHANGED <<names, doomed, fd, ctrl, confused, history>>
  BY DEF CacheReply, Handshake
<1>2. /\ pc["proxy"] = "reply" /\ Now(ToCache) = <<>> /\ Now(ToProxy) = <<>>
      /\ ctrl["cache"] = ctrl["proxy"] /\ ~confused
  BY <1>1 DEF OrderlyInv, Messages
<1>3. pc'["cache"] = "segments" /\ pc'["proxy"] = "reply"
  BY <1>1, <1>2, PcIs, ProcessesAre DEF ChannelShapes
<1>4. ctrl["cache"] \in Options
  BY <1>1 DEF ChannelShapes, ProcessShapes
<1>5. /\ todo'["cache"] = SegmentQueues("cache", ctrl["cache"])
      /\ todo'["proxy"] = todo["proxy"]
  BY <1>1, ProcessesAre DEF ChannelShapes, ProcessShapes
<1>6. Has("cache", ToProxy)
  BY <1>1, NamesAre, ProcessesAre DEF OrderlyInv, Opened
<1>7. PICK m : m = Handshake(ctrl["cache"])
  OBVIOUS
<1>8. m \in Message
  BY <1>4, <1>7 DEF Handshake, Message
<1>9. /\ Now(ToProxy)' = Append(Now(ToProxy), m)
      /\ \A k \in Names : k # ToProxy => Now(k)' = Now(k)
      /\ \A q \in Queues : q[2] > created'[q[1]] => box'[q] = <<>>
  BY <1>1, <1>6, <1>7, <1>8, SentNow, NamesAre, ProcessesAre DEF names
<1>10. Now(ToProxy)' = <<m>> /\ Now(ToCache)' = <<>>
  BY <1>2, <1>9, NamesAre
<1>11. Together'
  BY <1>3 DEF Together, Starting
<1>12. QueuesInUse'
  <2>1. ~Widowed /\ ~Widowed'
    BY <1>2, <1>3 DEF Widowed
  <2>2. QED BY <1>1, <1>2, <1>3, <2>1, QueuesStay DEF history
<1>13. Opened("proxy")'
  BY <1>1, <1>2, <1>3, <1>5, OpenedStays, ProcessesAre DEF OrderlyInv
<1>14. Opened("cache")'
  BY <1>1, <1>3, <1>4, <1>5, SegmentsBegin, ProcessesAre
<1>15. Messages'
  <2>1. Handshake(ctrl["cache"])' = m
    BY <1>1, <1>7 DEF Handshake
  <2>2. Requests(Now(ToCache), ctrl["cache"])'
    BY <1>10 DEF Requests
  <2>3. QED BY <1>1, <1>2, <1>3, <1>9, <1>10, <2>1, <2>2 DEF Messages, Starting
<1>16. QED BY <1>11, <1>12, <1>13, <1>14, <1>15, ProcessesAre DEF OrderlyInv

LEMMA ProxyReplyOrderly ==
    ASSUME ChannelShapes, OrderlyInv, ProxyReply
    PROVE  OrderlyInv'
<1>1. /\ pc["proxy"] = "reply" /\ pc' = [pc EXCEPT !["proxy"] = "segments"]
      /\ Receive("proxy", ToProxy)
      /\ ctrl' = [ctrl EXCEPT !["proxy"] = Received("proxy", ToProxy).n]
      /\ todo' = [todo EXCEPT !["proxy"] = SegmentQueues("proxy", Received("proxy", ToProxy).n)]
      /\ UNCHANGED <<names, doomed, fd, confused, history>>
  BY DEF ProxyReply
<1>2. pc'["proxy"] = "segments" /\ pc'["cache"] = pc["cache"]
  BY <1>1, PcIs, ProcessesAre DEF ChannelShapes
<1>3. Has("proxy", ToProxy)
  BY <1>1, NamesAre, ProcessesAre DEF OrderlyInv, Opened
<1>4. /\ Now(ToProxy) # <<>> /\ Received("proxy", ToProxy) = Head(Now(ToProxy))
      /\ \A k \in Names : k # ToProxy => Now(k)' = Now(k)
      /\ \A q \in Queues : q[2] > created'[q[1]] => box'[q] = <<>>
  BY <1>1, <1>3, ReceivedNow, NamesAre, ProcessesAre DEF names
<1>5. pc["cache"] \in {"segments", "serve"}
  <2>1. pc["cache"] \in Starting \cup {"reply"} => Now(ToProxy) = <<>>
    BY <1>1 DEF OrderlyInv, Messages
  <2>2. QED BY <1>4, <2>1 DEF OrderlyInv, Together
<1>6. Now(ToProxy) = <<Handshake(ctrl["cache"])>> /\ Requests(Now(ToCache), ctrl["cache"]) /\ ~confused
  BY <1>1, <1>5 DEF OrderlyInv, Messages
<1>7. Received("proxy", ToProxy).n = ctrl["cache"]
  BY <1>4, <1>6 DEF Handshake
<1>8. ctrl["cache"] \in Options
  BY <1>5 DEF ChannelShapes, ProcessShapes
<1>9. /\ ctrl'["proxy"] = ctrl["cache"] /\ ctrl'["cache"] = ctrl["cache"]
      /\ todo'["proxy"] = SegmentQueues("proxy", ctrl["cache"])
      /\ todo'["cache"] = todo["cache"]
  BY <1>1, <1>7, ProcessesAre DEF ChannelShapes, ProcessShapes
<1>10. Together'
  BY <1>2, <1>5 DEF Together, Starting
<1>11. QueuesInUse'
  <2>1. ~Widowed /\ ~Widowed'
    BY <1>1, <1>2 DEF Widowed
  <2>2. QED BY <1>1, <1>2, <2>1, QueuesStay DEF history
<1>12. Opened("cache")'
  BY <1>1, <1>2, <1>9, OpenedStays, ProcessesAre DEF OrderlyInv
<1>13. Opened("proxy")'
  BY <1>1, <1>2, <1>8, <1>9, SegmentsBegin, ProcessesAre
<1>14. Messages'
  <2>1. Now(ToCache)' = Now(ToCache)
    BY <1>4, NamesAre
  <2>2. Requests(Now(ToCache), ctrl["cache"])'
    BY <1>6, <1>9, <2>1 DEF Requests
  <2>3. QED BY <1>1, <1>2, <1>4, <1>5, <1>6, <1>9, <2>2 DEF Messages, Starting
<1>15. QED BY <1>10, <1>11, <1>12, <1>13, <1>14, ProcessesAre DEF OrderlyInv

-----------------------------------------------------------------------------
(***************************************************************************)
(* Serving.                                                                *)
(***************************************************************************)
LEMMA TxRequestOrderly ==
    ASSUME ChannelShapes, OrderlyInv, TxRequest
    PROVE  OrderlyInv'
<1>1. /\ pc["proxy"] = "serve"
      /\ UNCHANGED <<names, pc, todo, doomed, fd, ctrl, confused, history>>
  BY DEF TxRequest
<1>2. /\ pc["cache"] \in {"segments", "serve"} /\ ctrl["cache"] = ctrl["proxy"]
      /\ Requests(Now(ToCache), ctrl["cache"]) /\ ~confused
  BY <1>1 DEF OrderlyInv, Together, Messages
<1>3. ctrl["proxy"] \in Options
  BY <1>1 DEF ChannelShapes, ProcessShapes
<1>4. PICK s \in 0 .. ctrl["proxy"] - 1 : Send("proxy", ToCache, [kind |-> "request", n |-> s])
  BY DEF TxRequest
<1>5. PICK m : m = [kind |-> "request", n |-> s]
  OBVIOUS
<1>6. m \in Message /\ m.kind = "request" /\ m.n < ctrl["proxy"]
  BY <1>3, <1>5, NamesAre DEF Message
<1>7. Has("proxy", ToCache)
  BY <1>1, NamesAre, ProcessesAre DEF OrderlyInv, Opened
<1>8. /\ Now(ToCache)' = Append(Now(ToCache), m) /\ Now(ToCache) \in Seq(Message)
      /\ \A q \in Queues : q[2] > created'[q[1]] => box'[q] = <<>>
  BY <1>1, <1>4, <1>5, <1>6, <1>7, SentNow, NamesAre, ProcessesAre DEF names
<1>9. Together'
  BY <1>1 DEF OrderlyInv, Together
<1>10. QueuesInUse'
  BY <1>1, QueuesStay DEF history, Widowed
<1>11. \A p \in Process : Opened(p)'
  BY <1>1, OpenedStays DEF OrderlyInv
<1>12. Requests(Now(ToCache), ctrl["cache"])'
  <2>1. PICK t : t = Now(ToCache)
    OBVIOUS
  <2>2. \A i \in DOMAIN Append(t, m) : Append(t, m)[i].kind = "request" /\ Append(t, m)[i].n < ctrl["cache"]
    <3>1. t \in Seq(Message) /\ \A i \in DOMAIN t : t[i].kind = "request" /\ t[i].n < ctrl["cache"]
      BY <1>2, <1>8, <2>1 DEF Requests
    <3>2. Len(t) \in Nat /\ DOMAIN t = 1 .. Len(t) /\ DOMAIN Append(t, m) = 1 .. Len(t) + 1
      BY <1>6, <3>1
    <3>3. \A i \in 1 .. Len(t) + 1 : IF i = Len(t) + 1 THEN Append(t, m)[i] = m
                                     ELSE i \in 1 .. Len(t) /\ Append(t, m)[i] = t[i]
      BY <1>6, <3>1, <3>2
    <3>4. QED BY <1>2, <1>6, <3>1, <3>2, <3>3
  <2>3. QED BY <1>1, <1>8, <2>1, <2>2 DEF Requests
<1>13. Messages'
  BY <1>1, <1>2, <1>8, <1>12 DEF Messages, Starting
<1>14. QED BY <1>9, <1>10, <1>11, <1>13 DEF OrderlyInv

LEMMA RxRequestOrderly ==
    ASSUME ChannelShapes, OrderlyInv, RxRequest
    PROVE  OrderlyInv'
<1>1. /\ pc["cache"] = "serve" /\ Receive("cache", ToCache)
      /\ UNCHANGED <<names, doomed, pc, todo, fd, ctrl, history>>
  BY DEF RxRequest
<1>2. Has("cache", ToCache)
  BY <1>1, NamesAre, ProcessesAre DEF OrderlyInv, Opened
<1>3. /\ Now(ToCache) # <<>> /\ Now(ToCache) \in Seq(Message) /\ Now(ToCache)' = Tail(Now(ToCache))
      /\ Received("cache", ToCache) = Head(Now(ToCache))
      /\ \A k \in Names : k # ToCache => Now(k)' = Now(k)
      /\ \A q \in Queues : q[2] > created'[q[1]] => box'[q] = <<>>
  BY <1>1, <1>2, ReceivedNow, NamesAre, ProcessesAre DEF names
<1>4. PICK t : t = Now(ToCache)
  OBVIOUS
<1>5. \A i \in DOMAIN t : t[i].kind = "request" /\ t[i].n < ctrl["cache"]
  BY <1>1, <1>4 DEF OrderlyInv, Messages, Requests
<1>6. /\ Len(t) \in Nat /\ Len(t) >= 1 /\ DOMAIN t = 1 .. Len(t) /\ DOMAIN Tail(t) = 1 .. Len(t) - 1
      /\ \A i \in 1 .. Len(t) - 1 : i + 1 \in 1 .. Len(t) /\ Tail(t)[i] = t[i + 1]
      /\ Head(t) = t[1] /\ 1 \in DOMAIN t
  BY <1>3, <1>4
<1>7. Head(t).kind = "request" /\ Head(t).n < ctrl["cache"]
  BY <1>5, <1>6
<1>8. ~confused'
  <2>1. Head(t).kind # "ctrl" /\ ~(Head(t).n >= ctrl["cache"])
    <3>1. Head(t) \in Message
      BY <1>3, <1>4
    <3>2. Head(t).n \in Nat
      BY <1>7, <3>1, NamesAre DEF Message
    <3>3. ctrl["cache"] \in Nat
      BY <1>1, NamesAre DEF ChannelShapes, ProcessShapes
    <3>4. QED BY <1>7, <3>2, <3>3
  <2>2. QED BY <1>3, <1>4, <2>1 DEF RxRequest
<1>9. Requests(Now(ToCache), ctrl["cache"])'
  <2>1. \A i \in DOMAIN Tail(t) : Tail(t)[i].kind = "request" /\ Tail(t)[i].n < ctrl["cache"]
    BY <1>5, <1>6
  <2>2. QED BY <1>1, <1>3, <1>4, <2>1 DEF Requests
<1>10. Together'
  BY <1>1 DEF OrderlyInv, Together
<1>11. QueuesInUse'
  BY <1>1, QueuesStay DEF history, Widowed
<1>12. \A p \in Process : Opened(p)'
  BY <1>1, OpenedStays DEF OrderlyInv
<1>13. Messages'
  <2>1. Now(ToProxy)' = Now(ToProxy)
    BY <1>3, NamesAre
  <2>2. \A r : Handshake(ctrl[r])' = Handshake(ctrl[r])
    BY <1>1 DEF Handshake
  <2>3. /\ pc["proxy"] = "reply" => Now(ToProxy) = <<Handshake(ctrl["cache"])>>
        /\ pc["proxy"] \in {"reply", "segments", "serve"} => ctrl["cache"] = ctrl["proxy"]
    BY <1>1 DEF OrderlyInv, Messages
  <2>4. QED BY <1>1, <1>3, <1>8, <1>9, <2>1, <2>2, <2>3 DEF Messages, Starting
<1>14. QED BY <1>10, <1>11, <1>12, <1>13 DEF OrderlyInv

-----------------------------------------------------------------------------
(***************************************************************************)
(* Ending.                                                                 *)
(***************************************************************************)
\* The queues of a process that ends have no name when they become stale.
LEMMA StaleAfter ==
    ASSUME NameShapes, ProcessShapes, OrderlyInv, NEW p \in Process, Gone(p), UNCHANGED names,
           pc[p] \in {"serve", "stopping"} => \A n \in Names : Has(p, n) => ~linked[n]
    PROVE  \A q \in stale' : /\ q[2] # 0 /\ q[2] <= created'[q[1]]
                             /\ q[2] = created'[q[1]] => ~linked'[q[1]]
<1> SUFFICES ASSUME NEW q \in stale'
             PROVE  /\ q[2] # 0 /\ q[2] <= created[q[1]]
                    /\ q[2] = created[q[1]] => ~linked[q[1]]
  BY DEF names
<1>1. \/ q \in stale
      \/ /\ pc[p] \in {"serve", "stopping"}
         /\ q[1] \in Names /\ Has(p, q[1]) /\ q[2] = fd[p][q[1]]
  BY GoneIs
<1>2. CASE q \in stale
  BY <1>2 DEF OrderlyInv, QueuesInUse
<1>3. CASE pc[p] \in {"serve", "stopping"} /\ q[1] \in Names /\ Has(p, q[1]) /\ q[2] = fd[p][q[1]]
  <2>1. PICK n \in Names : n = q[1]
    BY <1>3
  <2>2. fd[p][n] = created[n] /\ fd[p][n] # 0 /\ ~linked[n] /\ created[n] \in Nat
    BY <1>3, <2>1 DEF OrderlyInv, QueuesInUse, Has, NameShapes
  <2>3. QED BY <1>3, <2>1, <2>2
<1>4. QED BY <1>1, <1>2, <1>3

LEMMA CacheStopOrderly ==
    ASSUME ChannelShapes, OrderlyInv, CacheStop, orderly'
    PROVE  OrderlyInv'
<1>1. /\ Gone("cache") /\ ~confused' /\ pc["proxy"] = "down"
      /\ UNCHANGED <<names, box, doomed>>
  BY DEF CacheStop
<1>2. /\ \A n \in Names : fd'["cache"][n] = 0
      /\ fd'["proxy"] = fd["proxy"] /\ ctrl'["proxy"] = ctrl["proxy"]
      /\ todo'["proxy"] = todo["proxy"] /\ pc'["proxy"] = "down" /\ pc'["cache"] = "down"
  BY <1>1, GoneIs, ProcessesAre DEF ChannelShapes
<1>3. pc["cache"] \in Starting \cup {"serve"}
  BY <1>1 DEF OrderlyInv, Together
<1>4. \A n \in Names : ~Has("proxy", n)
  BY <1>1, ProcessesAre DEF OrderlyInv, Opened
<1>5. \A p \in Process : \A n \in Names : ~Has(p, n)'
  BY <1>2, <1>4, ProcessesAre DEF Has
<1>6. pc["cache"] = "serve" => \A n \in Names : Has("cache", n) => ~linked[n]
  BY <1>1 DEF OrderlyInv, QueuesInUse, Widowed
<1>7. Together'
  BY <1>2 DEF Together, Starting
<1>8. QueuesInUse'
  <2>1. \A q \in stale' : /\ q[2] # 0 /\ q[2] <= created'[q[1]]
                          /\ q[2] = created'[q[1]] => ~linked'[q[1]]
    BY <1>1, <1>3, <1>6, StaleAfter, ProcessesAre DEF ChannelShapes, Starting
  <2>2. ~Widowed' /\ pc'["proxy"] # "stopping"
    BY <1>2 DEF Widowed
  <2>3. QED BY <1>5, <2>1, <2>2 DEF QueuesInUse
<1>9. \A p \in Process : Opened(p)'
  BY <1>2, <1>5, ProcessesAre DEF Opened
<1>10. Messages'
  <2>1. /\ \A k : Now(k)' = Now(k)
        /\ \A q \in Queues : q[2] > created'[q[1]] => box'[q] = <<>>
    BY <1>1, NothingSent DEF names
  <2>2. ASSUME NEW n \in Control, linked[n] PROVE Now(n) = <<>>
    <3>1. CASE pc["cache"] \in Starting
      BY <1>1, <2>2, <3>1 DEF OrderlyInv, Messages, Starting
    <3>2. CASE pc["cache"] = "serve"
      <4>1. Has("cache", n) /\ n \in Names
        BY <3>2, NamesAre, ProcessesAre DEF OrderlyInv, Opened
      <4>2. QED BY <1>6, <2>2, <3>2, <4>1
    <3>3. QED BY <1>3, <3>1, <3>2
  <2>3. linked' = linked
    BY <1>1 DEF names
  <2>4. QED BY <1>1, <1>2, <2>1, <2>2, <2>3 DEF Messages
<1>11. QED BY <1>7, <1>8, <1>9, <1>10 DEF OrderlyInv

LEMMA ProxySignalOrderly ==
    ASSUME ChannelShapes, OrderlyInv, ProxySignal, orderly'
    PROVE  OrderlyInv'
<1>1. /\ pc["proxy"] \notin {"down", "stopping"} /\ pc' = [pc EXCEPT !["proxy"] = "stopping"]
      /\ todo' = [todo EXCEPT !["proxy"] = <<>>]
      /\ UNCHANGED <<names, box, fd, ctrl, confused, stale>>
  BY DEF ProxySignal
<1>2. PICK held : InOrder(held) /\ doomed' = ControlQueues \cup PoolQueues(held)
  BY DEF ProxySignal
<1>3. pc'["proxy"] = "stopping" /\ pc'["cache"] = pc["cache"] /\ todo'["cache"] = todo["cache"]
  BY <1>1, ProcessesAre DEF ChannelShapes, ProcessShapes
<1>4. pc["cache"] \in {"down", "serve"}
  BY <1>2 DEF InOrder
<1>5. Together'
  BY <1>3, <1>4 DEF Together, Starting
<1>6. ~Widowed /\ ~Widowed'
  BY <1>1, <1>3 DEF Widowed
<1>7. ASSUME NEW n \in Names, n \in Control \/ \E p \in Process : Has(p, n)
      PROVE  n \in doomed'
  <2>1. CASE n \in Control
    BY <1>2, <2>1, NamesAre DEF ControlQueues
  <2>2. CASE n \notin Control /\ pc["cache"] = "down"
    <3>1. pc["proxy"] \in {"open", "handshake", "reply"}
      BY <1>1, <2>2 DEF OrderlyInv, Together, Starting
    <3>2. \A p \in Process : ~Has(p, n)
      BY <2>2, <3>1, ProcessesAre DEF OrderlyInv, Opened
    <3>3. QED BY <1>7, <2>2, <3>2
  <2>3. CASE n \notin Control /\ pc["cache"] = "serve"
    <3>1. pc["proxy"] = "serve" /\ held = {}
      BY <1>2, <2>3 DEF InOrder
    <3>2. ctrl["cache"] = ctrl["proxy"] /\ ctrl["proxy"] \in Options
      BY <2>3, <3>1 DEF OrderlyInv, Messages, ChannelShapes, ProcessShapes
    <3>3. n \in SegmentNames(ctrl["proxy"])
      BY <1>7, <2>3, <3>1, <3>2, ProcessesAre DEF OrderlyInv, Opened
    <3>4. PICK side \in Sides, i \in 0 .. ctrl["proxy"] - 1 : n = <<side, i>>
      BY <3>3 DEF SegmentNames
    <3>5. \A z \in Sides : <<z, i>> \in SegmentNames(ctrl["proxy"])
      BY <3>4 DEF SegmentNames
    <3>6. \A z \in Sides : Has("proxy", <<z, i>>)
      BY <3>1, <3>5, ProcessesAre DEF OrderlyInv, Opened
    <3>7. i \in Request
      BY <3>2, <3>4, NamesAre
    <3>8. i \in SegmentsMade
      BY <3>6, <3>7 DEF SegmentsMade, Has
    <3>9. QED BY <1>2, <3>1, <3>4, <3>8 DEF PoolQueues
  <2>4. QED BY <1>4, <2>1, <2>2, <2>3
<1>8. QueuesInUse'
  <2>1. \A p \in Process : \A n \in Names : Has(p, n)' = Has(p, n)
    BY <1>1 DEF Has
  <2>2. created' = created /\ linked' = linked /\ fd' = fd /\ stale' = stale
    BY <1>1 DEF names
  <2>3. \A p \in Process : \A n \in Names : Has(p, n)' => fd'[p][n] = created'[n]
    BY <2>1, <2>2 DEF OrderlyInv, QueuesInUse
  <2>4. \A q \in stale' : /\ q[2] # 0 /\ q[2] <= created'[q[1]]
                          /\ q[2] = created'[q[1]] => ~linked'[q[1]]
    BY <2>2 DEF OrderlyInv, QueuesInUse
  <2>5. QED BY <1>3, <1>6, <1>7, <2>1, <2>3, <2>4 DEF QueuesInUse
<1>9. Opened("cache")'
  BY <1>1, <1>3, OpenedStays, ProcessesAre DEF OrderlyInv
<1>10. Opened("proxy")'
  BY <1>3 DEF Opened
<1>11. Messages'
  <2>1. /\ \A k : Now(k)' = Now(k)
        /\ \A q \in Queues : q[2] > created'[q[1]] => box'[q] = <<>>
    BY <1>1, NothingSent DEF names
  <2>2. pc["cache"] = "serve" => Requests(Now(ToCache), ctrl["cache"])'
    <3>1. pc["cache"] = "serve" => Requests(Now(ToCache), ctrl["cache"])
      BY DEF OrderlyInv, Messages
    <3>2. QED BY <1>1, <2>1, <3>1 DEF Requests
  <2>3. ~confused'
    BY <1>1 DEF OrderlyInv, Messages
  <2>4. QED BY <1>3, <1>4, <2>1, <2>2, <2>3 DEF Messages, Starting
<1>12. QED BY <1>5, <1>8, <1>9, <1>10, <1>11, ProcessesAre DEF OrderlyInv

LEMMA UnlinkOrderly ==
    ASSUME ChannelShapes, OrderlyInv, Unlink
    PROVE  OrderlyInv'
<1>1. pc["proxy"] = "stopping" /\ UNCHANGED <<created, box, confused, stops, orderly>>
  BY DEF Unlink
<1>2. /\ \A k : Now(k)' = Now(k)
      /\ \A q \in Queues : q[2] > created'[q[1]] => box'[q] = <<>>
  BY <1>1, NothingSent
<1>3. pc["cache"] \in {"down", "serve"}
  BY <1>1 DEF OrderlyInv, Together
<1>4. pc["cache"] = "serve" => Requests(Now(ToCache), ctrl["cache"])
  BY DEF OrderlyInv, Messages
<1>5. ~confused'
  BY <1>1 DEF OrderlyInv, Messages
<1>6. CASE \E n \in doomed : /\ linked' = [linked EXCEPT ![n] = FALSE] /\ doomed' = doomed \ {n}
                             /\ UNCHANGED <<pc, todo, fd, ctrl, stale>>
  <2>1. PICK n \in doomed : /\ linked' = [linked EXCEPT ![n] = FALSE] /\ doomed' = doomed \ {n}
                            /\ UNCHANGED <<pc, todo, fd, ctrl, stale>>
    BY <1>6
  <2>2. \A m \in Names : linked'[m] => linked[m] /\ m # n
    BY <2>1 DEF ChannelShapes, NameShapes
  <2>3. Together'
    BY <2>1 DEF OrderlyInv, Together
  <2>4. QueuesInUse'
    <3>1. \A p \in Process : \A m \in Names : Has(p, m)' = Has(p, m)
      BY <2>1 DEF Has
    <3>2. pc'["proxy"] = "stopping" /\ ~Widowed'
      BY <1>1, <2>1 DEF Widowed
    <3>3. \A p \in Process : \A m \in Names : Has(p, m)' => fd'[p][m] = created'[m]
      BY <1>1, <2>1, <3>1 DEF OrderlyInv, QueuesInUse
    <3>4. \A m \in Names : linked'[m] /\ (m \in Control \/ \E p \in Process : Has(p, m)') => m \in doomed'
      BY <1>1, <2>1, <2>2, <3>1 DEF OrderlyInv, QueuesInUse
    <3>5. \A q \in stale' : /\ q[2] # 0 /\ q[2] <= created'[q[1]]
                            /\ q[2] = created'[q[1]] => ~linked'[q[1]]
      <4>1. \A q \in stale : q[1] \in Names
        BY DEF ChannelShapes, NameShapes, Queues
      <4>2. QED BY <1>1, <2>1, <2>2, <4>1 DEF OrderlyInv, QueuesInUse
    <3>6. QED BY <3>2, <3>3, <3>4, <3>5 DEF QueuesInUse
  <2>5. \A p \in Process : Opened(p)'
    BY <2>1, OpenedStays DEF OrderlyInv
  <2>6. Messages'
    <3>1. pc["cache"] = "serve" => Requests(Now(ToCache), ctrl["cache"])'
      BY <1>2, <1>4, <2>1 DEF Requests
    <3>2. QED BY <1>1, <1>2, <1>3, <1>5, <2>1, <3>1 DEF Messages, Starting
  <2>7. QED BY <2>3, <2>4, <2>5, <2>6 DEF OrderlyInv
<1>7. CASE doomed = {} /\ Gone("proxy") /\ UNCHANGED <<linked, doomed>>
  <2>1. /\ \A n \in Names : fd'["proxy"][n] = 0
        /\ fd'["cache"] = fd["cache"] /\ ctrl'["cache"] = ctrl["cache"]
        /\ todo'["cache"] = todo["cache"] /\ pc'["cache"] = pc["cache"] /\ pc'["proxy"] = "down"
    BY <1>7, GoneIs, ProcessesAre DEF ChannelShapes
  <2>2. \A n \in Names : n \in Control \/ (\E p \in Process : Has(p, n)) => ~linked[n]
    BY <1>1, <1>7 DEF OrderlyInv, QueuesInUse
  <2>3. Together'
    BY <1>3, <2>1 DEF Together, Starting
  <2>4. QueuesInUse'
    <3>1. UNCHANGED names
      BY <1>1, <1>7 DEF names
    <3>2. \A q \in stale' : /\ q[2] # 0 /\ q[2] <= created'[q[1]]
                            /\ q[2] = created'[q[1]] => ~linked'[q[1]]
      <4>1. \A n \in Names : Has("proxy", n) => ~linked[n]
        BY <2>2, ProcessesAre
      <4>2. QED BY <1>7, <3>1, <4>1, StaleAfter, ProcessesAre DEF ChannelShapes
    <3>3. \A n \in Names : ~Has("proxy", n)' /\ (Has("cache", n)' <=> Has("cache", n))
      BY <2>1 DEF Has
    <3>4. \A n \in Names : Has("cache", n) => fd["cache"][n] = created[n] /\ pc["cache"] = "serve"
      BY <1>3, ProcessesAre DEF OrderlyInv, QueuesInUse, Opened
    <3>5. \A p \in Process : \A n \in Names : Has(p, n)' => fd'[p][n] = created'[n] /\ Widowed'
      BY <2>1, <3>1, <3>3, <3>4, ProcessesAre DEF Widowed, names
    <3>6. \A n \in Names : Has("cache", n)' => ~linked'[n]
      BY <1>7, <2>2, <3>3, ProcessesAre
    <3>7. QED BY <2>1, <3>2, <3>5, <3>6 DEF QueuesInUse
  <2>5. Opened("cache")'
    BY <2>1, OpenedStays, ProcessesAre DEF OrderlyInv
  <2>6. Opened("proxy")'
    BY <2>1 DEF Opened, Has
  <2>7. Messages'
    <3>1. pc["cache"] = "serve" => Requests(Now(ToCache), ctrl["cache"])'
      BY <1>2, <1>4, <2>1 DEF Requests
    <3>2. \A n \in Control : ~linked'[n]
      BY <1>7, <2>2, NamesAre
    <3>3. QED BY <1>2, <1>3, <1>5, <2>1, <3>1, <3>2 DEF Messages, Starting
  <2>8. QED BY <2>3, <2>4, <2>5, <2>6, <2>7, ProcessesAre DEF OrderlyInv
<1>8. QED BY <1>6, <1>7 DEF Unlink

LEMMA OrderlyStutters ==
    ASSUME ChannelShapes, OrderlyInv, UNCHANGED channelVars
    PROVE  OrderlyInv'
<1> USE DEF channelVars, names, history
<1>1. Together' /\ QueuesInUse'
  BY QueuesStay DEF OrderlyInv, Together, Widowed
<1>2. \A p \in Process : Opened(p)'
  BY OpenedStays DEF OrderlyInv
<1>3. Messages'
  <2>1. /\ \A k : Now(k)' = Now(k)
        /\ \A q \in Queues : q[2] > created'[q[1]] => box'[q] = <<>>
    BY NothingSent
  <2>2. \A r : Handshake(ctrl[r])' = Handshake(ctrl[r])
    BY DEF Handshake
  <2>3. Requests(Now(ToCache), ctrl["cache"])' = Requests(Now(ToCache), ctrl["cache"])
    BY <2>1 DEF Requests
  <2>4. QED BY <2>1, <2>2, <2>3 DEF OrderlyInv, Messages
<1>4. QED BY <1>1, <1>2, <1>3 DEF OrderlyInv

-----------------------------------------------------------------------------
(***************************************************************************)
(* The invariant holds, and what follows from it.                          *)
(***************************************************************************)
LEMMA ChannelInvNext == ChannelInv /\ [ChannelNext]_channelVars => ChannelInv'
<1> SUFFICES ASSUME ChannelShapes, orderly => OrderlyInv, [ChannelNext]_channelVars
             PROVE  ChannelShapes' /\ (orderly' => OrderlyInv')
  BY DEF ChannelInv
<1>1. ChannelShapes'
  BY ChannelShapesNext
<1>2. ASSUME orderly' PROVE orderly
  BY <1>2 DEF ChannelNext, ProcessStep, channelVars, history, OpenControl, CreateSegments, ProxySync,
     ProxyReply, CacheSync, CacheReply, Unlink, TxRequest, RxRequest, Start, CacheStop, ProxyCrash,
     ProxySignal
<1>3. ASSUME orderly' PROVE OrderlyInv'
  <2> USE <1>1, <1>2, <1>3
  <2>1. ASSUME NEW p \in Process, OpenControl(p) PROVE OrderlyInv'
    BY <2>1, OpenControlOrderly
  <2>2. ASSUME NEW p \in Process, CreateSegments(p) PROVE OrderlyInv'
    BY <2>2, CreateSegmentsOrderly
  <2>3. ASSUME NEW p \in Process, Start(p) PROVE OrderlyInv'
    BY <2>3, StartOrderly
  <2>4. CASE ProxySync
    BY <2>4, ProxySyncOrderly
  <2>5. CASE ProxyReply
    BY <2>5, ProxyReplyOrderly
  <2>6. CASE CacheSync
    BY <2>6, CacheSyncOrderly
  <2>7. CASE CacheReply
    BY <2>7, CacheReplyOrderly
  <2>8. CASE TxRequest
    BY <2>8, TxRequestOrderly
  <2>9. CASE RxRequest
    BY <2>9, RxRequestOrderly
  <2>10. CASE CacheStop
    BY <2>10, CacheStopOrderly
  <2>11. CASE ProxyCrash
    BY <2>11 DEF ProxyCrash
  <2>12. CASE ProxySignal
    BY <2>12, ProxySignalOrderly
  <2>13. CASE Unlink
    BY <2>13, UnlinkOrderly
  <2>14. CASE UNCHANGED channelVars
    BY <2>14, OrderlyStutters
  <2>15. QED
    BY <2>1, <2>2, <2>3, <2>4, <2>5, <2>6, <2>7, <2>8, <2>9, <2>10, <2>11, <2>12, <2>13, <2>14
       DEF ChannelNext, ProcessStep
<1>4. QED BY <1>1, <1>3

LEMMA ChannelInvHolds == ChannelSpec => []ChannelInv
<1>1. ChannelInit => ChannelInv
  BY ChannelShapesInit DEF ChannelInv
<1>2. QED BY <1>1, ChannelInvNext, PTL DEF ChannelSpec

\* The two programs keep within their bounds: no more queues of one name than
\* it was unlinked, no more messages than mq_maxmsg (shm_channel.c).
THEOREM ChannelTypes == ChannelSpec => []ChannelTypeOK
<1>1. ChannelShapes => ChannelTypeOK
  <2> SUFFICES ASSUME ChannelShapes PROVE ChannelTypeOK
    OBVIOUS
  <2>1. created \in [Names -> 0 .. MaxStops + 1]
    BY QueueIs DEF ChannelShapes, NameShapes
  <2>2. \A q \in Queues : Len(box[q]) <= MqMaxMsg /\ box[q] \in Seq(Message)
    BY DEF ChannelShapes, BoxShapes
  <2>3. \A p \in Process : \A n \in Names : fd[p][n] \in 0 .. created[n]
    <3> SUFFICES ASSUME NEW p \in Process, NEW n \in Names PROVE fd[p][n] \in 0 .. created[n]
      OBVIOUS
    <3>1. fd[p][n] \in Nat /\ created[n] \in Nat /\ fd[p][n] <= created[n]
      BY DEF ChannelShapes, NameShapes
    <3>2. QED BY <3>1
  <2>4. QED BY <2>1, <2>2, <2>3 DEF ChannelTypeOK, ChannelShapes, NameShapes, ProcessShapes
<1>2. QED BY <1>1, ChannelInvHolds, PTL DEF ChannelInv

\* sync_with_proxy and the handshake of webproxy.c make both ready: a proxy that
\* creates its segments has a cache that knows their number, on the same queues.
THEOREM HandshakeMakesReady == ChannelSpec => []BothReady
<1>1. ChannelInv => BothReady
  <2> SUFFICES ASSUME ChannelInv, orderly, pc["proxy"] \in {"segments", "serve"}
               PROVE  /\ pc["cache"] \in {"segments", "serve"}
                      /\ ctrl["cache"] = ctrl["proxy"]
                      /\ \A n \in Control : fd["cache"][n] = fd["proxy"][n]
    BY DEF BothReady
  <2>1. pc["cache"] \in {"segments", "serve"} /\ ctrl["cache"] = ctrl["proxy"]
    BY DEF ChannelInv, OrderlyInv, Together, Messages
  <2>2. \A n \in Control : n \in Names /\ Has("cache", n) /\ Has("proxy", n)
    BY <2>1, NamesAre, ProcessesAre DEF ChannelInv, OrderlyInv, Opened
  <2>3. QED BY <2>1, <2>2, ProcessesAre DEF ChannelInv, OrderlyInv, QueuesInUse
<1>2. QED BY <1>1, ChannelInvHolds, PTL

\* Proxy and cache serve on the same queues, none of them left behind by a
\* process that served before (create_message_queue of shm_channel.c opens what
\* is there).
THEOREM QueuesAreFresh == ChannelSpec => []FreshQueues
<1>1. ChannelInv => FreshQueues
  <2> SUFFICES ASSUME ChannelInv, orderly, pc["proxy"] = "serve", pc["cache"] = "serve", NEW n \in Names
               PROVE  fd["cache"][n] = fd["proxy"][n] /\ Queue("proxy", n) \notin stale
    BY DEF FreshQueues
  <2> USE DEF ChannelInv, OrderlyInv
  <2>1. ctrl["cache"] = ctrl["proxy"]
    BY DEF Messages
  <2>2. Has("cache", n) <=> Has("proxy", n)
    BY <2>1, NamesAre, ProcessesAre DEF Opened
  <2>3. fd["cache"][n] = fd["proxy"][n]
    BY <2>2, ProcessesAre DEF QueuesInUse, Has
  <2>4. Queue("proxy", n) \notin stale
    <3> SUFFICES ASSUME NEW q \in stale, q = Queue("proxy", n) PROVE FALSE
      OBVIOUS
    <3>1. q[1] = n /\ q[2] = fd["proxy"][n]
      BY DEF Queue
    <3>2. Has("proxy", n)
      BY <3>1 DEF QueuesInUse, Has
    <3>3. fd["proxy"][n] = created[n] /\ linked[n]
      BY <3>2, ProcessesAre DEF QueuesInUse, Widowed
    <3>4. QED BY <3>1, <3>3 DEF QueuesInUse
  <2>5. QED BY <2>3, <2>4
<1>2. QED BY <1>1, ChannelInvHolds, PTL

\* perform_task gets nothing but requests for segments that the cache has, so
\* find_segment returns.
THEOREM OnlyRequestsServed == ChannelSpec => []NeverConfused
<1>1. ChannelInv => NeverConfused
  BY DEF ChannelInv, OrderlyInv, Messages, Together, Starting, NeverConfused
<1>2. QED BY <1>1, ChannelInvHolds, PTL

-----------------------------------------------------------------------------
(***************************************************************************)
(* The invariant of SegmentLookup.                                         *)
(*                                                                         *)
(* p[0] .. p[NumSegments - 1] are the segments in the order in which they  *)
(* were queued when the round began.                                       *)
(***************************************************************************)
Places == 0 .. NumSegments - 1

\* All the segments, in some order.
Order(p) ==
    /\ p \in [Places -> Segments]
    /\ \A j, k \in Places : p[j] = p[k] => j = k
    /\ \A s \in Segments : \E k \in Places : p[k] = s

After(k) == IF k = NumSegments - 1 THEN 0 ELSE k + 1

\* The order after a rotation.
Rotated(p) == [k \in Places |-> p[After(k)]]

Ring(q, p) ==
    /\ q.front = p[0] /\ q.back = p[NumSegments - 1]
    /\ \A k \in Places : q.next[p[k]] = IF k = NumSegments - 1 THEN Null ELSE p[k + 1]

\* The last node is linked to the first one.
Closed(q, p) == \A k \in Places : q.next[p[k]] = p[After(k)]

\* How far a thread in state x is with its round, when the queue is q.
StageOf(x, q, p) ==
    /\ x.pc \in {"test_front", "load_item", "test_back", "link_back", "link_front", "link"} =>
         Ring(q, p)
    /\ x.pc \in {"back_front", "set_back", "step_front", "step_next", "set_front", "cut_back",
                 "cut"} => Closed(q, p)
    /\ x.pc \in {"back_front", "set_back"} => q.front = p[0] /\ q.back = p[NumSegments - 1]
    /\ x.pc \in {"step_front", "step_next", "set_front"} => q.front = p[0] /\ q.back = p[0]
    /\ x.pc \in {"cut_back", "cut"} => q.front = p[After(0)] /\ q.back = p[0]
    /\ x.pc = "compare" => Ring(q, Rotated(p))
    /\ x.pc \notin {"test_front", "load_item"} => x.item = p[0]
    /\ x.pc \in {"link_front", "link"} => x.r = p[NumSegments - 1]
    /\ x.pc = "link" => x.s = p[0]
    /\ x.pc \in {"set_back", "step_next", "cut"} => x.r = p[0]
    /\ x.pc = "set_front" => x.r = p[After(0)]

\* The rounds that are left suffice to meet the segment.
Counted(x, p) == \E k \in Places : p[k] = x.index /\ x.rounds + k < NumSegments

OneInside == \A t, u \in Threads : Inside(t) /\ Inside(u) => t = u

Orderly(p) ==
    /\ Order(p)
    /\ \A t \in Threads : Inside(t) => StageOf(thread[t], queue, p) /\ Counted(thread[t], p)
    /\ (\A t \in Threads : ~Inside(t)) => Ring(queue, p)

LookupInv ==
    /\ TypeOK
    /\ contended \/ /\ ~dead /\ OneInside
                    /\ \A t \in Threads : Inside(t) \/ thread[t] = Idle
                    /\ \E p : Orderly(p)

-----------------------------------------------------------------------------
(***************************************************************************)
(* Types.                                                                  *)
(***************************************************************************)
ThreadState ==
    [pc : Accesses \cup {"idle"}, index : Segments, item : Pointer,
     r : Pointer, s : Pointer, rounds : 0 .. NumSegments]

QueueState == [front : Pointer, back : Pointer, next : [Segments -> Pointer]]

LEMMA TypesAre ==
    ASSUME TypeOK
    PROVE  /\ queue \in QueueState /\ thread \in [Threads -> ThreadState]
           /\ queue.front \in Pointer /\ queue.back \in Pointer
           /\ queue.next \in [Segments -> Pointer]
           /\ dead \in BOOLEAN /\ contended \in BOOLEAN
           /\ NumSegments \in Nat /\ NumSegments # 0 /\ 0 \in Places
           /\ NumSegments - 1 \in Places
           /\ Segments = Places /\ Null \notin Segments /\ Pointer = Segments \cup {Null}
<1>1. NumSegments \in Nat /\ NumSegments # 0
      BY NumSegmentsAssumption
<1>2. Null \notin Segments /\ 0 \in Places /\ NumSegments - 1 \in Places /\ Segments = Places
      BY <1>1 DEF Null, Segments, Places
<1>. QED BY <1>1, <1>2 DEF TypeOK, QueueState, ThreadState, Pointer

\* t has made its access from, is about to make the access to, and is in state x.
Becomes(t, from, to, x) ==
    /\ x \in ThreadState /\ x.pc = to /\ to # "idle"
    /\ thread[t].pc = from /\ thread' = [thread EXCEPT ![t] = x]
    /\ x.index = thread[t].index /\ x.rounds = thread[t].rounds

LEMMA LoadsR ==
    ASSUME TypeOK, NEW t \in Threads, NEW from, NEW to \in Accesses, NEW value \in Pointer,
           Load(t, from, to, "r", value)
    PROVE  \E x : /\ Becomes(t, from, to, x) /\ queue' = queue
                  /\ x.r = value /\ x.item = thread[t].item /\ x.s = thread[t].s
<1>1. thread \in [Threads -> ThreadState] /\ thread[t] \in ThreadState
      BY TypesAre
<1> DEFINE x == [thread[t] EXCEPT !.pc = to, !.r = value]
<1>2. thread' = [thread EXCEPT ![t] = x] /\ thread[t].pc = from /\ queue' = queue
      BY DEF Load
<1>3. x \in ThreadState /\ x.pc = to /\ x.index = thread[t].index
      /\ x.rounds = thread[t].rounds /\ x.r = value /\ x.item = thread[t].item /\ x.s = thread[t].s
      BY <1>1 DEF ThreadState
<1>4. to # "idle"
      BY DEF Accesses
<1>. QED BY <1>2, <1>3, <1>4 DEF Becomes

LEMMA LoadsS ==
    ASSUME TypeOK, NEW t \in Threads, NEW from, NEW to \in Accesses, NEW value \in Pointer,
           Load(t, from, to, "s", value)
    PROVE  \E x : /\ Becomes(t, from, to, x) /\ queue' = queue
                  /\ x.s = value /\ x.item = thread[t].item /\ x.r = thread[t].r
<1>1. thread \in [Threads -> ThreadState] /\ thread[t] \in ThreadState
      BY TypesAre
<1> DEFINE x == [thread[t] EXCEPT !.pc = to, !.s = value]
<1>2. thread' = [thread EXCEPT ![t] = x] /\ thread[t].pc = from /\ queue' = queue
      BY DEF Load
<1>3. x \in ThreadState /\ x.pc = to /\ x.index = thread[t].index
      /\ x.rounds = thread[t].rounds /\ x.s = value /\ x.item = thread[t].item /\ x.r = thread[t].r
      BY <1>1 DEF ThreadState
<1>4. to # "idle"
      BY DEF Accesses
<1>. QED BY <1>2, <1>3, <1>4 DEF Becomes

LEMMA LoadsItem ==
    ASSUME TypeOK, NEW t \in Threads, NEW from, NEW to \in Accesses, NEW value \in Pointer,
           Load(t, from, to, "item", value)
    PROVE  \E x : /\ Becomes(t, from, to, x) /\ queue' = queue
                  /\ x.item = value /\ x.r = thread[t].r /\ x.s = thread[t].s
<1>1. thread \in [Threads -> ThreadState] /\ thread[t] \in ThreadState
      BY TypesAre
<1> DEFINE x == [thread[t] EXCEPT !.pc = to, !.item = value]
<1>2. thread' = [thread EXCEPT ![t] = x] /\ thread[t].pc = from /\ queue' = queue
      BY DEF Load
<1>3. x \in ThreadState /\ x.pc = to /\ x.index = thread[t].index
      /\ x.rounds = thread[t].rounds /\ x.item = value /\ x.r = thread[t].r /\ x.s = thread[t].s
      BY <1>1 DEF ThreadState
<1>4. to # "idle"
      BY DEF Accesses
<1>. QED BY <1>2, <1>3, <1>4 DEF Becomes

\* A thread that has stored in the queue.
LEMMA Stores ==
    ASSUME TypeOK, NEW t \in Threads, NEW from, NEW to \in Accesses, NEW stored,
           Store(t, from, to, stored)
    PROVE  \E x : /\ Becomes(t, from, to, x) /\ queue' = stored
                  /\ x.item = thread[t].item
<1>1. thread \in [Threads -> ThreadState] /\ thread[t] \in ThreadState
      BY TypesAre
<1> DEFINE x == [thread[t] EXCEPT !.pc = to, !.r = Null, !.s = Null]
<1>2. thread' = [thread EXCEPT ![t] = x] /\ thread[t].pc = from /\ queue' = stored
      BY DEF Store
<1>3. Null \in Pointer /\ to # "idle"
      BY DEF Pointer, Accesses
<1>4. x \in ThreadState /\ x.pc = to /\ x.index = thread[t].index
      /\ x.rounds = thread[t].rounds /\ x.item = thread[t].item
      BY <1>1, <1>3 DEF ThreadState
<1>. QED BY <1>2, <1>3, <1>4 DEF Becomes

LEMMA NextIs ==
    ASSUME TypeOK, NEW n \in Segments, NEW v \in Pointer
    PROVE  /\ [queue EXCEPT !.next[n] = v] \in QueueState
           /\ [queue EXCEPT !.next[n] = v].front = queue.front
           /\ [queue EXCEPT !.next[n] = v].back = queue.back
           /\ \A s \in Segments : [queue EXCEPT !.next[n] = v].next[s] =
                IF s = n THEN v ELSE queue.next[s]
BY TypesAre DEF QueueState

LEMMA FrontIs ==
    ASSUME TypeOK, NEW v \in Pointer
    PROVE  /\ [queue EXCEPT !.front = v] \in QueueState /\ [queue EXCEPT !.front = v].front = v
           /\ [queue EXCEPT !.front = v].back = queue.back
           /\ [queue EXCEPT !.front = v].next = queue.next
BY TypesAre DEF QueueState

LEMMA BackIs ==
    ASSUME TypeOK, NEW v \in Pointer
    PROVE  /\ [queue EXCEPT !.back = v] \in QueueState /\ [queue EXCEPT !.back = v].back = v
           /\ [queue EXCEPT !.back = v].front = queue.front
           /\ [queue EXCEPT !.back = v].next = queue.next
BY TypesAre DEF QueueState

-----------------------------------------------------------------------------
(***************************************************************************)
(* Orders.                                                                 *)
(***************************************************************************)
LEMMA AfterIs ==
    /\ \A k \in Places : After(k) \in Places
    /\ \A j, k \in Places : After(j) = After(k) => j = k
    /\ \A k \in Places : \E j \in Places : After(j) = k
    /\ \A k \in Places : k # 0 => k - 1 \in Places /\ After(k - 1) = k
    /\ After(NumSegments - 1) = 0
    /\ \A k \in Places : k # NumSegments - 1 => k + 1 \in Places /\ After(k) = k + 1 /\ After(k) # 0
<1>1. NumSegments \in Nat /\ NumSegments # 0
      BY NumSegmentsAssumption
<1>2. ASSUME NEW k \in Places, k # 0
      PROVE  k - 1 \in Places /\ After(k - 1) = k
      BY <1>1, <1>2 DEF Places, After
<1>3. NumSegments - 1 \in Places /\ After(NumSegments - 1) = 0
      BY <1>1 DEF Places, After
<1>4. ASSUME NEW k \in Places
      PROVE  \E j \in Places : After(j) = k
      BY <1>2, <1>3
<1>5. \A k \in Places : After(k) \in Places
      BY <1>1 DEF Places, After
<1>6. \A j, k \in Places : After(j) = After(k) => j = k
      BY <1>1 DEF Places, After
<1>7. \A k \in Places : k # NumSegments - 1 => k + 1 \in Places /\ After(k) = k + 1 /\ After(k) # 0
      BY <1>1 DEF Places, After
<1>. QED BY <1>2, <1>3, <1>4, <1>5, <1>6, <1>7

LEMMA RotatedIs ==
    ASSUME NEW p, Order(p)
    PROVE  Order(Rotated(p)) /\ \A k \in Places : Rotated(p)[k] = p[After(k)]
<1>1. \A k \in Places : Rotated(p)[k] = p[After(k)] /\ p[k] \in Segments
      BY DEF Rotated, Order
<1>2. Rotated(p) \in [Places -> Segments]
      BY <1>1, AfterIs DEF Rotated
<1>3. ASSUME NEW j \in Places, NEW k \in Places, Rotated(p)[j] = Rotated(p)[k]
      PROVE  j = k
  <2>1. p[After(j)] = p[After(k)]
        BY <1>1, <1>3
  <2>2. After(j) = After(k)
        BY <2>1, AfterIs DEF Order
  <2>.  QED BY <2>2, AfterIs
<1>4. ASSUME NEW s \in Segments
      PROVE  \E k \in Places : Rotated(p)[k] = s
  <2>1. PICK k \in Places : p[k] = s
        BY DEF Order
  <2>2. PICK j \in Places : After(j) = k
        BY AfterIs
  <2>.  QED BY <2>1, <2>2, <1>1
<1>. QED BY <1>1, <1>2, <1>3, <1>4 DEF Order

LEMMA EndsAre ==
    ASSUME NEW p, Order(p)
    PROVE  /\ \A k \in Places : p[k] \in Segments /\ p[k] \in Pointer
           /\ p[0] \in Segments /\ p[NumSegments - 1] \in Segments /\ p[After(0)] \in Segments
           /\ p[0] \in Pointer /\ p[NumSegments - 1] \in Pointer /\ p[After(0)] \in Pointer
           /\ p[0] # Null /\ p[NumSegments - 1] # Null /\ p[After(0)] # Null
<1>1. 0 \in Places /\ NumSegments - 1 \in Places
      BY NumSegmentsAssumption DEF Places
<1>2. After(0) \in Places
      BY <1>1, AfterIs
<1>3. \A s \in Segments : s # Null /\ s \in Pointer
      BY DEF Segments, Null, Pointer
<1>. QED BY <1>1, <1>2, <1>3 DEF Order

\* Linking the last node to the first closes the ring, and cutting the link of
\* the first opens it again after the rotation.
LEMMA LinkCloses ==
    ASSUME TypeOK, NEW p, Order(p), Ring(queue, p)
    PROVE  Closed([queue EXCEPT !.next[p[NumSegments - 1]] = p[0]], p)
<1> DEFINE q == [queue EXCEPT !.next[p[NumSegments - 1]] = p[0]]
<1>0. p[NumSegments - 1] \in Segments /\ p[0] \in Pointer
      BY EndsAre
<1>1. \A s \in Segments : q.next[s] = IF s = p[NumSegments - 1] THEN p[0] ELSE queue.next[s]
      BY <1>0, NextIs
<1>2. ASSUME NEW k \in Places
      PROVE  q.next[p[k]] = p[After(k)]
  <2>1. p[k] \in Segments /\ NumSegments - 1 \in Places
        BY EndsAre, TypesAre
  <2>2. CASE k = NumSegments - 1
        BY <2>1, <2>2, <1>1, AfterIs
  <2>3. CASE k # NumSegments - 1
    <3>1. p[k] # p[NumSegments - 1]
          BY <2>1, <2>3 DEF Order
    <3>2. q.next[p[k]] = queue.next[p[k]]
          BY <1>1, <2>1, <3>1
    <3>3. queue.next[p[k]] = p[k + 1]
          BY <2>3 DEF Ring
    <3>.  QED BY <3>2, <3>3, <2>3, AfterIs
  <2>.  QED BY <2>2, <2>3
<1>. QED BY <1>2 DEF Closed

LEMMA CutOpens ==
    ASSUME TypeOK, NEW p, Order(p), Closed(queue, p),
           queue.front = p[After(0)], queue.back = p[0]
    PROVE  Ring([queue EXCEPT !.next[p[0]] = Null], Rotated(p))
<1> DEFINE q == [queue EXCEPT !.next[p[0]] = Null]
<1> DEFINE o == Rotated(p)
<1>0. p[0] \in Segments /\ Null \in Pointer
      BY EndsAre DEF Pointer
<1>1. /\ q.front = queue.front /\ q.back = queue.back
      /\ \A s \in Segments : q.next[s] = IF s = p[0] THEN Null ELSE queue.next[s]
      BY <1>0, NextIs
<1>2. 0 \in Places /\ NumSegments - 1 \in Places
      BY TypesAre
<1>3. \A k \in Places : o[k] = p[After(k)]
      BY RotatedIs
<1>4. q.front = o[0] /\ q.back = o[NumSegments - 1]
  <2>1. o[0] = p[After(0)] /\ o[NumSegments - 1] = p[0]
        BY <1>2, <1>3, AfterIs
  <2>.  QED BY <2>1, <1>1
<1>5. ASSUME NEW k \in Places
      PROVE  q.next[o[k]] = IF k = NumSegments - 1 THEN Null ELSE o[k + 1]
  <2>1. o[k] = p[After(k)] /\ After(k) \in Places /\ p[After(k)] \in Segments
        BY <1>3, AfterIs, EndsAre
  <2>2. CASE k = NumSegments - 1
    <3>1. o[k] = p[0]
          BY <2>1, <2>2, AfterIs
    <3>.  QED BY <3>1, <1>1, <2>1, <2>2
  <2>3. CASE k # NumSegments - 1
    <3>1. After(k) # 0 /\ After(k) = k + 1 /\ k + 1 \in Places
          BY <2>3, AfterIs
    <3>2. p[After(k)] # p[0]
          BY <3>1, <2>1, <1>2 DEF Order
    <3>3. q.next[o[k]] = queue.next[p[After(k)]]
          BY <1>1, <2>1, <3>2
    <3>4. queue.next[p[After(k)]] = p[After(After(k))]
          BY <2>1 DEF Closed
    <3>5. o[k + 1] = p[After(After(k))]
          BY <1>3, <3>1
    <3>.  QED BY <3>3, <3>4, <3>5, <2>3
  <2>.  QED BY <2>2, <2>3
<1>. QED BY <1>4, <1>5 DEF Ring

-----------------------------------------------------------------------------
(***************************************************************************)
(* One access of a call.                                                   *)
(***************************************************************************)
\* t goes on to its next access,
GoesOn(t, x) ==
    /\ x \in ThreadState /\ x.pc # "idle"
    /\ thread' = [thread EXCEPT ![t] = x] /\ queue' \in QueueState
    /\ x.index = thread[t].index /\ x.rounds = thread[t].rounds

\* within a round that began with the segments in the order p.
GoesOnIn(t, p) == \E x : GoesOn(t, x) /\ StageOf(x, queue', p)

LEMMA Going ==
    ASSUME NEW t, NEW from, NEW to, NEW x, Becomes(t, from, to, x), queue' \in QueueState
    PROVE  GoesOn(t, x) /\ thread[t].pc = from /\ x.pc = to
BY DEF Becomes, GoesOn

LEMMA PointersAre ==
    ASSUME TypeOK, NEW t \in Threads
    PROVE  /\ thread[t] \in ThreadState
           /\ R(t) \in Pointer /\ thread[t].s \in Pointer /\ thread[t].item \in Pointer
           /\ R(t) # Null => R(t) \in Segments /\ queue.next[R(t)] \in Pointer
           /\ Null \in Pointer
           /\ R(t) = thread[t].r
<1>1. thread[t] \in ThreadState
      BY TypesAre
<1>2. R(t) \in Pointer /\ thread[t].s \in Pointer /\ thread[t].item \in Pointer
      BY <1>1 DEF ThreadState, R
<1>3. R(t) # Null => R(t) \in Segments
      BY <1>2 DEF Pointer
<1>4. queue.next \in [Segments -> Pointer]
      BY TypesAre
<1>. QED BY <1>1, <1>2, <1>3, <1>4 DEF Pointer, R

LEMMA LoadGoesOn ==
    ASSUME TypeOK, NEW t \in Threads, NEW from, NEW to \in Accesses,
           NEW into \in {"r", "s", "item"}, NEW value \in Pointer,
           Load(t, from, to, into, value)
    PROVE  \E x : GoesOn(t, x)
<1>1. \E x : Becomes(t, from, to, x) /\ queue' = queue
  <2>1. CASE into = "r"
    <3>1. Load(t, from, to, "r", value)
          BY <2>1
    <3>.  QED BY <3>1, LoadsR
  <2>2. CASE into = "s"
    <3>1. Load(t, from, to, "s", value)
          BY <2>2
    <3>.  QED BY <3>1, LoadsS
  <2>3. CASE into = "item"
    <3>1. Load(t, from, to, "item", value)
          BY <2>3
    <3>.  QED BY <3>1, LoadsItem
  <2>.  QED BY <2>1, <2>2, <2>3
<1>2. queue \in QueueState
      BY TypesAre
<1>. QED BY <1>1, <1>2, Going

LEMMA StoreGoesOn ==
    ASSUME TypeOK, NEW t \in Threads, NEW from, NEW to \in Accesses, NEW stored \in QueueState,
           Store(t, from, to, stored)
    PROVE  \E x : GoesOn(t, x)
<1>1. \E x : Becomes(t, from, to, x) /\ queue' = stored
      BY Stores
<1>. QED BY <1>1, Going

\* Overlapped or not, an access leaves pointers to segments.
LEMMA AccessGoesOn ==
    ASSUME TypeOK, NEW t \in Threads, StequeFront(t) \/ StequeCycle(t)
    PROVE  \E x : GoesOn(t, x)
<1>1. /\ queue.front \in Pointer /\ queue.back \in Pointer /\ queue \in QueueState
      BY TypesAre
<1>2. /\ R(t) \in Pointer /\ thread[t].s \in Pointer /\ Null \in Pointer
      /\ R(t) # Null => R(t) \in Segments /\ queue.next[R(t)] \in Pointer
      BY PointersAre
<1>3. ASSUME StequeFront(t)
      PROVE  \E x : GoesOn(t, x)
      BY <1>1, <1>2, <1>3, LoadGoesOn DEF StequeFront, Accesses
<1>4. ASSUME LinkLast(t)
      PROVE  \E x : GoesOn(t, x)
  <2>1. CASE Load(t, "link_back", "link_front", "r", queue.back)
        BY <2>1, <1>1, LoadGoesOn DEF Accesses
  <2>2. CASE Load(t, "link_front", "link", "s", queue.front)
        BY <2>2, <1>1, LoadGoesOn DEF Accesses
  <2>3. CASE /\ R(t) # Null
             /\ Store(t, "link", "back_front", [queue EXCEPT !.next[R(t)] = thread[t].s])
    <3>1. [queue EXCEPT !.next[R(t)] = thread[t].s] \in QueueState
          BY <2>3, <1>2, NextIs
    <3>.  QED BY <3>1, <2>3, StoreGoesOn DEF Accesses
  <2>.  QED BY <1>4, <2>1, <2>2, <2>3 DEF LinkLast
<1>5. ASSUME MoveBack(t)
      PROVE  \E x : GoesOn(t, x)
  <2>1. CASE Load(t, "back_front", "set_back", "r", queue.front)
        BY <2>1, <1>1, LoadGoesOn DEF Accesses
  <2>2. CASE Store(t, "set_back", "step_front", [queue EXCEPT !.back = R(t)])
    <3>1. [queue EXCEPT !.back = R(t)] \in QueueState
          BY <1>2, BackIs
    <3>.  QED BY <3>1, <2>2, StoreGoesOn DEF Accesses
  <2>.  QED BY <1>5, <2>1, <2>2 DEF MoveBack
<1>6. ASSUME MoveFront(t)
      PROVE  \E x : GoesOn(t, x)
  <2>1. CASE Load(t, "step_front", "step_next", "r", queue.front)
        BY <2>1, <1>1, LoadGoesOn DEF Accesses
  <2>2. CASE R(t) # Null /\ Load(t, "step_next", "set_front", "r", queue.next[R(t)])
        BY <2>2, <1>2, LoadGoesOn DEF Accesses
  <2>3. CASE Store(t, "set_front", "cut_back", [queue EXCEPT !.front = R(t)])
    <3>1. [queue EXCEPT !.front = R(t)] \in QueueState
          BY <1>2, FrontIs
    <3>.  QED BY <3>1, <2>3, StoreGoesOn DEF Accesses
  <2>.  QED BY <1>6, <2>1, <2>2, <2>3 DEF MoveFront, FrontAfter
<1>7. ASSUME CutLast(t)
      PROVE  \E x : GoesOn(t, x)
  <2>1. CASE Load(t, "cut_back", "cut", "r", queue.back)
        BY <2>1, <1>1, LoadGoesOn DEF Accesses
  <2>2. CASE R(t) # Null /\ Store(t, "cut", "compare", [queue EXCEPT !.next[R(t)] = Null])
    <3>1. [queue EXCEPT !.next[R(t)] = Null] \in QueueState
          BY <2>2, <1>2, NextIs
    <3>.  QED BY <3>1, <2>2, StoreGoesOn DEF Accesses
  <2>.  QED BY <1>7, <2>1, <2>2 DEF CutLast, NullAfterLast
<1>8. ASSUME Load(t, "test_back", IF queue.back = Null THEN "compare" ELSE "link_back", "r", Null)
      PROVE  \E x : GoesOn(t, x)
  <2> DEFINE to == IF queue.back = Null THEN "compare" ELSE "link_back"
  <2>1. to \in Accesses
        BY DEF Accesses
  <2>.  QED BY <2>1, <1>2, <1>8, LoadGoesOn
<1>. QED BY <1>3, <1>4, <1>5, <1>6, <1>7, <1>8 DEF StequeCycle

-----------------------------------------------------------------------------
(***************************************************************************)
(* The accesses of a call that no other overlaps: one lemma per function   *)
(* or statement.                                                           *)
(***************************************************************************)
LEMMA FrontGoesOn ==
    ASSUME TypeOK, NEW t \in Threads, NEW p, Order(p), StageOf(thread[t], queue, p), StequeFront(t)
    PROVE  GoesOnIn(t, p)
<1>1. queue \in QueueState /\ queue.front \in Pointer /\ Null \in Pointer
      BY TypesAre, PointersAre
<1>2. CASE Load(t, "test_front", "load_item", "r", Null)
  <2>1. PICK x :
          /\ Becomes(t, "test_front", "load_item", x) /\ queue' = queue
        BY <1>1, <1>2, LoadsR DEF Accesses
  <2>2. Ring(queue, p)
        BY <2>1 DEF StageOf, Becomes
  <2>.  QED BY <1>1, <2>1, <2>2 DEF GoesOnIn, GoesOn, StageOf, Becomes
<1>3. CASE Load(t, "load_item", "test_back", "item", queue.front)
  <2>1. PICK x :
          /\ Becomes(t, "load_item", "test_back", x) /\ queue' = queue
          /\ x.item = queue.front
        BY <1>1, <1>3, LoadsItem DEF Accesses
  <2>2. Ring(queue, p)
        BY <2>1 DEF StageOf, Becomes
  <2>3. x.item = p[0]
        BY <2>1, <2>2 DEF Ring
  <2>.  QED BY <1>1, <2>1, <2>2, <2>3 DEF GoesOnIn, GoesOn, StageOf, Becomes
<1>. QED BY <1>2, <1>3 DEF StequeFront

LEMMA TestGoesOn ==
    ASSUME TypeOK, NEW t \in Threads, NEW p, Order(p), StageOf(thread[t], queue, p),
           Load(t, "test_back", IF queue.back = Null THEN "compare" ELSE "link_back", "r", Null)
    PROVE  GoesOnIn(t, p)
<1>1. queue \in QueueState /\ Null \in Pointer
      BY TypesAre, PointersAre
<1>2. Ring(queue, p) /\ thread[t].item = p[0]
      BY DEF StageOf, Load
<1>3. queue.back # Null
      BY <1>2, EndsAre DEF Ring
<1>4. PICK x :
        /\ Becomes(t, "test_back", "link_back", x) /\ queue' = queue
        /\ x.item = thread[t].item
  <2>1. Load(t, "test_back", "link_back", "r", Null)
        BY <1>3
  <2>.  QED BY <2>1, <1>1, LoadsR DEF Accesses
<1>. QED BY <1>1, <1>2, <1>4 DEF GoesOnIn, GoesOn, StageOf, Becomes

LEMMA LinkGoesOn ==
    ASSUME TypeOK, NEW t \in Threads, NEW p, Order(p), StageOf(thread[t], queue, p), LinkLast(t)
    PROVE  GoesOnIn(t, p)
<1>1. queue \in QueueState /\ queue.front \in Pointer /\ queue.back \in Pointer
      BY TypesAre
<1>2. CASE Load(t, "link_back", "link_front", "r", queue.back)
  <2>1. PICK x :
          /\ Becomes(t, "link_back", "link_front", x) /\ queue' = queue
          /\ x.r = queue.back /\ x.item = thread[t].item
    <3>1. "link_front" \in Accesses
          BY DEF Accesses
    <3>.  QED BY <3>1, <1>1, <1>2, LoadsR
  <2>2. Ring(queue, p) /\ x.item = p[0]
        BY <2>1 DEF StageOf, Becomes
  <2>3. x.r = p[NumSegments - 1]
        BY <2>1, <2>2 DEF Ring
  <2>.  QED BY <1>1, <2>1, <2>2, <2>3 DEF GoesOnIn, GoesOn, StageOf, Becomes
<1>3. CASE Load(t, "link_front", "link", "s", queue.front)
  <2>1. PICK x :
          /\ Becomes(t, "link_front", "link", x) /\ queue' = queue
          /\ x.item = thread[t].item /\ x.r = thread[t].r /\ x.s = queue.front
        BY <1>1, <1>3, LoadsS DEF Accesses
  <2>2. Ring(queue, p) /\ x.item = p[0] /\ x.r = p[NumSegments - 1]
        BY <2>1 DEF StageOf, Becomes
  <2>3. x.s = p[0]
        BY <2>1, <2>2 DEF Ring
  <2>.  QED BY <1>1, <2>1, <2>2, <2>3 DEF GoesOnIn, GoesOn, StageOf, Becomes
<1>4. CASE Store(t, "link", "back_front", [queue EXCEPT !.next[R(t)] = thread[t].s])
  <2>1. Ring(queue, p) /\ thread[t].item = p[0] /\ R(t) = p[NumSegments - 1] /\ thread[t].s = p[0]
        BY <1>4 DEF StageOf, Store, R
  <2> DEFINE q == [queue EXCEPT !.next[p[NumSegments - 1]] = p[0]]
  <2>2. q \in QueueState /\ q.front = queue.front /\ q.back = queue.back
    <3>1. p[NumSegments - 1] \in Segments /\ p[0] \in Pointer
          BY EndsAre
    <3>.  QED BY <3>1, NextIs
  <2>3. Closed(q, p)
        BY <2>1, LinkCloses
  <2>4. q.front = p[0] /\ q.back = p[NumSegments - 1]
        BY <2>1, <2>2 DEF Ring
  <2>5. PICK x :
          /\ Becomes(t, "link", "back_front", x) /\ queue' = q
          /\ x.item = thread[t].item
        BY <1>4, <2>1, Stores DEF Accesses
  <2>6. StageOf(x, q, p)
        BY <2>1, <2>3, <2>4, <2>5 DEF StageOf, Becomes
  <2>.  QED BY <2>2, <2>5, <2>6 DEF GoesOnIn, GoesOn, Becomes
<1>. QED BY <1>2, <1>3, <1>4 DEF LinkLast

LEMMA BackGoesOn ==
    ASSUME TypeOK, NEW t \in Threads, NEW p, Order(p), StageOf(thread[t], queue, p), MoveBack(t)
    PROVE  GoesOnIn(t, p)
<1>1. queue \in QueueState /\ queue.front \in Pointer
      BY TypesAre
<1>2. CASE Load(t, "back_front", "set_back", "r", queue.front)
  <2>1. PICK x :
          /\ Becomes(t, "back_front", "set_back", x) /\ queue' = queue
          /\ x.r = queue.front /\ x.item = thread[t].item
    <3>1. "set_back" \in Accesses
          BY DEF Accesses
    <3>.  QED BY <3>1, <1>1, <1>2, LoadsR
  <2>2. Closed(queue, p) /\ x.item = p[0] /\ queue.front = p[0] /\ queue.back = p[NumSegments - 1]
        BY <2>1 DEF StageOf, Becomes
  <2>3. x.r = p[0]
        BY <2>1, <2>2
  <2>.  QED BY <1>1, <2>1, <2>2, <2>3 DEF GoesOnIn, GoesOn, StageOf, Becomes
<1>3. CASE Store(t, "set_back", "step_front", [queue EXCEPT !.back = R(t)])
  <2>1. /\ Closed(queue, p) /\ thread[t].item = p[0] /\ R(t) = p[0] /\ queue.front = p[0]
        BY <1>3 DEF StageOf, Store, R
  <2> DEFINE q == [queue EXCEPT !.back = p[0]]
  <2>2. q \in QueueState /\ q.front = queue.front /\ q.back = p[0] /\ q.next = queue.next
    <3>1. p[0] \in Pointer
          BY EndsAre
    <3>.  QED BY <3>1, BackIs
  <2>3. Closed(q, p)
        BY <2>1, <2>2 DEF Closed
  <2>4. PICK x :
          /\ Becomes(t, "set_back", "step_front", x) /\ queue' = q
          /\ x.item = thread[t].item
    <3>1. "step_front" \in Accesses
          BY DEF Accesses
    <3>.  QED BY <3>1, <1>3, <2>1, Stores
  <2>5. StageOf(x, q, p)
        BY <2>1, <2>2, <2>3, <2>4 DEF StageOf, Becomes
  <2>.  QED BY <2>2, <2>4, <2>5 DEF GoesOnIn, GoesOn, Becomes
<1>. QED BY <1>2, <1>3 DEF MoveBack

LEMMA MoveGoesOn ==
    ASSUME TypeOK, NEW t \in Threads, NEW p, Order(p), StageOf(thread[t], queue, p), MoveFront(t)
    PROVE  GoesOnIn(t, p)
<1>1. /\ queue \in QueueState /\ queue.front \in Pointer
      /\ R(t) # Null => queue.next[R(t)] \in Pointer
      BY TypesAre, PointersAre
<1>2. CASE Load(t, "step_front", "step_next", "r", queue.front)
  <2>1. PICK x :
          /\ Becomes(t, "step_front", "step_next", x) /\ queue' = queue
          /\ x.r = queue.front /\ x.item = thread[t].item
    <3>1. "step_next" \in Accesses
          BY DEF Accesses
    <3>.  QED BY <3>1, <1>1, <1>2, LoadsR
  <2>2. Closed(queue, p) /\ x.item = p[0] /\ queue.front = p[0] /\ queue.back = p[0]
        BY <2>1 DEF StageOf, Becomes
  <2>3. x.r = p[0]
        BY <2>1, <2>2
  <2>.  QED BY <1>1, <2>1, <2>2, <2>3 DEF GoesOnIn, GoesOn, StageOf, Becomes
<1>3. CASE R(t) # Null /\ Load(t, "step_next", "set_front", "r", queue.next[R(t)])
  <2>1. PICK x :
          /\ Becomes(t, "step_next", "set_front", x) /\ queue' = queue
          /\ x.r = queue.next[R(t)] /\ x.item = thread[t].item
    <3>1. "set_front" \in Accesses
          BY DEF Accesses
    <3>.  QED BY <3>1, <1>1, <1>3, LoadsR
  <2>2. /\ Closed(queue, p) /\ x.item = p[0] /\ queue.front = p[0] /\ queue.back = p[0]
        /\ R(t) = p[0]
        BY <2>1 DEF StageOf, Becomes, R
  <2>3. x.r = p[After(0)]
        BY <2>1, <2>2, TypesAre DEF Closed
  <2>.  QED BY <1>1, <2>1, <2>2, <2>3 DEF GoesOnIn, GoesOn, StageOf, Becomes
<1>4. CASE Store(t, "set_front", "cut_back", [queue EXCEPT !.front = R(t)])
  <2>1. /\ Closed(queue, p) /\ thread[t].item = p[0] /\ R(t) = p[After(0)] /\ queue.back = p[0]
        BY <1>4 DEF StageOf, Store, R
  <2> DEFINE q == [queue EXCEPT !.front = p[After(0)]]
  <2>2. q \in QueueState /\ q.front = p[After(0)] /\ q.back = queue.back /\ q.next = queue.next
    <3>1. p[After(0)] \in Pointer
          BY EndsAre
    <3>.  QED BY <3>1, FrontIs
  <2>3. Closed(q, p)
        BY <2>1, <2>2 DEF Closed
  <2>4. PICK x :
          /\ Becomes(t, "set_front", "cut_back", x) /\ queue' = q
          /\ x.item = thread[t].item
    <3>1. "cut_back" \in Accesses
          BY DEF Accesses
    <3>.  QED BY <3>1, <1>4, <2>1, Stores
  <2>5. StageOf(x, q, p)
        BY <2>1, <2>2, <2>3, <2>4 DEF StageOf, Becomes
  <2>.  QED BY <2>2, <2>4, <2>5 DEF GoesOnIn, GoesOn, Becomes
<1>. QED BY <1>2, <1>3, <1>4 DEF MoveFront, FrontAfter

LEMMA CutGoesOn ==
    ASSUME TypeOK, NEW t \in Threads, NEW p, Order(p), StageOf(thread[t], queue, p), CutLast(t)
    PROVE  GoesOnIn(t, p)
<1>1. queue \in QueueState /\ queue.back \in Pointer
      BY TypesAre
<1>2. CASE Load(t, "cut_back", "cut", "r", queue.back)
  <2>1. PICK x :
          /\ Becomes(t, "cut_back", "cut", x) /\ queue' = queue
          /\ x.r = queue.back /\ x.item = thread[t].item
    <3>1. "cut" \in Accesses
          BY DEF Accesses
    <3>.  QED BY <3>1, <1>1, <1>2, LoadsR
  <2>2. Closed(queue, p) /\ x.item = p[0] /\ queue.front = p[After(0)] /\ queue.back = p[0]
        BY <2>1 DEF StageOf, Becomes
  <2>3. x.r = p[0]
        BY <2>1, <2>2
  <2>.  QED BY <1>1, <2>1, <2>2, <2>3 DEF GoesOnIn, GoesOn, StageOf, Becomes
<1>3. CASE Store(t, "cut", "compare", [queue EXCEPT !.next[R(t)] = Null])
  <2>1. /\ Closed(queue, p) /\ thread[t].item = p[0] /\ R(t) = p[0]
        /\ queue.front = p[After(0)] /\ queue.back = p[0]
        BY <1>3 DEF StageOf, Store, R
  <2> DEFINE q == [queue EXCEPT !.next[p[0]] = Null]
  <2>2. q \in QueueState
    <3>1. p[0] \in Segments /\ Null \in Pointer
          BY EndsAre DEF Pointer
    <3>.  QED BY <3>1, NextIs
  <2>3. Ring(q, Rotated(p))
        BY <2>1, CutOpens
  <2>4. PICK x :
          /\ Becomes(t, "cut", "compare", x) /\ queue' = q
          /\ x.item = thread[t].item
    <3>1. "compare" \in Accesses
          BY DEF Accesses
    <3>.  QED BY <3>1, <1>3, <2>1, Stores
  <2>5. StageOf(x, q, p)
        BY <2>1, <2>3, <2>4 DEF StageOf, Becomes
  <2>.  QED BY <2>2, <2>4, <2>5 DEF GoesOnIn, GoesOn, Becomes
<1>. QED BY <1>2, <1>3 DEF CutLast, NullAfterLast

-----------------------------------------------------------------------------
(***************************************************************************)
(* The invariant is inductive.                                             *)
(***************************************************************************)
\* Types, of the state after a step of t.
LEMMA TypesAfter ==
    ASSUME TypeOK, NEW t \in Threads, NEW x \in ThreadState, thread' = [thread EXCEPT ![t] = x],
           queue' \in QueueState, dead' \in BOOLEAN, contended' \in BOOLEAN
    PROVE  /\ TypeOK' /\ thread'[t] = x
           /\ \A u \in Threads : u # t => thread'[u] = thread[u]
<1>1. thread \in [Threads -> ThreadState]
      BY TypesAre
<1>2. thread' \in [Threads -> ThreadState]
      BY <1>1
<1>. QED BY <1>1, <1>2 DEF TypeOK, ThreadState, QueueState

\* The only thread inside has gone on.
LEMMA AloneGoesOn ==
    ASSUME LookupInv, ~contended, NEW t \in Threads, Inside(t), NEW p, Orderly(p),
           GoesOnIn(t, p), dead' = dead, contended' = contended
    PROVE  LookupInv'
<1>1. TypeOK /\ ~dead /\ OneInside /\ Order(p) /\ Counted(thread[t], p)
      BY DEF LookupInv, Orderly
<1>2. PICK x : GoesOn(t, x) /\ StageOf(x, queue', p)
      BY DEF GoesOnIn
<1>3. TypeOK' /\ thread'[t] = x /\ \A u \in Threads : u # t => thread'[u] = thread[u]
  <2>1. dead' \in BOOLEAN /\ contended' \in BOOLEAN
        BY <1>1 DEF TypeOK
  <2>.  QED BY <1>1, <1>2, <2>1, TypesAfter DEF GoesOn
<1>4. \A u \in Threads : u # t => ~Inside(u)
      BY <1>1 DEF OneInside
<1>5. Inside(t)' /\ \A u \in Threads : u # t => ~Inside(u)'
      BY <1>2, <1>3, <1>4 DEF Inside, GoesOn
<1>6. \A u \in Threads : Inside(u)' \/ thread'[u] = Idle
      BY <1>3, <1>4, <1>5 DEF LookupInv
<1>7. Counted(x, p)
      BY <1>1, <1>2 DEF Counted, GoesOn
<1>8. \A u \in Threads : Inside(u)' => StageOf(thread'[u], queue', p) /\ Counted(thread'[u], p)
      BY <1>2, <1>3, <1>5, <1>7
<1>9. Orderly(p)'
      BY <1>1, <1>5, <1>8 DEF Orderly
<1>10. OneInside'
      BY <1>5 DEF OneInside
<1>. QED BY <1>1, <1>3, <1>6, <1>9, <1>10 DEF LookupInv

\* A call that ends with its segment leaves the queue rotated, and one that does
\* not has one place less to go.
LEMMA CompareKeeps ==
    ASSUME LookupInv, ~contended, NEW t \in Threads, Compare(t), dead' = dead, contended' = contended
    PROVE  LookupInv'
<1>1. TypeOK /\ ~dead /\ OneInside /\ (\A u \in Threads : Inside(u) \/ thread[u] = Idle)
      BY DEF LookupInv
<1>2. PICK p : Orderly(p)
      BY DEF LookupInv
<1>3. thread[t].pc = "compare" /\ queue' = queue
      BY DEF Compare
<1>4. Inside(t) /\ Order(p) /\ Ring(queue, Rotated(p)) /\ thread[t].item = p[0] /\ Counted(thread[t], p)
  <2>1. Inside(t)
        BY <1>3 DEF Inside
  <2>.  QED BY <1>2, <1>3, <2>1 DEF Orderly, StageOf
<1>5. /\ thread[t] \in ThreadState /\ queue \in QueueState /\ NumSegments \in Nat
      /\ dead \in BOOLEAN /\ contended \in BOOLEAN /\ 0 \in Places
      BY <1>1, TypesAre
<1>6. \A u \in Threads : u # t => ~Inside(u)
      BY <1>1, <1>4 DEF OneInside
<1>7. Order(Rotated(p)) /\ \A k \in Places : Rotated(p)[k] = p[After(k)]
      BY <1>4, RotatedIs
<1>8. CASE thread[t].item = thread[t].index
  <2>1. thread' = [thread EXCEPT ![t] = Idle]
        BY <1>8 DEF Compare
  <2>2. Idle \in ThreadState
        BY <1>5 DEF Idle, ThreadState, Pointer, Places, Segments
  <2>3. /\ TypeOK' /\ thread'[t] = Idle
        /\ \A u \in Threads : u # t => thread'[u] = thread[u]
        BY <1>1, <1>3, <1>5, <2>1, <2>2, TypesAfter
  <2>4. \A u \in Threads : ~Inside(u)' /\ thread'[u] = Idle
        BY <2>3, <1>1, <1>6 DEF Inside, Idle
  <2>5. Orderly(Rotated(p))'
    <3>1. PICK o : o = Rotated(p)
          OBVIOUS
    <3>2. Orderly(o)'
          BY <3>1, <1>3, <1>4, <1>7, <2>4 DEF Orderly
    <3>.  QED BY <3>1, <3>2
  <2>.  QED BY <1>1, <2>3, <2>4, <2>5 DEF LookupInv, OneInside
<1>9. CASE thread[t].item # thread[t].index
  <2> DEFINE x == [thread[t] EXCEPT !.pc = "test_front", !.rounds = thread[t].rounds + 1]
  <2>1. PICK k \in Places : p[k] = thread[t].index /\ thread[t].rounds + k < NumSegments
        BY <1>4 DEF Counted
  <2>2. k # 0
        BY <1>4, <1>9, <2>1
  <2>3. k - 1 \in Places /\ After(k - 1) = k
        BY <2>1, <2>2, AfterIs
  <2>4. thread[t].rounds \in Nat /\ k \in Nat /\ k >= 1
        BY <1>5, <2>1, <2>2 DEF ThreadState, Places
  <2>5. thread[t].rounds + 1 \in 0 .. NumSegments /\ thread[t].rounds + 1 + (k - 1) < NumSegments
        BY <1>5, <2>1, <2>4
  <2>6. x \in ThreadState /\ x.pc = "test_front" /\ x.index = thread[t].index
        /\ x.rounds = thread[t].rounds + 1
    <3>1. "test_front" \in Accesses
          BY DEF Accesses
    <3>.  QED BY <3>1, <1>5, <2>5 DEF ThreadState
  <2>7. thread' = [thread EXCEPT ![t] = x]
    <3> DEFINE n == IF contended THEN 0 ELSE thread[t].rounds + 1
    <3>1. thread' = [thread EXCEPT ![t] = [@ EXCEPT !.pc = "test_front", !.rounds = n]]
          BY <1>9 DEF Compare
    <3>2. n = thread[t].rounds + 1
          OBVIOUS
    <3>   HIDE DEF n
    <3>.  QED BY <3>1, <3>2
  <2>8. /\ TypeOK' /\ thread'[t] = x /\ \A u \in Threads : u # t => thread'[u] = thread[u]
    <3>1. queue' \in QueueState /\ dead' \in BOOLEAN /\ contended' \in BOOLEAN
          BY <1>3, <1>5
    <3>.  QED BY <1>1, <2>6, <2>7, <3>1, TypesAfter
  <2>9. Counted(x, Rotated(p))
    <3>1. Rotated(p)[k - 1] = x.index
          BY <1>7, <2>1, <2>3, <2>6
    <3>.  QED BY <3>1, <2>3, <2>5, <2>6 DEF Counted
  <2>10. StageOf(x, queue', Rotated(p))
         BY <1>3, <1>4, <2>6 DEF StageOf
  <2>11. Inside(t)' /\ \A u \in Threads : u # t => ~Inside(u)' /\ thread'[u] = Idle
         BY <1>1, <1>6, <2>6, <2>8 DEF Inside
  <2>12. Orderly(Rotated(p))'
    <3>1. PICK o : o = Rotated(p)
          OBVIOUS
    <3>2. \A u \in Threads : Inside(u)' => StageOf(thread'[u], queue', o) /\ Counted(thread'[u], o)
          BY <3>1, <2>8, <2>9, <2>10, <2>11
    <3>3. Orderly(o)'
          BY <3>1, <3>2, <1>7, <2>11 DEF Orderly
    <3>.  QED BY <3>1, <3>3
  <2>13. OneInside'
         BY <2>11 DEF OneInside
  <2>14. \A u \in Threads : Inside(u)' \/ thread'[u] = Idle
         BY <2>11
  <2>.   QED BY <1>1, <2>8, <2>12, <2>13, <2>14 DEF LookupInv
<1>. QED BY <1>8, <1>9

LEMMA CallKeeps ==
    ASSUME LookupInv, NEW t \in Threads, NEW i \in Segments, Call(t, i), ~dead
    PROVE  LookupInv'
<1>1. TypeOK /\ ~contended /\ OneInside /\ (\A u \in Threads : Inside(u) \/ thread[u] = Idle)
      BY DEF LookupInv, Call
<1>2. /\ ~Inside(t) /\ queue' = queue /\ dead' = dead /\ contended' = \E u \in Threads : Inside(u)
      /\ thread' = [thread EXCEPT ![t].pc = "test_front", ![t].index = i]
      BY DEF Call
<1>3. thread[t] = Idle
      BY <1>1, <1>2
<1>4. /\ queue \in QueueState /\ dead \in BOOLEAN /\ NumSegments \in Nat /\ NumSegments # 0
      /\ thread \in [Threads -> ThreadState] /\ thread[t] \in ThreadState
      BY <1>1, TypesAre
<1> DEFINE x == [thread[t] EXCEPT !.pc = "test_front", !.index = i]
<1>5. thread' = [thread EXCEPT ![t] = x]
      BY <1>2, <1>4
<1>6. x \in ThreadState /\ x.pc = "test_front" /\ x.index = i /\ x.rounds = 0
  <2>1. "test_front" \in Accesses /\ thread[t].rounds = 0
        BY <1>3 DEF Accesses, Idle
  <2>.  QED BY <2>1, <1>4 DEF ThreadState
<1>7. contended' \in BOOLEAN
      BY <1>2
<1>8. /\ TypeOK' /\ thread'[t] = x /\ \A u \in Threads : u # t => thread'[u] = thread[u]
  <2>1. queue' \in QueueState /\ dead' \in BOOLEAN
        BY <1>2, <1>4
  <2>.  QED BY <1>1, <1>5, <1>6, <1>7, <2>1, TypesAfter
<1>9. CASE \E u \in Threads : Inside(u)
  <2>1. contended'
        BY <1>2, <1>9
  <2>.  QED BY <1>8, <2>1 DEF LookupInv
<1>10. CASE \A u \in Threads : ~Inside(u)
  <2>1. PICK p : Orderly(p)
        BY <1>1 DEF LookupInv
  <2>2. Order(p) /\ Ring(queue, p)
        BY <1>10, <2>1 DEF Orderly
  <2>3. StageOf(x, queue', p)
        BY <1>2, <1>6, <2>2 DEF StageOf
  <2>4. Counted(x, p)
    <3>1. PICK k \in Places : p[k] = i
          BY <2>2 DEF Order
    <3>2. 0 + k < NumSegments
          BY <1>4 DEF Places
    <3>.  QED BY <3>1, <3>2, <1>6 DEF Counted
  <2>5. Inside(t)' /\ \A u \in Threads : u # t => ~Inside(u)' /\ thread'[u] = Idle
        BY <1>1, <1>6, <1>8, <1>10 DEF Inside
  <2>6. \A u \in Threads : Inside(u)' => StageOf(thread'[u], queue', p) /\ Counted(thread'[u], p)
        BY <1>8, <2>3, <2>4, <2>5
  <2>7. Orderly(p)'
        BY <2>2, <2>5, <2>6 DEF Orderly
  <2>8. OneInside' /\ \A u \in Threads : Inside(u)' \/ thread'[u] = Idle
        BY <2>5 DEF OneInside
  <2>9. ~dead'
        BY <1>2
  <2>.  QED BY <1>8, <2>7, <2>8, <2>9 DEF LookupInv
<1>. QED BY <1>9, <1>10

\* A call that no other overlaps meets no NULL.
LEMMA NoneDies ==
    ASSUME LookupInv, ~contended, NEW t \in Threads
    PROVE  ~Dies(t)
<1>1. TypeOK
      BY DEF LookupInv
<1>2. PICK p : Orderly(p)
      BY DEF LookupInv
<1>3. Order(p) /\ (Inside(t) => StageOf(thread[t], queue, p))
      BY <1>2 DEF Orderly
<1>4. p[0] # Null /\ p[NumSegments - 1] # Null
      BY <1>3, EndsAre
<1>5. ASSUME thread[t].pc \in {"test_front", "load_item"}
      PROVE  queue.front # Null
  <2>1. StageOf(thread[t], queue, p)
        BY <1>3, <1>5 DEF Inside
  <2>2. Ring(queue, p)
        BY <1>5, <2>1 DEF StageOf
  <2>.  QED BY <2>2, <1>4 DEF Ring
<1>6. ASSUME thread[t].pc \in {"link", "step_next", "cut"}
      PROVE  R(t) # Null
  <2>1. StageOf(thread[t], queue, p)
        BY <1>3, <1>6 DEF Inside
  <2>2. R(t) \in {p[0], p[NumSegments - 1]}
        BY <1>6, <2>1 DEF StageOf, R
  <2>.  QED BY <2>2, <1>4
<1>. QED BY <1>5, <1>6 DEF Dies

\* Once two calls have overlapped only the types are left.
LEMMA OverlappedKeeps ==
    ASSUME TypeOK, contended, Next
    PROVE  TypeOK' /\ contended'
<1>1. \A t \in Threads, i \in Segments : ~Call(t, i)
      BY DEF Call
<1>2. PICK t \in Threads : Step(t)
      BY <1>1 DEF Next
<1>3. /\ queue \in QueueState /\ dead \in BOOLEAN /\ NumSegments \in Nat
      /\ thread \in [Threads -> ThreadState] /\ thread[t] \in ThreadState
      BY TypesAre
<1>4. CASE Dies(t)
  <2>1. dead' = TRUE /\ queue' = queue /\ thread' = thread /\ contended' = contended
        BY <1>4 DEF Dies
  <2>.  QED BY <2>1 DEF TypeOK
<1>5. CASE (StequeFront(t) \/ StequeCycle(t)) /\ UNCHANGED <<dead, contended>>
  <2>1. PICK x : GoesOn(t, x)
        BY <1>5, AccessGoesOn
  <2>2. dead' \in BOOLEAN /\ contended' \in BOOLEAN /\ contended'
        BY <1>5, <1>3
  <2>.  QED BY <2>1, <2>2, TypesAfter DEF GoesOn
<1>6. CASE Compare(t) /\ UNCHANGED <<dead, contended>>
  <2> DEFINE y == [thread[t] EXCEPT !.pc = "test_front", !.rounds = 0]
  <2>1. PICK x : x \in {Idle, y} /\ thread' = [thread EXCEPT ![t] = x] /\ queue' = queue
        BY <1>6 DEF Compare
  <2>2. y \in ThreadState
    <3>1. "test_front" \in Accesses /\ 0 \in 0 .. NumSegments
          BY <1>3 DEF Accesses
    <3>.  QED BY <3>1, <1>3 DEF ThreadState
  <2>3. Idle \in ThreadState
        BY NumSegmentsAssumption DEF Idle, ThreadState, Pointer, Segments
  <2>4. x \in ThreadState
        BY <2>1, <2>2, <2>3
  <2>5. queue' \in QueueState /\ dead' \in BOOLEAN /\ contended' \in BOOLEAN /\ contended'
        BY <1>3, <1>6, <2>1
  <2>.  QED BY <2>1, <2>4, <2>5, TypesAfter
<1>. QED BY <1>2, <1>4, <1>5, <1>6 DEF Step

LEMMA LookupInvInit == Init => LookupInv
<1> SUFFICES ASSUME Init PROVE LookupInv
    OBVIOUS
<1>1. NumSegments \in Nat /\ NumSegments # 0
      BY NumSegmentsAssumption
<1>2. /\ queue = [front |-> NumSegments - 1, back |-> 0, next |-> [n \in Segments |-> n - 1]]
      /\ \A t \in Threads : thread[t] = Idle /\ ~Inside(t)
      /\ ~dead /\ ~contended
      BY DEF Init, Inside, Idle
<1>3. TypeOK
  <2>1. Idle \in [pc : Accesses \cup {"idle"}, index : Segments, item : Pointer,
                  r : Pointer, s : Pointer, rounds : 0 .. NumSegments]
        BY <1>1 DEF Idle, Pointer, Segments
  <2>2. [n \in Segments |-> n - 1] \in [Segments -> Pointer]
    <3>1. \A n \in Segments : n - 1 \in Pointer
          BY <1>1 DEF Segments, Pointer, Null
    <3>.  QED BY <3>1
  <2>3. NumSegments - 1 \in Pointer /\ 0 \in Pointer
        BY <1>1 DEF Segments, Pointer
  <2>4. queue \in [front : Pointer, back : Pointer, next : [Segments -> Pointer]]
        BY <1>2, <2>2, <2>3
  <2>5. thread = [t \in Threads |-> Idle] /\ dead \in BOOLEAN /\ contended \in BOOLEAN
        BY DEF Init
  <2>.  QED BY <2>1, <2>4, <2>5 DEF TypeOK
<1> DEFINE p == [k \in Places |-> NumSegments - 1 - k]
<1>4. \A k \in Places : p[k] = NumSegments - 1 - k /\ p[k] \in Segments
      BY <1>1 DEF Places, Segments
<1>5. Order(p)
  <2>1. p \in [Places -> Segments]
        BY <1>4
  <2>2. \A j, k \in Places : p[j] = p[k] => j = k
        BY <1>1, <1>4 DEF Places
  <2>3. ASSUME NEW s \in Segments
        PROVE  \E k \in Places : p[k] = s
    <3>1. NumSegments - 1 - s \in Places /\ NumSegments - 1 - (NumSegments - 1 - s) = s
          BY <1>1 DEF Places, Segments
    <3>.  QED BY <3>1, <1>4
  <2>.  QED BY <2>1, <2>2, <2>3 DEF Order
<1>6. Ring(queue, p)
  <2>1. queue.front = p[0] /\ queue.back = p[NumSegments - 1]
    <3>1. p[0] = NumSegments - 1 /\ p[NumSegments - 1] = 0
          BY <1>1, <1>4 DEF Places
    <3>.  QED BY <3>1, <1>2
  <2>2. ASSUME NEW k \in Places
        PROVE  queue.next[p[k]] = IF k = NumSegments - 1 THEN Null ELSE p[k + 1]
    <3>1. queue.next[p[k]] = p[k] - 1
          BY <1>2, <1>4
    <3>2. p[k] - 1 = NumSegments - 1 - k - 1 /\ k \in Nat /\ k =< NumSegments - 1
          BY <1>1, <1>4 DEF Places
    <3>3. CASE k = NumSegments - 1
          BY <1>1, <3>1, <3>2, <3>3 DEF Null
    <3>4. CASE k # NumSegments - 1
      <4>1. k + 1 \in Places
            BY <1>1, <3>2, <3>4 DEF Places
      <4>2. p[k + 1] = NumSegments - 1 - (k + 1)
            BY <4>1, <1>4
      <4>3. NumSegments - 1 - k - 1 = NumSegments - 1 - (k + 1)
            BY <1>1, <3>2
      <4>.  QED BY <3>1, <3>2, <3>4, <4>2, <4>3
    <3>.  QED BY <3>3, <3>4
  <2>.  QED BY <2>1, <2>2 DEF Ring
<1>7. Orderly(p)
      BY <1>2, <1>5, <1>6 DEF Orderly
<1>. QED BY <1>2, <1>3, <1>7 DEF LookupInv, OneInside

LEMMA LookupInvNext == LookupInv /\ [Next]_vars => LookupInv'
<1> SUFFICES ASSUME LookupInv, [Next]_vars PROVE LookupInv'
    OBVIOUS
<1>1. CASE UNCHANGED vars
      BY <1>1 DEF vars, LookupInv, TypeOK, OneInside, Inside, Orderly
<1>2. CASE Next /\ contended
  <2>1. TypeOK
        BY DEF LookupInv
  <2>.  QED BY <1>2, <2>1, OverlappedKeeps DEF LookupInv
<1>3. CASE Next /\ ~contended
  <2>1. PICK t \in Threads : Step(t) \/ \E i \in Segments : Call(t, i)
        BY <1>3 DEF Next
  <2>2. CASE \E i \in Segments : Call(t, i)
        BY <1>3, <2>2, CallKeeps DEF Next
  <2>3. CASE Step(t)
    <3>1. UNCHANGED <<dead, contended>> /\ (StequeFront(t) \/ StequeCycle(t) \/ Compare(t))
          BY <1>3, <2>3, NoneDies DEF Step
    <3>2. CASE Compare(t)
          BY <1>3, <3>1, <3>2, CompareKeeps
    <3>3. CASE StequeFront(t) \/ StequeCycle(t)
      <4>1. PICK p : Orderly(p)
            BY <1>3 DEF LookupInv
      <4>2. TypeOK /\ Order(p)
            BY <4>1 DEF LookupInv, Orderly
      <4>3. Inside(t)
            BY <3>3 DEF Inside, StequeFront, StequeCycle, LinkLast, MoveBack, MoveFront, CutLast,
                        Load, Store
      <4>4. StageOf(thread[t], queue, p)
            BY <4>1, <4>3 DEF Orderly
      <4>5. GoesOnIn(t, p)
            BY <3>3, <4>2, <4>4, FrontGoesOn, TestGoesOn, LinkGoesOn, BackGoesOn, MoveGoesOn,
               CutGoesOn DEF StequeCycle
      <4>.  QED BY <1>3, <3>1, <4>1, <4>3, <4>5, AloneGoesOn
    <3>.  QED BY <3>1, <3>2, <3>3
  <2>.  QED BY <2>1, <2>2, <2>3
<1>. QED BY <1>1, <1>2, <1>3

LEMMA LookupInvHolds == Spec => []LookupInv
BY LookupInvInit, LookupInvNext, PTL DEF Spec

-----------------------------------------------------------------------------
(***************************************************************************)
(* Following the links.                                                    *)
(***************************************************************************)
LEMMA LeastElement ==
    ASSUME NEW T \in SUBSET Nat, T # {}
    PROVE  \E n \in T : \A m \in T : n <= m
<1>1. PICK n \in T : \A m \in T : ~(<<m, n>> \in OpToRel(<, Nat))
      BY NatLessThanWellFounded, WFMin, Zenon
<1>2. \A m \in T : ~(m < n)
      BY <1>1 DEF OpToRel
<1>. QED BY <1>2

\* A set that has 0 and the successors of its members has every natural.
LEMMA SetInduction ==
    ASSUME NEW S, 0 \in S, \A n \in Nat : n \in S => n + 1 \in S
    PROVE  \A n \in Nat : n \in S
<1> DEFINE T == Nat \ S
<1> SUFFICES ASSUME T # {} PROVE FALSE
    OBVIOUS
<1>1. T \in SUBSET Nat
      OBVIOUS
<1> HIDE DEF T
<1>2. PICK n \in T : \A m \in T : n <= m
      BY <1>1, LeastElement
<1>3. n \in Nat /\ n \notin S
      BY <1>2 DEF T
<1>4. n # 0 /\ n - 1 \in Nat /\ n - 1 \in S
      BY <1>2, <1>3 DEF T
<1>. QED BY <1>3, <1>4

\* One link from the node that g has for k - 1.
Link(g, k) ==
    IF k = 0 THEN queue.front ELSE IF g[k - 1] = Null THEN Null ELSE queue.next[g[k - 1]]

\* From the front the links lead through the segments in their order, to Null.
LEMMA AtIs ==
    ASSUME NEW p, Order(p), Ring(queue, p)
    PROVE  \A k \in 0 .. NumSegments : At[k] = IF k < NumSegments THEN p[k] ELSE Null
<1> DEFINE h == [k \in 0 .. NumSegments |-> IF k < NumSegments THEN p[k] ELSE Null]
           Follows(g) == g = [k \in 0 .. NumSegments |-> Link(g, k)]
<1>1. /\ NumSegments \in Nat /\ NumSegments # 0
      /\ queue.front = p[0]
      /\ \A k \in Places : queue.next[p[k]] = IF k = NumSegments - 1 THEN Null ELSE p[k + 1]
      BY NumSegmentsAssumption DEF Ring
<1>2. ASSUME NEW k \in 0 .. NumSegments, NEW g, k # 0 => g[k - 1] = h[k - 1]
      PROVE  Link(g, k) = h[k]
  <2>1. CASE k = 0
    <3>1. h[k] = p[0]
          BY <1>1, <2>1
    <3>.  QED BY <3>1, <1>1, <2>1 DEF Link
  <2>2. CASE k # 0
    <3>1. k - 1 \in 0 .. NumSegments /\ k - 1 \in Places /\ k - 1 < NumSegments /\ (k - 1) + 1 = k
          BY <1>1, <2>2 DEF Places
    <3>2. g[k - 1] = p[k - 1] /\ p[k - 1] # Null
          BY <1>2, <2>2, <3>1, EndsAre DEF Segments, Null
    <3>3. Link(g, k) = queue.next[p[k - 1]]
          BY <2>2, <3>2 DEF Link
    <3>4. queue.next[p[k - 1]] = IF k - 1 = NumSegments - 1 THEN Null ELSE p[k]
          BY <1>1, <3>1
    <3>5. k - 1 = NumSegments - 1 <=> ~(k < NumSegments)
          BY <1>1
    <3>.  QED BY <3>3, <3>4, <3>5
  <2>.  QED BY <2>1, <2>2
<1> HIDE DEF h
<1>3. Follows(h)
  <2>1. h = [k \in 0 .. NumSegments |-> h[k]]
        BY DEF h
  <2>2. \A k \in 0 .. NumSegments : Link(h, k) = h[k]
        BY <1>2
  <2>.  QED BY <2>1, <2>2
<1>4. PICK a : a = At
      OBVIOUS
<1>5. Follows(a)
  <2>1. At = CHOOSE g : Follows(g)
        BY DEF At, Link
  <2>.  QED BY <1>3, <1>4, <2>1
<1>6. \A k \in 0 .. NumSegments : a[k] = Link(a, k)
      BY <1>5
<1> DEFINE S == {k \in Nat : k <= NumSegments => a[k] = h[k]}
<1>7. 0 \in S
  <2>1. 0 \in 0 .. NumSegments
        BY <1>1
  <2>2. a[0] = h[0]
        BY <1>2, <1>6, <2>1
  <2>.  QED BY <2>2
<1>8. ASSUME NEW k \in Nat, k \in S
      PROVE  k + 1 \in S
  <2>1. CASE k + 1 <= NumSegments
    <3>1. k + 1 \in 0 .. NumSegments /\ (k + 1) - 1 = k /\ k <= NumSegments
          BY <1>1, <2>1
    <3>2. a[k] = h[k]
          BY <1>8, <3>1
    <3>3. Link(a, k + 1) = h[k + 1]
          BY <1>2, <3>1, <3>2
    <3>.  QED BY <1>6, <3>1, <3>3
  <2>2. CASE ~(k + 1 <= NumSegments)
        BY <2>2
  <2>.  QED BY <2>1, <2>2
<1>9. \A k \in Nat : k \in S
  <2>.  HIDE DEF S
  <2>.  QED BY <1>7, <1>8, SetInduction
<1>10. \A k \in 0 .. NumSegments : a[k] = h[k]
       BY <1>1, <1>9
<1>. QED BY <1>4, <1>10 DEF h

-----------------------------------------------------------------------------
(***************************************************************************)
(* The theorems.                                                           *)
(***************************************************************************)
\* find_segment damages the queue, or dies, only if two calls overlapped: until
\* then every time no call runs the queue holds each segment once and ends with
\* its back.
THEOREM QueueIntact == Spec => []IntactUnlessContended
<1>1. LookupInv => IntactUnlessContended
  <2> SUFFICES ASSUME LookupInv, ~contended, \A t \in Threads : ~Inside(t)
               PROVE  /\ {At[k] : k \in 0 .. NumSegments - 1} = Segments
                      /\ queue.back = At[NumSegments - 1]
                      /\ At[NumSegments] = Null
      BY DEF LookupInv, IntactUnlessContended, RingIntact
  <2>1. PICK p : Orderly(p)
        BY DEF LookupInv
  <2>2. Order(p) /\ Ring(queue, p)
        BY <2>1 DEF Orderly
  <2>3. NumSegments \in Nat /\ NumSegments # 0
        BY NumSegmentsAssumption
  <2>4. At[NumSegments] = Null
    <3>1. NumSegments \in 0 .. NumSegments /\ ~(NumSegments < NumSegments)
          BY <2>3
    <3>.  QED BY <2>2, <3>1, AtIs
  <2>5. \A k \in Places : At[k] = p[k]
    <3>1. \A k \in Places : k \in 0 .. NumSegments /\ k < NumSegments
          BY <2>3 DEF Places
    <3>.  QED BY <2>2, <3>1, AtIs
  <2>6. queue.back = At[NumSegments - 1]
    <3>1. NumSegments - 1 \in Places
          BY <2>3 DEF Places
    <3>.  QED BY <2>2, <2>5, <3>1 DEF Ring
  <2>7. {At[k] : k \in Places} = Segments
    <3>1. \A k \in Places : At[k] \in Segments
          BY <2>2, <2>5 DEF Order
    <3>2. \A s \in Segments : \E k \in Places : At[k] = s
          BY <2>2, <2>5 DEF Order
    <3>.  QED BY <3>1, <3>2
  <2>.  QED BY <2>4, <2>6, <2>7 DEF Places
<1>. QED BY <1>1, LookupInvHolds, PTL

\* A call that no other overlaps meets its segment before it has gone once round
\* the queue, although nothing in find_segment counts its rounds.
THEOREM LookupsReturn == Spec => []LookupReturns
<1>1. LookupInv => LookupReturns
  <2> SUFFICES ASSUME LookupInv, ~contended, NEW t \in Threads
               PROVE  thread[t].rounds < NumSegments
      BY DEF LookupReturns
  <2>1. NumSegments \in Nat /\ NumSegments # 0
        BY NumSegmentsAssumption
  <2>2. CASE thread[t] = Idle
        BY <2>1, <2>2 DEF Idle
  <2>3. CASE Inside(t)
    <3>1. PICK p : Orderly(p)
          BY DEF LookupInv
    <3>2. PICK k \in Places : thread[t].rounds + k < NumSegments
          BY <2>3, <3>1 DEF Orderly, Counted
    <3>3. thread[t].rounds \in Nat
      <4>1. TypeOK
            BY DEF LookupInv
      <4>2. thread[t] \in ThreadState
            BY <4>1, TypesAre
      <4>.  QED BY <4>2, <2>1 DEF ThreadState
    <3>.  QED BY <2>1, <3>2, <3>3 DEF Places
  <2>.  QED BY <2>2, <2>3 DEF LookupInv
<1>. QED BY <1>1, LookupInvHolds, PTL
=============================================================================
