------------------------------- MODULE GetFile -------------------------------
(***************************************************************************)
(* The GETFILE protocol of project1: the client program and its library    *)
(* (gfclient_download.c, gfclient.c), the single-threaded server           *)
(* (gfserver.c) and its handler (handler.c), over streams that may deliver *)
(* what was written in any number of pieces.  A client makes one request,  *)
(* the default, and runs in a directory of its own.                        *)
(*                                                                         *)
(* A stream carries cells.  Each word of a request or a header is two      *)
(* cells, so that a read can end inside it; the length is one, since a cut *)
(* inside it fails as one after it does; a cell of a file is one byte.     *)
(* The names of files are not parts of each other, and their bytes do not  *)
(* spell a header.  A position in a buffer is a number of cells.          *)
(***************************************************************************)
EXTENDS Integers, Sequences, FiniteSets

CONSTANTS
    Clients,        \* programs that each ask for one file
    Path,
    Files,          \* the paths the server has a file for
    Length,         \* the length of each
    RDBUFSIZE,      \* of the client's buffer
    BUFFER_SIZE,    \* of the handler's
    SocketRoom,     \* what the kernel keeps of a stream
    MaxCuts,        \* bound: the reads that return less than they could
    None

ASSUME FilesAssumption  == Files \subseteq Path
ASSUME LengthAssumption == Length \in [Files -> Nat]
\* A path, which begins with a slash in every workload, is no word of the protocol.
ASSUME PathAssumption   ==
    {"GETFILE", "GET", "GF_OK", "GF_FILE_NOT_FOUND", "length", "end", "mangled"}
      \cap Path = {}
ASSUME NoneAssumption   ==
    None \notin Clients \cup Path \cup {"mangled"} /\ None \notin {0, -1}
\* A header fits in the client's buffer, and leaves room for content.
ASSUME SizeAssumption ==
    /\ RDBUFSIZE \in Nat /\ RDBUFSIZE > 7
    /\ BUFFER_SIZE \in Nat \ {0}
    /\ SocketRoom \in Nat /\ SocketRoom >= 7
    /\ MaxCuts \in Nat

Word(w)    == <<<<w, 1>>, <<w, 2>>>>
IsLength(cell) == Len(cell) = 2 /\ cell[1] = "length"
Piece(p, from, to) == [i \in 1 .. to - from |-> <<p, from + i>>]
File(p) == Piece(p, 0, Length[p])

Request(p)        == Word("GETFILE") \o Word("GET") \o Word(p) \o Word("end")
Header(status, n) == Word("GETFILE") \o Word(status) \o <<<<"length", n>>>>
                     \o Word("end")

\* The request's buffer holds it; nothing is ever read past these.
BUFSIZE == 8

VARIABLES
    asked,      \* the path each client asks for
    local,      \* its file on disk, which holds what is written
    pc,         \* where each client is
    gfr,        \* its gfcrequest_t
    written,    \* the cells it gave to write_callback
    toServer, toClient,     \* the two streams of its connection
    inPieces,   \* history: the server got its request in more than one read
    cuts,       \* the reads so far that returned less than they could
    aborted,    \* the client of gfs_abort, which shut the listening socket
    backlog,    \* the connections to accept
    spc,        \* where the server is
    ctx,        \* its gfcontext_t
    sent,       \* handler_get's bytes_transferred
    exited      \* the server has ended

clientVars == <<asked, local, pc, gfr, written>>
connVars   == <<toServer, toClient, inPieces, cuts>>
serving    == <<spc, ctx, sent>>
serverVars == <<backlog, aborted, serving, exited>>
vars == <<clientVars, connVars, serverVars>>

listening == aborted = None

Status == {"GF_OK", "GF_FILE_NOT_FOUND", "GF_ERROR", "GF_INVALID"}
ClientStates == {"SCHEME", "METHOD", "LENGTH", "PATH", "CONTENT", "ERROR",
                 "NOT_FOUND", "DONE"}
Mangled == "mangled"    \* a path that is a part of the one that was asked for

NewRequest ==
    [sm |-> "SCHEME", status |-> "GF_INVALID", file_length |-> 0,
     rx_bytes |-> 0, total_rx_bytes |-> 0, header_pt |-> 0,
     length_start_idx |-> 0, content_pt |-> 0, ret |-> None,
     buffer |-> [i \in 1 .. RDBUFSIZE |-> <<>>]]

NewContext(c) ==
    [conn |-> c, path |-> None, status |-> "GF_OK", rx_bytes |-> 0,
     header_pt |-> 0, sm |-> "SCHEME", buffer |-> [i \in 1 .. BUFSIZE |-> <<>>]]

TypeOK ==
    /\ asked \in [Clients -> Path]
    /\ pc \in [Clients -> {"create", "send", "read", "returned", "closed"}]
    /\ \A c \in Clients :
         /\ gfr[c].sm \in ClientStates /\ gfr[c].status \in Status
         /\ gfr[c].content_pt \in 0 .. RDBUFSIZE - 1
         /\ gfr[c].rx_bytes \in Nat /\ gfr[c].total_rx_bytes \in Nat
         /\ gfr[c].ret \in {None, 0, -1}
         /\ Len(toServer[c]) <= BUFSIZE /\ Len(toClient[c]) <= SocketRoom
    /\ backlog \in Seq(Clients)
    /\ spc \in {"accept", "request", "header", "send", "not_found", "shutdown"}
    /\ ctx.conn \in Clients \cup {None}
    /\ ctx.path \in Path \cup {None, Mangled}
    /\ ctx.sm \in {"SCHEME", "METHOD", "PATH"}
    /\ sent \in Nat /\ cuts \in 0 .. MaxCuts
    /\ aborted \in Clients \cup {None} /\ exited \in BOOLEAN
    /\ local \in [Clients -> {"none", "open", "kept"}]

\* A server whose socket or content cannot be set up has ended from the start.
Init ==
    /\ asked \in [Clients -> Path]
    /\ local    = [c \in Clients |-> "none"]
    /\ pc       = [c \in Clients |-> "create"]
    /\ gfr      = [c \in Clients |-> NewRequest]
    /\ written  = [c \in Clients |-> <<>>]
    /\ toServer = [c \in Clients |-> <<>>]
    /\ toClient = [c \in Clients |-> <<>>]
    /\ inPieces = [c \in Clients |-> FALSE]
    /\ cuts = 0 /\ aborted = None /\ backlog = <<>>
    /\ spc = "accept" /\ ctx = NewContext(None) /\ sent = 0
    /\ exited \in BOOLEAN

-----------------------------------------------------------------------------
(***************************************************************************)
(* Both sides parse what their buffer holds at header_pt.                  *)
(***************************************************************************)
\* read puts cells into a buffer at position at.
Store(buffer, at, cells) ==
    [i \in DOMAIN buffer |->
        IF i \in at + 1 .. at + Len(cells) THEN cells[i - at] ELSE buffer[i]]

\* The record's buffer holds word w at header_pt.
At(g, w) ==
    /\ g.header_pt + 2 <= Len(g.buffer)
    /\ SubSeq(g.buffer, g.header_pt + 1, g.header_pt + 2) = Word(w)

Unparsed(g) == g.rx_bytes - g.header_pt

\* A read returns n of the cells there are and room for.
Read(n, there) ==
    /\ n \in 1 .. there
    /\ cuts' = IF n < there THEN cuts + 1 ELSE cuts
    /\ cuts' <= MaxCuts

-----------------------------------------------------------------------------
(***************************************************************************)
(* process_response, one operator per parse_ function: the records that it *)
(* may leave.  ret is set when the loop ends.  Until the content starts    *)
(* every read lands at the start of the buffer: a header that comes in     *)
(* pieces overwrites itself.  What the code then compares with FILE_NOT_   *)
(* FOUND or with the end is either too short, and it waits, or wrong.      *)
(***************************************************************************)
ParseScheme(g) ==
    IF g.sm # "SCHEME" \/ g.rx_bytes < 2 THEN {g}
    ELSE IF At(g, "GETFILE") THEN {[g EXCEPT !.sm = "METHOD", !.header_pt = 2]}
    ELSE {[g EXCEPT !.ret = -1]}

\* A bug: what is not OK is taken for FILE_NOT_FOUND.
NotFoundWordAny(g) == TRUE

NotFoundWord(g) == At(g, "GF_FILE_NOT_FOUND")

ParseMethod(g) ==
    IF g.sm # "METHOD" \/ Unparsed(g) < 2 THEN {g}
    ELSE IF At(g, "GF_OK") THEN
        \* It takes a cell more than the word.
        {IF Unparsed(g) = 2 THEN g
         ELSE [g EXCEPT !.sm = "LENGTH", !.status = "GF_OK",
                        !.header_pt = @ + 2, !.length_start_idx = @ + 4]}
    ELSE IF NotFoundWord(g) THEN {[g EXCEPT !.sm = "NOT_FOUND"]}
    ELSE {g, [g EXCEPT !.sm = "ERROR"]}

ParseLength(g) ==
    IF g.sm # "LENGTH" THEN {g}
    ELSE {[g EXCEPT !.sm = "PATH",
                    !.header_pt = IF IsLength(g.buffer[@ + 1]) THEN @ + 1 ELSE @]}

\* atoi of the cells from length_start_idx to header_pt.
LengthField(g) ==
    LET cell == g.buffer[g.length_start_idx + 1] IN
    IF g.header_pt > g.length_start_idx /\ IsLength(cell) THEN cell[2] ELSE 0

ContentStart(g) == g.header_pt + 2

ParsePath(g0) ==
    LET g == [g0 EXCEPT !.file_length = LengthField(g0)] IN
    IF g0.sm # "PATH" THEN {g0}
    ELSE IF Unparsed(g) < 2 THEN {g}
    ELSE IF At(g, "end") THEN
        {[g EXCEPT !.sm = "CONTENT", !.header_pt = @ + 2,
                   !.total_rx_bytes = @ - (g.header_pt + 2),
                   !.content_pt = ContentStart(g)]}
    ELSE {g, [g EXCEPT !.status = "GF_ERROR", !.ret = -1]}

\* The content that the buffer holds past content_pt.
Received(g) ==
    IF g.sm = "CONTENT" THEN SubSeq(g.buffer, g.content_pt + 1, g.rx_bytes)
    ELSE <<>>

\* A bug: the buffer is not used again from its start.
BufferFullNever(g) == FALSE

BufferFull(g) == g.rx_bytes = RDBUFSIZE

\* bytes_written is the length of written with what is received.
ParseContent(g, bytes_written) ==
    IF Received(g) = <<>> THEN g
    ELSE [g EXCEPT !.content_pt = IF BufferFull(g) THEN 0 ELSE g.rx_bytes,
                   !.rx_bytes   = IF BufferFull(g) THEN 0 ELSE @,
                   !.sm = IF bytes_written >= g.file_length THEN "DONE" ELSE @]

\* The tests that end the loop.
Conclude(g) ==
    IF g.sm = "DONE" THEN [g EXCEPT !.ret = 0]
    ELSE IF g.sm = "ERROR" THEN [g EXCEPT !.ret = 0, !.status = "GF_ERROR"]
    ELSE IF g.sm = "NOT_FOUND"
        THEN [g EXCEPT !.ret = 0, !.status = "GF_FILE_NOT_FOUND"]
    ELSE g

\* What the loop still looks at: the buffer until the content starts, and after
\* the loop the status.  The rest is set back, which nobody can tell.
Forget(g) ==
    IF g.ret # None
      THEN [NewRequest EXCEPT !.sm = g.sm, !.status = g.status, !.ret = g.ret]
    ELSE IF g.sm = "CONTENT" THEN [g EXCEPT !.buffer = NewRequest.buffer]
    ELSE g

\* request_size; 0 once an empty file's header has come.
RequestSize(g) ==
    LET room == RDBUFSIZE - g.content_pt
        left == g.file_length - g.total_rx_bytes IN
    IF g.sm = "CONTENT" /\ room > left THEN left ELSE room

-----------------------------------------------------------------------------
(***************************************************************************)
(* The client: main opens the local file, and gfc_perform fills it.        *)
(***************************************************************************)
\* The workload is empty, or the directory or the file cannot be made: exit.
OpenFileFails(c) ==
    /\ pc[c] = "create"
    /\ pc' = [pc EXCEPT ![c] = "closed"]
    /\ UNCHANGED <<asked, local, gfr, written, connVars, serverVars>>

\* openFile and connect; error() ends the program if nobody listens, and leaves
\* the file as it is.
Connect(c) ==
    /\ pc[c] = "create"
    /\ IF listening /\ ~exited
         THEN /\ pc' = [pc EXCEPT ![c] = "send"]
              /\ local' = [local EXCEPT ![c] = "open"]
              /\ backlog' = Append(backlog, c)
         ELSE /\ pc' = [pc EXCEPT ![c] = "closed"]
              /\ local' = [local EXCEPT ![c] = "kept"]
              /\ UNCHANGED backlog
    /\ UNCHANGED <<asked, gfr, written, connVars, aborted, serving, exited>>

\* A write that fails is only reported.
SendRequest(c) ==
    /\ pc[c] = "send"
    /\ pc' = [pc EXCEPT ![c] = "read"]
    /\ \/ toServer' = [toServer EXCEPT ![c] = Request(asked[c])]
       \/ exited /\ UNCHANGED toServer
    /\ UNCHANGED <<asked, local, gfr, written, toClient, inPieces, cuts, serverVars>>

\* read returns the next n cells, and the state machine takes them.
ReadResponse(c) ==
    /\ pc[c] = "read"
    /\ \E n \in 1 .. Len(toClient[c]) :
         /\ Read(n, IF RequestSize(gfr[c]) < Len(toClient[c])
                    THEN RequestSize(gfr[c]) ELSE Len(toClient[c]))
         /\ \E g \in {[gfr[c] EXCEPT
                         !.buffer = Store(@, gfr[c].content_pt,
                                          SubSeq(toClient[c], 1, n)),
                         !.rx_bytes = @ + n, !.total_rx_bytes = @ + n]} :
            \E g1 \in ParseScheme(g) : \E g2 \in ParseMethod(g1) :
            \E g3 \in ParseLength(g2) : \E g4 \in ParsePath(g3) :
              /\ written' = [written EXCEPT ![c] = @ \o Received(g4)]
              /\ gfr' = [gfr EXCEPT ![c] =
                   Forget(Conclude(ParseContent(g4, Len(written'[c]))))]
         /\ toClient' = [toClient EXCEPT ![c] = SubSeq(@, n + 1, Len(@))]
    /\ pc' = [pc EXCEPT ![c] = IF gfr'[c].ret = None THEN "read" ELSE "returned"]
    /\ UNCHANGED <<asked, local, toServer, inPieces, serverVars>>

\* read returns 0 or -1: the time-out of a second, whatever is on its way; the
\* end of the stream; a connection that was reset; or a request_size of 0.
ReadResponseFails(c) ==
    /\ pc[c] = "read"
    /\ gfr' = [gfr EXCEPT ![c] = Forget([@ EXCEPT !.ret = -1])]
    /\ pc'  = [pc EXCEPT ![c] = "returned"]
    /\ UNCHANGED <<asked, local, written, connVars, serverVars>>

\* A bug: only the status is looked at.
KeptByStatus(g) == g.status = "GF_OK"

\* The two unlinks that a request leaves out.
Kept(g) == g.ret = 0 /\ g.status = "GF_OK"

\* The rest of main, which need not come soon.
Close(c) ==
    /\ pc[c] = "returned"
    /\ pc' = [pc EXCEPT ![c] = "closed"]
    /\ local' = [local EXCEPT ![c] = IF Kept(gfr[c]) THEN "kept" ELSE "none"]
    /\ toClient' = [toClient EXCEPT ![c] = <<>>]
    /\ UNCHANGED <<asked, gfr, written, toServer, inPieces, cuts, serverVars>>

-----------------------------------------------------------------------------
(***************************************************************************)
(* The server: gfserver_serve.                                             *)
(***************************************************************************)
Accept ==
    /\ spc = "accept" /\ listening /\ backlog # <<>>
    /\ ctx' = NewContext(Head(backlog))
    /\ backlog' = Tail(backlog)
    /\ spc' = "request"
    /\ UNCHANGED <<clientVars, connVars, aborted, sent, exited>>

\* accept and then read fail because gfs_abort shut the listening socket: the
\* handler is called without a path, and content_get compares it.
AcceptFails ==
    /\ spc = "accept" /\ ~listening
    /\ exited' = TRUE
    /\ UNCHANGED <<clientVars, connVars, backlog, aborted, serving>>

\* What process_request makes of its buffer; status is not GF_OK where a parse_
\* function returns -1.
ServerScheme(x) ==
    IF x.sm # "SCHEME" \/ x.rx_bytes < 2 THEN x
    ELSE IF At(x, "GETFILE") THEN [x EXCEPT !.sm = "METHOD", !.header_pt = 2]
    ELSE [x EXCEPT !.status = "GF_FILE_NOT_FOUND"]

ServerMethod(x) ==
    IF x.sm # "METHOD" \/ Unparsed(x) < 2 THEN x
    ELSE IF At(x, "GET") THEN [x EXCEPT !.sm = "PATH", !.header_pt = 4]
    ELSE [x EXCEPT !.status = "GF_FILE_NOT_FOUND"]

\* The next word, which may be the first half of a path; nothing yet, and the
\* path stays as it is.  The words after it are no path.
ServerPath(x, p) ==
    IF x.sm # "PATH" \/ x.path # None \/ x.buffer[x.header_pt + 1] = <<>> THEN x
    ELSE [x EXCEPT !.path = IF At(x, p) THEN p ELSE Mangled]

\* A read of n cells at header_pt.
ReadRequest ==
    /\ spc = "request"
    /\ LET c == ctx.conn IN
       \E n \in 1 .. Len(toServer[c]) :
       \E x \in {[ctx EXCEPT !.rx_bytes = @ + n,
                     !.buffer = Store(@, ctx.header_pt,
                                      SubSeq(toServer[c], 1, n))]} :
         /\ Read(n, Len(toServer[c]))
         /\ ctx' = ServerPath(ServerMethod(ServerScheme(x)), asked[c])
         /\ spc' = IF ctx'.status = "GF_OK" THEN "request" ELSE "not_found"
         /\ toServer' = [toServer EXCEPT ![c] = SubSeq(@, n + 1, Len(@))]
         /\ inPieces' = [inPieces EXCEPT ![c] = @ \/ n < Len(toServer[c])]
    /\ UNCHANGED <<clientVars, toClient, backlog, aborted, sent, exited>>

\* content_get finds the path.
ContentGet(p) == p \in Files

\* A bug: the server waits for the client, however long it takes.
NothingMoreEver(c) == toServer[c] = <<>> /\ pc[c] = "closed"

NothingMore(c) == toServer[c] = <<>>

\* Nothing came for a second, or the client has closed: process_request returns
\* -1, for every request that is not malformed, and the handler looks for the
\* path.  Without one, content_get compares a null pointer.  The handler does
\* not look at the buffer.
ReadRequestEnds ==
    /\ spc = "request" /\ NothingMore(ctx.conn)
    /\ \/ /\ ctx.path = None /\ Files # {}
          /\ exited' = TRUE
          /\ UNCHANGED spc
       \/ /\ ctx.path # None \/ Files = {}
          /\ spc' = IF ContentGet(ctx.path) THEN "header" ELSE "not_found"
          /\ UNCHANGED exited
    /\ ctx' = [NewContext(ctx.conn) EXCEPT !.path = ctx.path]
    /\ UNCHANGED <<clientVars, connVars, backlog, aborted, sent>>

\* Cells for a client that is gone go nowhere.
Deliver(c, cells) ==
    /\ toClient' = IF pc[c] = "closed" THEN toClient
                   ELSE [toClient EXCEPT ![c] = @ \o cells]
    /\ UNCHANGED <<clientVars, toServer, inPieces, cuts>>

SendNotFound ==
    /\ spc = "not_found"
    /\ Deliver(ctx.conn, Header("GF_FILE_NOT_FOUND", 0))
    /\ spc' = "shutdown"
    /\ UNCHANGED <<backlog, aborted, ctx, sent, exited>>

SendHeader ==
    /\ spc = "header"
    /\ Deliver(ctx.conn, Header("GF_OK", Length[ctx.path]))
    /\ sent' = 0
    /\ spc' = IF Length[ctx.path] = 0 THEN "shutdown" ELSE "send"
    /\ UNCHANGED <<backlog, aborted, ctx, exited>>

Chunk == Piece(ctx.path, sent,
               IF sent + BUFFER_SIZE < Length[ctx.path] THEN sent + BUFFER_SIZE
               ELSE Length[ctx.path])

\* gfs_send takes the whole chunk.
SendChunk ==
    /\ spc = "send"
    /\ pc[ctx.conn] = "closed"
         \/ Len(toClient[ctx.conn]) + Len(Chunk) <= SocketRoom
    /\ Deliver(ctx.conn, Chunk)
    /\ sent' = sent + Len(Chunk)
    /\ spc' = IF sent' < Length[ctx.path] THEN "send" ELSE "shutdown"
    /\ UNCHANGED <<backlog, aborted, ctx, exited>>

\* gfs_abort: whoever waits in the backlog is reset.
Abort ==
    /\ aborted' = ctx.conn
    /\ backlog' = <<>>

\* gfs_send times out with a part of the chunk or fails because the client is
\* gone; gfs_abort shuts the connection and the listening socket.
SendChunkFails ==
    /\ spc = "send"
    /\ LET room == SocketRoom - Len(toClient[ctx.conn]) IN
       /\ pc[ctx.conn] = "closed" \/ room < Len(Chunk)
       /\ Deliver(ctx.conn, SubSeq(Chunk, 1, room))
    /\ Abort
    /\ spc' = "shutdown"
    /\ UNCHANGED <<ctx, sent, exited>>

\* The client is gone, and SIGPIPE ends the server.
BrokenPipe ==
    /\ spc = "send" /\ pc[ctx.conn] = "closed"
    /\ exited' = TRUE
    /\ UNCHANGED <<clientVars, connVars, backlog, aborted, serving>>

\* A bug: each connection is ended with gfs_abort.
OtherSocketsAbort == Abort

OtherSockets == UNCHANGED <<backlog, aborted>>

\* shutdown(context_fd), and free(ctx).
Shutdown ==
    /\ spc = "shutdown"
    /\ spc' = "accept"
    /\ ctx' = NewContext(None) /\ sent' = 0
    /\ OtherSockets
    /\ UNCHANGED <<clientVars, connVars, exited>>

-----------------------------------------------------------------------------
ClientStep(c) ==
    \/ OpenFileFails(c) \/ Connect(c) \/ SendRequest(c)
    \/ ReadResponse(c) \/ ReadResponseFails(c)

ServerStep ==
    /\ ~exited
    /\ \/ Accept \/ AcceptFails \/ ReadRequest \/ ReadRequestEnds
       \/ SendNotFound \/ SendHeader \/ SendChunk \/ SendChunkFails
       \/ BrokenPipe \/ Shutdown

Next == ServerStep \/ \E c \in Clients : ClientStep(c) \/ Close(c)

Spec == Init /\ [][Next]_vars

\* The server runs; a client may stop anywhere.
FairSpec == Spec /\ WF_vars(ServerStep)

-----------------------------------------------------------------------------
\* A file arrives in order, and what a client keeps on disk is all of it,
\* however the header and the content were cut into reads and whichever side
\* gave up first.  A client that found no server leaves an empty file.
KeptMeansWhole ==
    \A c \in Clients :
      /\ written[c] # <<>> => /\ asked[c] \in Files
                              /\ Len(written[c]) <= Length[asked[c]]
                              /\ written[c] = Piece(asked[c], 0, Len(written[c]))
      /\ local[c] = "kept" => \/ gfr[c] = NewRequest /\ written[c] = <<>>
                              \/ asked[c] \in Files /\ written[c] = File(asked[c])
      /\ pc[c] = "closed" /\ gfr[c].ret = 0 /\ gfr[c].status = "GF_OK"
         => local[c] = "kept"

\* A client is told GF_FILE_NOT_FOUND of a file that exists only if the server
\* read its request in pieces.
NotFoundIsTrue ==
    \A c \in Clients :
      gfr[c].status = "GF_FILE_NOT_FOUND" /\ asked[c] \in Files => inPieces[c]

\* A server ends because of the client whose request it could not take, or that
\* did not take the answer: never because of one that is told it has its file.
OnlyNeglectEndsServer ==
    exited => LET c == IF listening THEN ctx.conn ELSE aborted IN
              c # None => ~(gfr[c].ret = 0 /\ gfr[c].status = "GF_OK")

\* One client cannot hold up the others: a connection leaves the backlog, unless
\* the server ends.
ConnectionsServed ==
    \A c \in Clients :
      (c \in {backlog[i] : i \in DOMAIN backlog})
        ~> (exited \/ c \notin {backlog[i] : i \in DOMAIN backlog})
=============================================================================
