------------------------------- MODULE Handlers -------------------------------
(***************************************************************************)
(* The handlers that answer the requests of a server from files of its     *)
(* own or from an origin, without the cache daemon:                        *)
(*   "content"  handler_perform of project1, from the list of              *)
(*              ContentStore;                                              *)
(*   "file"     handle_with_file.c of project3, from a directory;          *)
(*   "curl"     handle_with_curl.c of project3, from an origin over HTTP.  *)
(* Several workers run them at once, each for one request at a time.  The  *)
(* files may change in the meantime, clients may go away, an origin may    *)
(* fail, and a process has only so many descriptors.                       *)
(***************************************************************************)
EXTENDS ContentStore, FiniteSetsExt

CONSTANTS
    Workers,
    ListFiles,      \* the lists of the "content" server
    Size,           \* of each file, at the start
    Sizes,          \* what a file may change to
    BUFFER_SIZE,
    MaxFds,         \* the descriptors that a process may have
    MaxChanges      \* bound on the changes of the files

ASSUME ListFilesAssumption == ListFiles \subseteq ListFile
ASSUME SizeAssumption == Sizes \subseteq Nat /\ Size \in [Files -> Sizes]
ASSUME HandlersBounds ==
    BUFFER_SIZE \in Nat \ {0} /\ MaxFds \in Nat /\ MaxChanges \in Nat

Unknown == -1       \* the length, when an origin does not tell

VARIABLES
    handler,
    size,       \* of each file now
    offset,     \* of each descriptor in the index: its file position
    worker,     \* the request of each worker
    opened,     \* the descriptors that handle_with_file has opened
    changes,
    exited      \* the process has exited

environment == <<size, changes>>
vars == <<store, handler, environment, offset, worker, opened, exited>>

Requests == Key \cup Path

\* request     what was asked for
\* len         file_len or filesize
\* done        bytes_transferred
\* chunk       read_len, or lump.size
\* header, got what the client got: the header, and how long a prefix
\* garbled     something else came after that prefix
\* mishap      history: what happened meanwhile that the handler cannot help
Request ==
    [pc : {"idle", "lookup", "announce", "test", "read", "send", "return",
           "failed"},
     request : Requests \cup {None}, fildes : Nat, len : Int, done : Nat,
     chunk : Nat, header : {"none", "ok", "not_found"}, got : Nat,
     garbled : BOOLEAN, mishap : SUBSET {"moved", "client", "origin"}]

NewRequest ==
    [pc |-> "idle", request |-> None, fildes |-> 0, len |-> 0, done |-> 0,
     chunk |-> 0, header |-> "none", got |-> 0, garbled |-> FALSE, mishap |-> {}]

TypeOK ==
    /\ handler \in {"content", "file", "curl"}
    /\ size \in [Files -> Nat]
    /\ offset \in [DOMAIN lines -> Nat]
    /\ worker \in [Workers -> Request]
    /\ opened \in 0 .. MaxFds /\ changes \in 0 .. MaxChanges
    /\ exited \in BOOLEAN

\* Only "content" has a list.
Init ==
    /\ handler \in {"content", "file", "curl"}
    /\ \/ handler = "content" /\ StoreInit(ListFiles)
       \/ /\ handler # "content"
          /\ lines = <<>> /\ index = "ready" /\ items = <<>>
          /\ capacity = InitialCapacity
    /\ size = Size /\ offset = [i \in DOMAIN lines |-> 0]
    /\ worker = [w \in Workers |-> NewRequest]
    /\ opened = 0 /\ changes = 0 /\ exited = FALSE

\* The files that can be meant by a request, and the one that is.
Named(r) == IF handler = "content" THEN {Opened(i) : i \in Lists(r)}
            ELSE {r} \cap Files
FileOf(w) == IF handler = "content" THEN Opened(worker[w].fildes)
             ELSE worker[w].request

Step(w, from) == worker[w].pc = from /\ ~exited
Become(w, r)  == worker' = [worker EXCEPT ![w] = r]
Goto(w, to)   == Become(w, [worker[w] EXCEPT !.pc = to])
Fail(w, why)  == Become(w, [worker[w] EXCEPT !.pc = "failed",
                                             !.mishap = @ \cup why])
Answer(w, header, len, to) ==
    Become(w, [worker[w] EXCEPT !.header = header, !.len = len, !.pc = to])

\* A worker of the server takes a request.
Ask(w) ==
    /\ Step(w, "idle") /\ index = "ready"
    /\ \E r \in IF handler = "content" THEN Key ELSE Path :
         Become(w, [NewRequest EXCEPT !.pc = "lookup", !.request = r])
    /\ UNCHANGED <<store, handler, environment, offset, opened, exited>>

-----------------------------------------------------------------------------
(***************************************************************************)
(* Up to the header.                                                       *)
(***************************************************************************)
\* content_get, which also rewinds the descriptor that all requests share.
Lookup(w) ==
    /\ handler = "content" /\ Step(w, "lookup")
    /\ LET fildes == Get(worker[w].request) IN
       \/ /\ fildes = -1
          /\ Answer(w, "not_found", 0, "return")
          /\ UNCHANGED offset
       \/ /\ fildes # -1
          /\ Become(w, [worker[w] EXCEPT !.fildes = fildes, !.pc = "announce"])
          /\ offset' = [offset EXCEPT ![fildes] = 0]
    /\ UNCHANGED <<store, handler, environment, opened, exited>>

\* open; the descriptor is never closed.
Open(w) ==
    /\ handler = "file" /\ Step(w, "lookup")
    /\ \/ opened = MaxFds /\ Fail(w, {}) /\ UNCHANGED opened
       \/ /\ opened < MaxFds /\ worker[w].request \notin Files
          /\ Answer(w, "not_found", 0, "return")
          /\ UNCHANGED opened
       \/ /\ opened < MaxFds /\ worker[w].request \in Files
          /\ opened' = opened + 1
          /\ Goto(w, "announce")
    /\ UNCHANGED <<store, handler, environment, offset, exited>>

\* The length by lseek, which moves the shared descriptor, and the header.
Announce(w) ==
    /\ Step(w, "announce")
    /\ LET len == size[FileOf(w)] IN
       /\ Answer(w, "ok", len, "test")
       /\ IF handler = "content"
          THEN offset' = [offset EXCEPT ![worker[w].fildes] = len]
          ELSE UNCHANGED offset
    /\ UNCHANGED <<store, handler, environment, opened, exited>>

\* The HEAD request.  What became of it is seen in the response code only, and
\* the length may be missing.
Head_(w) ==
    /\ handler = "curl" /\ Step(w, "lookup")
    /\ \/ Fail(w, {"origin"})
       \/ worker[w].request \notin Files /\ Answer(w, "not_found", 0, "return")
       \/ /\ worker[w].request \in Files
          /\ Answer(w, "ok", size[worker[w].request], "test")
       \/ /\ worker[w].request \in Files
          /\ Become(w, [worker[w] EXCEPT !.header = "ok", !.len = Unknown,
                          !.pc = "test", !.mishap = @ \cup {"origin"}])
    /\ UNCHANGED <<store, handler, environment, offset, opened, exited>>

-----------------------------------------------------------------------------
(***************************************************************************)
(* The loop that sends the file.                                           *)
(***************************************************************************)
TestDone(w) ==
    /\ Step(w, "test")
    /\ Goto(w, IF worker[w].done < worker[w].len THEN "read" ELSE "return")
    /\ UNCHANGED <<store, handler, environment, offset, opened, exited>>

\* A bug: the descriptor that all requests share is read where it stands.
ReadAtOffset(w) == IF handler = "content" THEN offset[worker[w].fildes]
                   ELSE worker[w].done

\* pread at bytes_transferred; handle_with_file reads a descriptor of its own.
ReadAt(w) == worker[w].done

\* Bugs: a read of nothing is the end of the file, or is tried again.
AfterNothingEnds(w)  == "return"
AfterNothingAgain(w) == "test"

\* gfs_abort and -1, or EXIT_FAILURE: the file has become shorter.
AfterNothing(w) == "failed"

Read(w) ==
    /\ handler # "curl" /\ Step(w, "read")
    /\ LET left == size[FileOf(w)] - ReadAt(w) IN
       \/ left <= 0 /\ Goto(w, AfterNothing(w))
       \/ /\ left > 0
          /\ Become(w, [worker[w] EXCEPT !.chunk = Min({BUFFER_SIZE, left}),
                                         !.pc = "send"])
    /\ UNCHANGED <<store, handler, environment, offset, opened, exited>>

\* write_callback: the bytes are put behind those of the request before.
Lump(w) == worker[w].chunk + size[FileOf(w)]

\* The GET request.
GetBody(w) ==
    /\ handler = "curl" /\ Step(w, "read")
    /\ \/ Fail(w, {"origin"})
       \/ Become(w, [worker[w] EXCEPT !.chunk = Lump(w), !.pc = "send"])
    /\ UNCHANGED <<store, handler, environment, offset, opened, exited>>

\* gfs_send, whole.  A lump that is sent again starts with what the client has.
Send(w) ==
    /\ Step(w, "send")
    /\ LET r == worker[w]
           repeated == handler = "curl" /\ r.got > 0 IN
       Become(w, [r EXCEPT !.done = @ + r.chunk, !.pc = "test",
                           !.got = IF repeated THEN @ ELSE @ + r.chunk,
                           !.garbled = @ \/ repeated])
    /\ UNCHANGED <<store, handler, environment, offset, opened, exited>>

\* gfs_send to a client that has gone; in handle_with_curl an ASSERT fails.
SendShort(w) ==
    /\ Step(w, "send")
    /\ worker[w].chunk > 0
    /\ Fail(w, {"client"})
    /\ exited' = (handler = "curl")
    /\ UNCHANGED <<store, handler, environment, offset, opened>>

Return(w) ==
    /\ ~exited /\ worker[w].pc \in {"return", "failed"}
    /\ Become(w, NewRequest)
    /\ UNCHANGED <<store, handler, environment, offset, opened, exited>>

Serve(w) ==
    \/ Lookup(w) \/ Open(w) \/ Announce(w) \/ Head_(w) \/ TestDone(w)
    \/ Read(w) \/ GetBody(w) \/ Send(w) \/ SendShort(w) \/ Return(w)

\* A file changes under the requests for it.
Change(p) ==
    /\ changes < MaxChanges
    /\ changes' = changes + 1
    /\ \E n \in Sizes \ {size[p]} : size' = [size EXCEPT ![p] = n]
    /\ worker' = [w \in Workers |->
         IF worker[w].pc # "idle" /\ p \in Named(worker[w].request)
         THEN [worker[w] EXCEPT !.mishap = @ \cup {"moved"}] ELSE worker[w]]
    /\ UNCHANGED <<store, handler, offset, opened, exited>>

Index == StoreNext /\ UNCHANGED <<handler, environment, offset, worker, opened, exited>>

Next == Index \/ (\E w \in Workers : Ask(w) \/ Serve(w)) \/ \E p \in Files : Change(p)

Spec     == Init /\ [][Next]_vars
FairSpec == Spec /\ \A w \in Workers : WF_vars(Serve(w))

-----------------------------------------------------------------------------
(***************************************************************************)
(* Properties                                                              *)
(***************************************************************************)
\* handler_perform and its kin: a request during which no file changed, and
\* neither the client nor the origin failed, returns with the whole file that its
\* name stands for, or with FILE_NOT_FOUND when it stands for none, whatever the
\* other workers did with the same descriptors; only handle_with_file may have
\* run out of descriptors, and then says nothing.  Something else than the file
\* can only come from handle_with_curl, when the origin changed the file.
AnsweredUnlessMishap ==
    /\ TypeOK
    /\ \A w \in Workers : LET r == worker[w] IN
         /\ r.pc = "failed" /\ r.mishap = {} =>
              handler = "file" /\ opened = MaxFds /\ r.header = "none"
         /\ r.pc = "return" /\ r.mishap = {} =>
              IF Named(r.request) = {} THEN r.header = "not_found"
              ELSE /\ r.header = "ok" /\ r.got = r.len
                   /\ \E p \in Named(r.request) : r.len = size[p]
         /\ r.garbled => handler = "curl" /\ "moved" \in r.mishap

\* Every request that a worker takes returns, unless the process exits; only
\* handle_with_curl may go on for ever, asking for a file that has become empty.
HandlersReturn ==
    \A w \in Workers :
      worker[w].pc # "idle" ~>
        \/ worker[w].pc = "idle" \/ exited
        \/ handler = "curl" /\ "moved" \in worker[w].mishap

\* The handlers implement the service, broken off where they fail or repeat
\* themselves.  A request stands for itself and the files that it names; a client
\* reads no more than was announced to it.
Asked == Requests \X SUBSET Path
Phase(w) ==
    IF worker[w].pc = "idle" THEN "idle"
    ELSE IF worker[w].pc = "failed" \/ worker[w].garbled THEN "broken"
    ELSE IF worker[w].pc \in {"lookup", "announce"} THEN "asked"
    ELSE IF worker[w].pc = "return" \/ worker[w].len <= 0 THEN "answered"
    ELSE "streaming"
Subject(w)   == IF worker[w].pc = "idle" THEN None
                ELSE <<worker[w].request, Named(worker[w].request)>>
Delivered(w) == IF worker[w].len <= 0 THEN 0
                ELSE Min({worker[w].got, worker[w].len})

Service == INSTANCE FileService WITH
    Paths     <- Asked,
    NoPath    <- None,
    Cached    <- {a \in Asked : a[2] # {}},
    Announced <- [a \in {a \in Asked : a[2] # {}} |-> Sizes \cup {Unknown}],
    MayBreak  <- TRUE,
    phase     <- [w \in Workers |-> Phase(w)],
    file      <- [w \in Workers |-> Subject(w)],
    header    <- [w \in Workers |-> worker[w].header],
    length    <- [w \in Workers |-> worker[w].len],
    delivered <- [w \in Workers |-> Delivered(w)]

ImplementsFileService == Service!Spec
=============================================================================
