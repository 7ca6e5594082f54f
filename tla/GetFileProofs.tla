---------------------------- MODULE GetFileProofs -----------------------------
(***************************************************************************)
(* The GETFILE protocol (GetFile): a client keeps whole files only, is told*)
(* the truth about files that do not exist, and does not end the server by *)
(* taking its answer.  For any number of clients, any files, any sizes of  *)
(* the buffers and any way in which the streams are cut.                   *)
(*                                                                         *)
(* What the client's parser can make of a stream depends on its first read *)
(* alone: the content starts only if that brings the whole header, since   *)
(* what a later read brings lands in front of its place.                   *)
(***************************************************************************)
EXTENDS GetFile, SequenceTheorems, TLAPS

-----------------------------------------------------------------------------
(***************************************************************************)
(* Streams and their cells.                                                *)
(***************************************************************************)
Names == {"GETFILE", "GET", "GF_OK", "GF_FILE_NOT_FOUND", "length", "end"} \cup Path
Cell  == {<<>>} \cup (Names \X Nat)

End2      == <<"end", 2>>
NotFound1 == <<"GF_FILE_NOT_FOUND", 1>>

\* The answers: one with a file, and one without.
OkStream(p) == Header("GF_OK", Length[p]) \o File(p)
NotFoundStream == Header("GF_FILE_NOT_FOUND", 0)

\* What c may be sent.
Answers(c) ==
    {OkStream(p) : p \in Files \cap {asked[c]}}
      \cup {S \in {NotFoundStream} : inPieces[c] \/ asked[c] \notin Files}

\* The stream s carries the cells of S from k + 1 to m.
Window(s, S, k, m) ==
    /\ s \in Seq(Cell) /\ Len(s) = m - k
    /\ \A i \in 1 .. m - k : s[i] = S[k + i]

-----------------------------------------------------------------------------
(***************************************************************************)
(* The invariant: the client.                                              *)
(***************************************************************************)
Buffers == {b \in Seq(Cell) : Len(b) = RDBUFSIZE}

ParserState ==
    [sm : ClientStates, status : Status, file_length : Nat, rx_bytes : Nat,
     total_rx_bytes : Nat, header_pt : Nat, length_start_idx : {0, 4},
     content_pt : 0 .. RDBUFSIZE - 1, ret : {None, 0, -1}, buffer : Buffers]

\* The cells of its answer that the client has read.
Got(g) == IF g.sm = "CONTENT" THEN g.total_rx_bytes + 7 ELSE g.total_rx_bytes

\* The header was cut: the parser waits for the end of it, which it will not meet.
Cut(g) ==
    /\ g.sm \in {"SCHEME", "METHOD", "PATH"} /\ g.status # "GF_FILE_NOT_FOUND"
    /\ g.rx_bytes = g.total_rx_bytes /\ g.rx_bytes # 0 /\ g.content_pt = 0
    /\ g.sm = "SCHEME" => g.rx_bytes = 1 /\ g.header_pt = 0
    /\ g.sm # "SCHEME" => g.rx_bytes >= 2
    /\ g.sm = "METHOD" => g.header_pt = 2
    /\ g.sm # "PATH"   => g.length_start_idx = 0
    /\ g.sm = "PATH"   => g.header_pt \in {4, 5}
    /\ g.buffer[6] # End2 /\ g.buffer[7] # End2

\* The content of the file p has started.
InContent(g, p) ==
    /\ g.sm = "CONTENT" /\ g.status = "GF_OK" /\ g.file_length = Length[p]
    /\ g.rx_bytes = g.content_pt

\* The first cells of the file p.
Prefix(w, p) ==
    /\ w \in Seq(Cell) /\ Len(w) <= Length[p]
    /\ \A i \in 1 .. Len(w) : w[i] = <<p, i>>

\* The parser g has read a part of S, and w of it was content.
Parsed(g, w, S, p) ==
    \/ g = NewRequest /\ w = <<>>
    \/ Cut(g) /\ w = <<>> /\ (S # NotFoundStream => g.buffer[3] # NotFound1)
    \/ /\ p \in Files /\ S = OkStream(p)
       /\ InContent(g, p) /\ Prefix(w, p) /\ Len(w) = g.total_rx_bytes

Full(c) == gfr[c].ret = 0 /\ gfr[c].status = "GF_OK"

Waits(c) == c \in {backlog[i] : i \in DOMAIN backlog}

\* The server has sent c nothing yet,
Before(c) == Waits(c) \/ (ctx.conn = c /\ spc \in {"request", "header", "not_found"})

\* or a part of its file.
Sending(c) == ctx.conn = c /\ spc = "send"

\* c has been sent m cells of S.
Sent(c, S, m) ==
    /\ Got(gfr[c]) <= m /\ Window(toClient[c], S, Got(gfr[c]), m)
    /\ Before(c) => m = 0
    /\ Sending(c) => S # NotFoundStream /\ m = 7 + sent
    /\ aborted = c => S # NotFoundStream /\ m < Len(S)
    /\ Parsed(gfr[c], written[c], S, asked[c])

Unsent(c) ==
    /\ toClient[c] = <<>> /\ gfr[c] = NewRequest /\ written[c] = <<>>
    /\ ~Sending(c) /\ aborted # c

ReturnedInv(c) ==
    /\ gfr[c].status = "GF_FILE_NOT_FOUND" => inPieces[c] \/ asked[c] \notin Files
    /\ written[c] # <<>> => asked[c] \in Files /\ Prefix(written[c], asked[c])
    /\ Full(c) => /\ asked[c] \in Files /\ Prefix(written[c], asked[c])
                  /\ Len(written[c]) = Length[asked[c]]
                  /\ ~Before(c) /\ ~Sending(c) /\ aborted # c

ClientInv(c) ==
    /\ pc[c] = "create" => ~Before(c) /\ ctx.conn # c /\ Unsent(c)
    /\ pc[c] \in {"create", "send"} =>
         gfr[c] = NewRequest /\ toServer[c] = <<>> /\ ~inPieces[c]
    /\ pc[c] \in {"create", "send", "read"} =>
         /\ gfr[c].ret = None /\ local[c] # "kept"
         /\ Unsent(c) \/ \E S \in Answers(c) : \E m \in 0 .. Len(S) : Sent(c, S, m)
    /\ pc[c] = "returned" => local[c] # "kept" /\ gfr[c].ret # None
    /\ pc[c] \in {"returned", "closed"} => ReturnedInv(c)
    /\ pc[c] = "closed" =>
         /\ Full(c) => local[c] = "kept"
         /\ local[c] = "kept" => Full(c) \/ (gfr[c] = NewRequest /\ written[c] = <<>>)
    /\ Before(c) => toClient[c] = <<>>

-----------------------------------------------------------------------------
(***************************************************************************)
(* The invariant: the server.                                              *)
(***************************************************************************)
ServerBuffers == {b \in Seq(Cell) : Len(b) = BUFSIZE}

ServerState ==
    [conn : Clients \cup {None}, path : Path \cup {None, Mangled}, status : Status,
     rx_bytes : Nat, header_pt : {0, 2, 4}, sm : {"SCHEME", "METHOD", "PATH"},
     buffer : ServerBuffers]

\* What the server has of the request of the client it serves.
RequestInv == LET c == ctx.conn IN
    /\ spc # "accept" => c \in Clients /\ ~Waits(c)
    /\ spc = "accept" => c = None
    /\ c # None =>
         /\ ctx.path \in {None, asked[c], Mangled}
         /\ spc \in {"request", "header"} /\ ~inPieces[c] => ctx.path # Mangled
         /\ spc = "request" /\ ~inPieces[c] =>
              \/ ctx = NewContext(c)
              \/ ctx.path = asked[c] /\ toServer[c] = <<>> /\ pc[c] # "send"
    /\ spc \in {"header", "send"} => ctx.path = asked[c] /\ c \in Clients /\ asked[c] \in Files
    /\ spc = "send" => sent < Length[asked[c]]
    /\ spc = "not_found" => inPieces[c] \/ asked[c] \notin Files

StreamsInv ==
    /\ \A c \in Clients : ~inPieces[c] => toServer[c] \in {<<>>, Request(asked[c])}
    /\ \A i, j \in DOMAIN backlog : backlog[i] = backlog[j] => i = j
    /\ exited /\ listening => ctx.conn = None \/ spc \in {"request", "send"}
    /\ ~listening => backlog = <<>> /\ spc \in {"accept", "shutdown"}

Shapes ==
    /\ asked \in [Clients -> Path]
    /\ local \in [Clients -> {"none", "open", "kept"}]
    /\ pc \in [Clients -> {"create", "send", "read", "returned", "closed"}]
    /\ gfr \in [Clients -> ParserState]
    /\ written \in [Clients -> Seq(Cell)]
    /\ toServer \in [Clients -> Seq(Cell)] /\ toClient \in [Clients -> Seq(Cell)]
    /\ \A c \in Clients : Len(toServer[c]) <= BUFSIZE /\ Len(toClient[c]) <= SocketRoom
    /\ inPieces \in [Clients -> BOOLEAN] /\ cuts \in 0 .. MaxCuts
    /\ aborted \in Clients \cup {None} /\ exited \in BOOLEAN
    /\ backlog \in Seq(Clients)
    /\ spc \in {"accept", "request", "header", "send", "not_found", "shutdown"}
    /\ ctx \in ServerState /\ sent \in Nat

GetFileInv ==
    /\ Shapes /\ RequestInv /\ StreamsInv
    /\ \A c \in Clients : ClientInv(c)

-----------------------------------------------------------------------------
(***************************************************************************)
(* Facts about the cells of the streams.                                   *)
(***************************************************************************)
LEMMA Constants ==
    /\ RDBUFSIZE \in Nat /\ RDBUFSIZE > 7 /\ SocketRoom \in Nat /\ SocketRoom >= 7
    /\ BUFFER_SIZE \in Nat /\ BUFFER_SIZE # 0 /\ MaxCuts \in Nat
    /\ \A p \in Files : p \in Path /\ Length[p] \in Nat
    /\ None \notin Clients /\ None \notin Path /\ None # Mangled /\ None # 0 /\ None # -1
    /\ Mangled \notin Path /\ None \notin Files /\ Mangled \notin Files
BY FilesAssumption, LengthAssumption, PathAssumption, NoneAssumption, SizeAssumption DEF Mangled

\* No name is a word of the protocol.
LEMMA NamesDiffer ==
    ASSUME NEW p \in Path
    PROVE  /\ p \in Names /\ p # "GETFILE" /\ p # "GET" /\ p # "GF_OK" /\ p # "GF_FILE_NOT_FOUND"
           /\ p # "length" /\ p # "end"
BY PathAssumption DEF Names

\* Two sequences of cells, one after the other.
LEMMA Joined ==
    ASSUME NEW s \in Seq(Cell), NEW t \in Seq(Cell)
    PROVE  /\ s \o t \in Seq(Cell) /\ Len(s \o t) = Len(s) + Len(t)
           /\ \A i \in 1 .. Len(s) : (s \o t)[i] = s[i]
           /\ \A i \in 1 .. Len(t) : (s \o t)[Len(s) + i] = t[i]
<1>1. Len(s) \in Nat /\ Len(t) \in Nat
      OBVIOUS
<1>2. /\ s \o t \in Seq(Cell) /\ Len(s \o t) = Len(s) + Len(t)
      /\ \A i \in 1 .. Len(s) + Len(t) :
           (s \o t)[i] = IF i <= Len(s) THEN s[i] ELSE t[i - Len(s)]
      BY ConcatProperties
<1>. QED BY <1>1, <1>2

LEMMA WordIs ==
    ASSUME NEW w \in Names
    PROVE  Word(w) \in Seq(Cell) /\ Len(Word(w)) = 2 /\ Word(w)[1] = <<w, 1>> /\ Word(w)[2] = <<w, 2>>
<1>1. <<w, 1>> \in Cell /\ <<w, 2>> \in Cell
      BY DEF Cell
<1>. QED BY <1>1 DEF Word

LEMMA HeaderIs ==
    ASSUME NEW w \in Names, NEW n \in Nat
    PROVE  /\ Header(w, n) \in Seq(Cell) /\ Len(Header(w, n)) = 7
           /\ Header(w, n)[1] = <<"GETFILE", 1>> /\ Header(w, n)[2] = <<"GETFILE", 2>>
           /\ Header(w, n)[3] = <<w, 1>> /\ Header(w, n)[4] = <<w, 2>>
           /\ Header(w, n)[5] = <<"length", n>>
           /\ Header(w, n)[6] = <<"end", 1>> /\ Header(w, n)[7] = End2
<1> DEFINE a == Word("GETFILE")
           b == Word(w)
           l == <<<<"length", n>>>>
           d == Word("end")
<1>1. /\ a \in Seq(Cell) /\ Len(a) = 2 /\ a[1] = <<"GETFILE", 1>> /\ a[2] = <<"GETFILE", 2>>
      /\ b \in Seq(Cell) /\ Len(b) = 2 /\ b[1] = <<w, 1>> /\ b[2] = <<w, 2>>
      /\ d \in Seq(Cell) /\ Len(d) = 2 /\ d[1] = <<"end", 1>> /\ d[2] = End2
      BY WordIs DEF Names, End2
<1>2. l \in Seq(Cell) /\ Len(l) = 1 /\ l[1] = <<"length", n>>
  <2>1. <<"length", n>> \in Cell
        BY DEF Cell, Names
  <2>.  QED BY <2>1
<1>3. Header(w, n) = a \o b \o l \o d
      BY DEF Header
<1> HIDE DEF a, b, l, d
<1>5. PICK x : x = a \o b
      OBVIOUS
<1>4. /\ x \in Seq(Cell) /\ Len(x) = 4
      /\ x[1] = a[1] /\ x[2] = a[2] /\ x[3] = b[1] /\ x[4] = b[2]
  <2>1. a \in Seq(Cell) /\ b \in Seq(Cell)
        BY <1>1
  <2>2. /\ x \in Seq(Cell) /\ Len(x) = Len(a) + Len(b)
        /\ \A i \in 1 .. Len(a) : x[i] = a[i]
        /\ \A j \in 1 .. Len(b) : x[Len(a) + j] = b[j]
        BY <1>5, <2>1, Joined
  <2>.  QED BY <1>1, <2>2
<1>7. PICK y : y = x \o l
      OBVIOUS
<1>6. /\ y \in Seq(Cell) /\ Len(y) = 5
      /\ y[1] = a[1] /\ y[2] = a[2] /\ y[3] = b[1] /\ y[4] = b[2] /\ y[5] = l[1]
  <2>1. x \in Seq(Cell) /\ l \in Seq(Cell)
        BY <1>2, <1>4
  <2>2. /\ y \in Seq(Cell) /\ Len(y) = Len(x) + Len(l)
        /\ \A i \in 1 .. Len(x) : y[i] = x[i]
        /\ \A j \in 1 .. Len(l) : y[Len(x) + j] = l[j]
        BY <1>7, <2>1, Joined
  <2>.  QED BY <1>2, <1>4, <2>2
<1>8. /\ y \o d \in Seq(Cell) /\ Len(y \o d) = 7
      /\ (y \o d)[1] = a[1] /\ (y \o d)[2] = a[2] /\ (y \o d)[3] = b[1] /\ (y \o d)[4] = b[2]
      /\ (y \o d)[5] = l[1] /\ (y \o d)[6] = d[1] /\ (y \o d)[7] = d[2]
  <2>1. PICK z : z = y \o d
        OBVIOUS
  <2>2. y \in Seq(Cell) /\ d \in Seq(Cell)
        BY <1>1, <1>6
  <2>3. /\ z \in Seq(Cell) /\ Len(z) = Len(y) + Len(d)
        /\ \A i \in 1 .. Len(y) : z[i] = y[i]
        /\ \A j \in 1 .. Len(d) : z[Len(y) + j] = d[j]
        BY <2>1, <2>2, Joined
  <2>4. z[1] = y[1] /\ z[2] = y[2] /\ z[3] = y[3] /\ z[4] = y[4] /\ z[5] = y[5]
        BY <1>6, <2>3
  <2>5. z[6] = d[1] /\ z[7] = d[2] /\ Len(z) = 7
        BY <1>1, <1>6, <2>3
  <2>.  QED BY <1>6, <2>1, <2>3, <2>4, <2>5
<1>. QED BY <1>1, <1>2, <1>3, <1>5, <1>7, <1>8

LEMMA PieceIs ==
    ASSUME NEW p \in Path, NEW i \in Nat, NEW j \in Nat, i <= j
    PROVE  /\ Piece(p, i, j) \in Seq(Cell) /\ Len(Piece(p, i, j)) = j - i
           /\ \A k \in 1 .. j - i : Piece(p, i, j)[k] = <<p, i + k>>
<1>1. Piece(p, i, j) = [k \in 1 .. j - i |-> <<p, i + k>>]
      BY DEF Piece
<1>2. PICK n \in Nat : n = j - i
      OBVIOUS
<1>3. \A k \in 1 .. n : <<p, i + k>> \in Cell
      BY NamesDiffer DEF Cell
<1>4. Piece(p, i, j) \in [1 .. n -> Cell]
      BY <1>1, <1>2, <1>3
<1>5. Piece(p, i, j) \in Seq(Cell) /\ Len(Piece(p, i, j)) = n
      BY <1>2, <1>4
<1>. QED BY <1>1, <1>2, <1>5

LEMMA NotFoundIs ==
    /\ NotFoundStream \in Seq(Cell) /\ Len(NotFoundStream) = 7
    /\ NotFoundStream[1] = <<"GETFILE", 1>> /\ NotFoundStream[2] = <<"GETFILE", 2>>
    /\ NotFoundStream[3] = NotFound1 /\ NotFoundStream[4] = <<"GF_FILE_NOT_FOUND", 2>>
    /\ NotFoundStream[5] = <<"length", 0>>
    /\ NotFoundStream[6] = <<"end", 1>> /\ NotFoundStream[7] = End2
BY HeaderIs DEF NotFoundStream, NotFound1, Names

LEMMA OkIs ==
    ASSUME NEW p \in Files
    PROVE  /\ OkStream(p) \in Seq(Cell) /\ Len(OkStream(p)) = 7 + Length[p]
           /\ OkStream(p)[1] = <<"GETFILE", 1>> /\ OkStream(p)[2] = <<"GETFILE", 2>>
           /\ OkStream(p)[3] = <<"GF_OK", 1>> /\ OkStream(p)[4] = <<"GF_OK", 2>>
           /\ OkStream(p)[5] = <<"length", Length[p]>>
           /\ OkStream(p)[6] = <<"end", 1>> /\ OkStream(p)[7] = End2
           /\ \A i \in 1 .. Length[p] : OkStream(p)[7 + i] = <<p, i>>
<1> DEFINE h == Header("GF_OK", Length[p])
           f == File(p)
<1>1. p \in Path /\ Length[p] \in Nat
      BY Constants
<1>2. /\ h \in Seq(Cell) /\ Len(h) = 7
      /\ h[1] = <<"GETFILE", 1>> /\ h[2] = <<"GETFILE", 2>> /\ h[3] = <<"GF_OK", 1>>
      /\ h[4] = <<"GF_OK", 2>> /\ h[5] = <<"length", Length[p]>>
      /\ h[6] = <<"end", 1>> /\ h[7] = End2
      BY <1>1, HeaderIs DEF Names
<1>3. f \in Seq(Cell) /\ Len(f) = Length[p] /\ \A i \in 1 .. Length[p] : f[i] = <<p, i>>
  <2>1. 0 \in Nat /\ 0 <= Length[p] /\ Length[p] - 0 = Length[p]
        BY <1>1
  <2>2. \A i \in 1 .. Length[p] : 0 + i = i
        BY <1>1
  <2>3. f \in Seq(Cell) /\ Len(f) = Length[p] - 0
        /\ \A i \in 1 .. Length[p] - 0 : f[i] = <<p, 0 + i>>
        BY <1>1, <2>1, PieceIs DEF File
  <2>.  QED BY <2>1, <2>2, <2>3
<1>4. OkStream(p) = h \o f
      BY DEF OkStream
<1> HIDE DEF h, f
<1>5. PICK x : x = h \o f
      OBVIOUS
<1>6. h \in Seq(Cell) /\ f \in Seq(Cell)
      BY <1>2, <1>3
<1>7. /\ x \in Seq(Cell) /\ Len(x) = Len(h) + Len(f)
      /\ \A i \in 1 .. Len(h) : x[i] = h[i]
      /\ \A j \in 1 .. Len(f) : x[Len(h) + j] = f[j]
      BY <1>5, <1>6, Joined
<1>8. \A i \in 1 .. 7 : x[i] = h[i]
      BY <1>2, <1>7
<1>9. \A i \in 1 .. Length[p] : x[7 + i] = <<p, i>>
      BY <1>2, <1>3, <1>7
<1>. QED BY <1>2, <1>3, <1>4, <1>5, <1>7, <1>8, <1>9

\* Where the words are in an answer.
LEMMA AnswerIs ==
    ASSUME NEW c \in Clients, NEW S \in Answers(c)
    PROVE  /\ S \in Seq(Cell) /\ Len(S) \in Nat /\ Len(S) >= 7
           /\ S[1] = <<"GETFILE", 1>> /\ S[2] = <<"GETFILE", 2>> /\ S[7] = End2
           /\ \A k \in 1 .. Len(S) : k # 7 => S[k] # End2
           /\ S # NotFoundStream =>
                /\ asked[c] \in Files /\ S = OkStream(asked[c])
                /\ \A k \in 1 .. Len(S) : S[k] # NotFound1
           /\ S = NotFoundStream => inPieces[c] \/ asked[c] \notin Files
<1>1. CASE S = NotFoundStream
  <2>1. inPieces[c] \/ asked[c] \notin Files
    <3>1. asked[c] \in Files => NotFoundStream # OkStream(asked[c])
          BY NotFoundIs, OkIs DEF NotFound1
    <3>.  QED BY <1>1, <3>1 DEF Answers
  <2>2. \A k \in 1 .. 7 : k # 7 => NotFoundStream[k] # End2
        BY NotFoundIs DEF End2, NotFound1
  <2>.  QED BY <1>1, <2>1, <2>2, NotFoundIs
<1>2. CASE S # NotFoundStream
  <2>1. asked[c] \in Files /\ S = OkStream(asked[c])
        BY <1>2 DEF Answers
  <2>   DEFINE p == asked[c]
  <2>2. p \in Path /\ Length[p] \in Nat
        BY <2>1, Constants
  <2>3. ASSUME NEW k \in 1 .. 7 + Length[p]
        PROVE  (k # 7 => S[k] # End2) /\ S[k] # NotFound1
    <3>1. CASE k <= 7
          BY <2>1, <2>2, <3>1, OkIs DEF End2, NotFound1
    <3>2. CASE k > 7
      <4>1. k - 7 \in 1 .. Length[p] /\ 7 + (k - 7) = k
            BY <2>2, <3>2
      <4>2. S[k] = <<p, k - 7>>
            BY <2>1, <4>1, OkIs
      <4>3. p # "end" /\ p # "GF_FILE_NOT_FOUND"
            BY <2>2, NamesDiffer
      <4>.  QED BY <4>2, <4>3 DEF End2, NotFound1
    <3>.  QED BY <2>2, <3>1, <3>2
  <2>.  QED BY <1>2, <2>1, <2>2, <2>3, OkIs
<1>. QED BY <1>1, <1>2

LEMMA RequestIs ==
    ASSUME NEW p \in Path
    PROVE  /\ Request(p) \in Seq(Cell) /\ Len(Request(p)) = 8
           /\ Request(p)[1] = <<"GETFILE", 1>> /\ Request(p)[2] = <<"GETFILE", 2>>
           /\ Request(p)[3] = <<"GET", 1>> /\ Request(p)[4] = <<"GET", 2>>
           /\ Request(p)[5] = <<p, 1>> /\ Request(p)[6] = <<p, 2>>
<1> DEFINE a == Word("GETFILE")
           b == Word("GET")
           l == Word(p)
           d == Word("end")
<1>1. /\ a \in Seq(Cell) /\ Len(a) = 2 /\ a[1] = <<"GETFILE", 1>> /\ a[2] = <<"GETFILE", 2>>
      /\ b \in Seq(Cell) /\ Len(b) = 2 /\ b[1] = <<"GET", 1>> /\ b[2] = <<"GET", 2>>
      /\ d \in Seq(Cell) /\ Len(d) = 2
      BY WordIs DEF Names
<1>2. l \in Seq(Cell) /\ Len(l) = 2 /\ l[1] = <<p, 1>> /\ l[2] = <<p, 2>>
      BY WordIs, NamesDiffer
<1>3. Request(p) = a \o b \o l \o d
      BY DEF Request
<1> HIDE DEF a, b, l, d
<1>5. PICK x : x = a \o b
      OBVIOUS
<1>4. /\ x \in Seq(Cell) /\ Len(x) = 4
      /\ x[1] = a[1] /\ x[2] = a[2] /\ x[3] = b[1] /\ x[4] = b[2]
  <2>1. a \in Seq(Cell) /\ b \in Seq(Cell)
        BY <1>1
  <2>2. /\ x \in Seq(Cell) /\ Len(x) = Len(a) + Len(b)
        /\ \A i \in 1 .. Len(a) : x[i] = a[i]
        /\ \A j \in 1 .. Len(b) : x[Len(a) + j] = b[j]
        BY <1>5, <2>1, Joined
  <2>.  QED BY <1>1, <2>2
<1>7. PICK y : y = x \o l
      OBVIOUS
<1>6. /\ y \in Seq(Cell) /\ Len(y) = 6
      /\ y[1] = a[1] /\ y[2] = a[2] /\ y[3] = b[1] /\ y[4] = b[2] /\ y[5] = l[1] /\ y[6] = l[2]
  <2>1. x \in Seq(Cell) /\ l \in Seq(Cell)
        BY <1>2, <1>4
  <2>2. /\ y \in Seq(Cell) /\ Len(y) = Len(x) + Len(l)
        /\ \A i \in 1 .. Len(x) : y[i] = x[i]
        /\ \A j \in 1 .. Len(l) : y[Len(x) + j] = l[j]
        BY <1>7, <2>1, Joined
  <2>.  QED BY <1>2, <1>4, <2>2
<1>8. /\ y \o d \in Seq(Cell) /\ Len(y \o d) = 8 /\ \A i \in 1 .. 6 : (y \o d)[i] = y[i]
  <2>1. y \in Seq(Cell) /\ d \in Seq(Cell)
        BY <1>1, <1>6
  <2>2. PICK z : z = y \o d
        OBVIOUS
  <2>3. /\ z \in Seq(Cell) /\ Len(z) = Len(y) + Len(d)
        /\ \A i \in 1 .. Len(y) : z[i] = y[i]
        BY <2>1, <2>2, Joined
  <2>.  QED BY <1>1, <1>6, <2>2, <2>3
<1>. QED BY <1>1, <1>2, <1>3, <1>5, <1>6, <1>7, <1>8

-----------------------------------------------------------------------------
(***************************************************************************)
(* The client's parser, until the content starts.                          *)
(***************************************************************************)
LEMMA StoreIs ==
    ASSUME NEW n \in Nat, NEW b \in Seq(Cell), Len(b) = n, NEW at \in Nat, NEW s \in Seq(Cell),
           at + Len(s) <= n
    PROVE  /\ Store(b, at, s) \in Seq(Cell) /\ Len(Store(b, at, s)) = n
           /\ \A i \in 1 .. n : i <= at \/ i > at + Len(s) => Store(b, at, s)[i] = b[i]
           /\ \A i \in 1 .. Len(s) : Store(b, at, s)[at + i] = s[i]
<1>1. DOMAIN b = 1 .. n /\ Len(s) \in Nat /\ DOMAIN s = 1 .. Len(s)
      OBVIOUS
<1>2. Store(b, at, s) = [i \in 1 .. n |-> IF i \in at + 1 .. at + Len(s) THEN s[i - at] ELSE b[i]]
      BY <1>1 DEF Store
<1>3. ASSUME NEW i \in 1 .. n
      PROVE  (IF i \in at + 1 .. at + Len(s) THEN s[i - at] ELSE b[i]) \in Cell
  <2>1. CASE i \in at + 1 .. at + Len(s)
    <3>1. i - at \in 1 .. Len(s)
          BY <1>1, <2>1
    <3>.  QED BY <2>1, <3>1
  <2>2. CASE i \notin at + 1 .. at + Len(s)
        BY <2>2
  <2>.  QED BY <2>1, <2>2
<1>4. Store(b, at, s) \in [1 .. n -> Cell]
      BY <1>2, <1>3
<1>5. Store(b, at, s) \in Seq(Cell) /\ Len(Store(b, at, s)) = n
      BY <1>4
<1>6. \A i \in 1 .. n : i <= at \/ i > at + Len(s) => Store(b, at, s)[i] = b[i]
      BY <1>1, <1>2
<1>7. ASSUME NEW i \in 1 .. Len(s)
      PROVE  Store(b, at, s)[at + i] = s[i]
  <2>1. at + i \in 1 .. n /\ at + i \in at + 1 .. at + Len(s) /\ (at + i) - at = i
        BY <1>1
  <2>.  QED BY <1>2, <2>1
<1>. QED BY <1>5, <1>6, <1>7

\* The word at header_pt.
LEMMA AtIs ==
    ASSUME NEW b \in Seq(Cell), NEW h \in Nat, h + 2 <= Len(b), NEW w \in Names,
           NEW g, g.buffer = b, g.header_pt = h
    PROVE  At(g, w) <=> b[h + 1] = <<w, 1>> /\ b[h + 2] = <<w, 2>>
<1> DEFINE s == SubSeq(b, h + 1, h + 2)
<1>1. /\ s \in Seq(Cell) /\ Len(s) = 2 /\ \A i \in 1 .. 2 : s[i] = b[h + i]
  <2>1. h + 1 \in Int /\ h + 2 \in Int /\ h + 2 - (h + 1) + 1 = 2 /\ h + 1 <= h + 2
        OBVIOUS
  <2>2. \A i \in h + 1 .. h + 2 : b[i] \in Cell
        OBVIOUS
  <2>3. /\ s \in Seq(Cell) /\ Len(s) = h + 2 - (h + 1) + 1
        /\ \A i \in 1 .. h + 2 - (h + 1) + 1 : s[i] = b[h + 1 + i - 1]
        BY <2>1, <2>2, SubSeqProperties
  <2>4. \A i \in 1 .. 2 : h + 1 + i - 1 = h + i
        OBVIOUS
  <2>.  QED BY <2>1, <2>3, <2>4
<1>2. Word(w) \in Seq(Cell) /\ Len(Word(w)) = 2 /\ Word(w)[1] = <<w, 1>> /\ Word(w)[2] = <<w, 2>>
      BY WordIs
<1>3. At(g, w) <=> s = Word(w)
      BY DEF At
<1> HIDE DEF s
<1>4. s[1] = b[h + 1] /\ s[2] = b[h + 2]
      BY <1>1
<1>5. ASSUME s[1] = Word(w)[1], s[2] = Word(w)[2]
      PROVE  s = Word(w)
  <2>1. s \in [1 .. 2 -> Cell] /\ Word(w) \in [1 .. 2 -> Cell]
        BY <1>1, <1>2
  <2>2. \A i \in 1 .. 2 : i = 1 \/ i = 2
        OBVIOUS
  <2>3. \A i \in 1 .. 2 : s[i] = Word(w)[i]
        BY <1>5, <2>2
  <2>.  QED BY <2>1, <2>3
<1>. QED BY <1>2, <1>3, <1>4, <1>5

\* g comes of the state g0 by parsing a part of the header.
Parsing(g, g0) ==
    /\ g \in ParserState /\ g.buffer = g0.buffer /\ g.rx_bytes = g0.rx_bytes
    /\ g.total_rx_bytes = g0.total_rx_bytes /\ g.content_pt = g0.content_pt
    /\ g.ret \in {None, -1} /\ g.status # "GF_FILE_NOT_FOUND"
    /\ g.sm \in {"SCHEME", "METHOD", "LENGTH", "PATH", "ERROR", "NOT_FOUND"}
    /\ g.sm = "SCHEME" => g.header_pt = 0
    /\ g.sm = "METHOD" => g.header_pt = 2
    /\ g.sm = "LENGTH" => g.header_pt = 4
    /\ g.sm = "PATH"   => g.header_pt \in {4, 5}
    /\ g.sm \in {"SCHEME", "METHOD"} => g.length_start_idx = 0
    /\ g.sm = "NOT_FOUND" => g.buffer[3] = NotFound1
    /\ g.sm # "SCHEME" /\ g0.sm = "SCHEME" => g.rx_bytes >= 2

LEMMA SchemeParses ==
    ASSUME NEW g, NEW g0, Parsing(g, g0), NEW h \in ParseScheme(g)
    PROVE  Parsing(h, g0) /\ (h.sm = "SCHEME" /\ h.ret = None => h.rx_bytes < 2)
<1>1. CASE h = g /\ (g.sm # "SCHEME" \/ g.rx_bytes < 2)
      BY <1>1
<1>2. CASE g.sm = "SCHEME" /\ ~(g.rx_bytes < 2) /\ h = [g EXCEPT !.sm = "METHOD", !.header_pt = 2]
  <2>1. g \in ParserState /\ 2 \in Nat /\ "METHOD" \in ClientStates
        BY DEF Parsing, ClientStates
  <2>2. /\ h \in ParserState /\ h.sm = "METHOD" /\ h.header_pt = 2 /\ h.rx_bytes = g.rx_bytes
        /\ h.buffer = g.buffer /\ h.total_rx_bytes = g.total_rx_bytes
        /\ h.content_pt = g.content_pt /\ h.ret = g.ret /\ h.status = g.status
        /\ h.length_start_idx = g.length_start_idx
        BY <1>2, <2>1 DEF ParserState
  <2>3. g.rx_bytes \in Nat /\ g.rx_bytes >= 2
        BY <1>2, <2>1 DEF ParserState
  <2>.  QED BY <1>2, <2>2, <2>3 DEF Parsing
<1>3. CASE g.sm = "SCHEME" /\ ~(g.rx_bytes < 2) /\ h = [g EXCEPT !.ret = -1]
  <2>1. h.ret = -1 /\ -1 # None
        BY <1>3, Constants DEF Parsing, ParserState
  <2>.  QED BY <1>3, <2>1 DEF Parsing, ParserState
<1>. QED BY <1>1, <1>2, <1>3 DEF ParseScheme

LEMMA MethodParses ==
    ASSUME NEW g, NEW g0, Parsing(g, g0), NEW h \in ParseMethod(g)
    PROVE  Parsing(h, g0) /\ (h.sm = "SCHEME" => h = g)
<1>1. CASE h = g
      BY <1>1
<1>2. CASE g.sm = "METHOD" /\ h = [g EXCEPT !.sm = "LENGTH", !.status = "GF_OK",
                                    !.header_pt = @ + 2, !.length_start_idx = @ + 4]
  <2>1. /\ g \in ParserState /\ g.header_pt = 2 /\ g.length_start_idx = 0 /\ 0 + 4 \in {0, 4}
        /\ 2 + 2 \in Nat /\ "LENGTH" \in ClientStates /\ "GF_OK" \in Status
        BY <1>2 DEF Parsing, ClientStates, Status
  <2>2. h = [g EXCEPT !.sm = "LENGTH", !.status = "GF_OK", !.header_pt = 4,
                      !.length_start_idx = 4]
    <3>1. g.header_pt + 2 = 4 /\ g.length_start_idx + 4 = 4
          BY <2>1
    <3>.  QED BY <1>2, <3>1
  <2>3. /\ h \in ParserState /\ h.sm = "LENGTH" /\ h.header_pt = 4 /\ h.rx_bytes = g.rx_bytes
        /\ h.buffer = g.buffer /\ h.total_rx_bytes = g.total_rx_bytes
        /\ h.content_pt = g.content_pt /\ h.ret = g.ret /\ h.status = "GF_OK"
        BY <2>1, <2>2 DEF ParserState
  <2>.  QED BY <1>2, <2>3 DEF Parsing
<1>3. CASE g.sm = "METHOD" /\ NotFoundWord(g) /\ h = [g EXCEPT !.sm = "NOT_FOUND"]
  <2>1. g.buffer \in Seq(Cell) /\ g.header_pt = 2 /\ 2 + 2 <= Len(g.buffer)
        BY <1>3, Constants DEF Parsing, ParserState, Buffers
  <2>2. g.buffer[2 + 1] = NotFound1
        BY <1>3, <2>1, AtIs DEF NotFoundWord, Names, NotFound1
  <2>.  QED BY <1>3, <2>2 DEF Parsing, ParserState, ClientStates
<1>4. CASE g.sm = "METHOD" /\ h = [g EXCEPT !.sm = "ERROR"]
      BY <1>4 DEF Parsing, ParserState, ClientStates
<1>. QED BY <1>1, <1>2, <1>3, <1>4 DEF ParseMethod

LEMMA LengthParses ==
    ASSUME NEW g, NEW g0, Parsing(g, g0), NEW h \in ParseLength(g)
    PROVE  Parsing(h, g0) /\ h.sm # "LENGTH" /\ (h.sm = "SCHEME" => h = g)
<1>1. CASE g.sm # "LENGTH" /\ h = g
      BY <1>1
<1>2. CASE g.sm = "LENGTH" /\ \E n \in {4, 5} : h = [g EXCEPT !.sm = "PATH", !.header_pt = n]
  <2>1. PICK n \in {4, 5} : h = [g EXCEPT !.sm = "PATH", !.header_pt = n]
        BY <1>2
  <2>2. g \in ParserState /\ n \in Nat /\ "PATH" \in ClientStates
        BY DEF Parsing, ClientStates
  <2>3. /\ h \in ParserState /\ h.sm = "PATH" /\ h.header_pt = n /\ h.rx_bytes = g.rx_bytes
        /\ h.buffer = g.buffer /\ h.total_rx_bytes = g.total_rx_bytes
        /\ h.content_pt = g.content_pt /\ h.ret = g.ret /\ h.status = g.status
        BY <2>1, <2>2 DEF ParserState
  <2>.  QED BY <1>2, <2>3 DEF Parsing
<1>3. g.sm = "LENGTH" =>
        h = [g EXCEPT !.sm = "PATH",
               !.header_pt = IF IsLength(g.buffer[g.header_pt + 1]) THEN g.header_pt + 1 ELSE g.header_pt]
      BY DEF ParseLength
<1>4. g.sm = "LENGTH" => g.header_pt = 4
      BY DEF Parsing
<1>5. g.sm # "LENGTH" => h = g
      BY DEF ParseLength
<1>6. CASE g.sm = "LENGTH"
  <2> DEFINE n == IF IsLength(g.buffer[g.header_pt + 1]) THEN g.header_pt + 1 ELSE g.header_pt
  <2>1. n \in {4, 5}
        BY <1>4, <1>6
  <2>2. h = [g EXCEPT !.sm = "PATH", !.header_pt = n]
        BY <1>3, <1>6
  <2>   HIDE DEF n
  <2>.  QED BY <1>2, <1>6, <2>1, <2>2
<1>. QED BY <1>1, <1>5, <1>6

\* The length that a header says is a number.
LEMMA LengthFieldIs ==
    ASSUME NEW g \in ParserState
    PROVE  LengthField(g) \in Nat
<1> DEFINE cell == g.buffer[g.length_start_idx + 1]
<1>1. cell \in Cell
  <2>1. g.buffer \in Seq(Cell) /\ g.length_start_idx + 1 \in 1 .. Len(g.buffer)
        BY Constants DEF ParserState, Buffers
  <2>.  QED BY <2>1
<1>2. IsLength(cell) => cell[2] \in Nat
  <2>1. CASE cell = <<>>
        BY <2>1 DEF IsLength
  <2>2. CASE cell \in Names \X Nat
        BY <2>2
  <2>.  QED BY <1>1, <2>1, <2>2 DEF Cell
<1>. QED BY <1>2 DEF LengthField

\* Without the end of the header in its place the content does not start.
LEMMA PathParses ==
    ASSUME NEW g, NEW g0, Parsing(g, g0), NEW h \in ParsePath(g),
           g.buffer[6] # End2, g.buffer[7] # End2
    PROVE  Parsing(h, g0) /\ (h.sm \in {"SCHEME", "LENGTH"} => h = g)
<1>1. CASE g.sm # "PATH"
      BY <1>1 DEF ParsePath
<1>2. CASE g.sm = "PATH"
  <2> DEFINE l == [g EXCEPT !.file_length = LengthField(g)]
  <2>1. Parsing(l, g0) /\ l.sm = "PATH" /\ l.buffer = g.buffer /\ l.header_pt = g.header_pt
    <3>1. LengthField(g) \in Nat
          BY LengthFieldIs DEF Parsing
    <3>.  QED BY <1>2, <3>1 DEF Parsing, ParserState
  <2>2. ~At(l, "end")
    <3>1. PICK b : b = l.buffer
          OBVIOUS
    <3>2. PICK k : k = l.header_pt
          OBVIOUS
    <3>3. b \in Seq(Cell) /\ Len(b) = RDBUFSIZE /\ k \in {4, 5} /\ b[6] # End2 /\ b[7] # End2
          BY <2>1, <3>1, <3>2 DEF Parsing, ParserState, Buffers
    <3>4. k \in Nat /\ k + 2 <= Len(b) /\ b[k + 2] # End2
          BY <3>3, Constants
    <3>5. At(l, "end") <=> b[k + 1] = <<"end", 1>> /\ b[k + 2] = <<"end", 2>>
          BY <3>1, <3>2, <3>3, <3>4, AtIs DEF Names
    <3>.  QED BY <3>4, <3>5 DEF End2
  <2>3. h \in {l, [l EXCEPT !.status = "GF_ERROR", !.ret = -1]}
    <3>1. ParsePath(g) = IF Unparsed(l) < 2 THEN {l}
                         ELSE {l, [l EXCEPT !.status = "GF_ERROR", !.ret = -1]}
          BY <1>2, <2>2 DEF ParsePath
    <3>   HIDE DEF l
    <3>.  QED BY <3>1
  <2>   HIDE DEF l
  <2>4. CASE h = l
        BY <2>1, <2>4
  <2>5. CASE h = [l EXCEPT !.status = "GF_ERROR", !.ret = -1]
        BY <2>1, <2>5 DEF Parsing, ParserState, Status
  <2>.  QED BY <2>3, <2>4, <2>5
<1>. QED BY <1>1, <1>2

LEMMA HeaderParses ==
    ASSUME NEW g, Parsing(g, g), g.ret = None, g.buffer[6] # End2, g.buffer[7] # End2,
           NEW g1 \in ParseScheme(g), NEW g2 \in ParseMethod(g1),
           NEW g3 \in ParseLength(g2), NEW g4 \in ParsePath(g3)
    PROVE  /\ Parsing(g4, g) /\ g4.sm # "LENGTH"
           /\ g4.sm = "SCHEME" /\ g4.ret = None => g4.rx_bytes < 2
<1>1. Parsing(g1, g) /\ (g1.sm = "SCHEME" /\ g1.ret = None => g1.rx_bytes < 2)
      BY SchemeParses
<1>2. Parsing(g2, g) /\ (g2.sm = "SCHEME" => g2 = g1)
      BY <1>1, MethodParses
<1>3. Parsing(g3, g) /\ g3.sm # "LENGTH" /\ (g3.sm = "SCHEME" => g3 = g2)
      BY <1>2, LengthParses
<1>4. g3.buffer = g.buffer
      BY <1>3 DEF Parsing
<1>5. Parsing(g4, g) /\ (g4.sm \in {"SCHEME", "LENGTH"} => g4 = g3)
      BY <1>3, <1>4, PathParses
<1>. QED BY <1>1, <1>2, <1>3, <1>5

LEMMA NewRequestIs ==
    /\ NewRequest \in ParserState /\ NewRequest.buffer \in Buffers
    /\ \A i \in 1 .. RDBUFSIZE : NewRequest.buffer[i] = <<>>
    /\ NewRequest.sm = "SCHEME" /\ NewRequest.status = "GF_INVALID" /\ NewRequest.ret = None
    /\ NewRequest.rx_bytes = 0 /\ NewRequest.total_rx_bytes = 0 /\ NewRequest.header_pt = 0
    /\ NewRequest.length_start_idx = 0 /\ NewRequest.content_pt = 0
<1>1. NewRequest.buffer = [i \in 1 .. RDBUFSIZE |-> <<>>]
      BY DEF NewRequest
<1>2. <<>> \in Cell /\ RDBUFSIZE \in Nat
      BY Constants DEF Cell
<1>3. NewRequest.buffer \in [1 .. RDBUFSIZE -> Cell]
      BY <1>1, <1>2
<1>4. NewRequest.buffer \in Buffers
      BY <1>2, <1>3 DEF Buffers
<1>5. 0 \in 0 .. RDBUFSIZE - 1
      BY Constants
<1>. QED BY <1>1, <1>4, <1>5 DEF NewRequest, ParserState, ClientStates, Status

\* What is left after the loop's tests.
LEMMA ForgetIs ==
    ASSUME NEW g \in ParserState
    PROVE  /\ Forget(g) \in ParserState
           /\ Forget(g).ret = g.ret /\ Forget(g).status = g.status /\ Forget(g).sm = g.sm
           /\ g.ret = None /\ g.sm # "CONTENT" => Forget(g) = g
           /\ g.ret = None =>
                /\ Forget(g).rx_bytes = g.rx_bytes /\ Forget(g).content_pt = g.content_pt
                /\ Forget(g).total_rx_bytes = g.total_rx_bytes
                /\ Forget(g).file_length = g.file_length
<1>1. CASE g.ret # None
  <2>1. Forget(g) = [NewRequest EXCEPT !.sm = g.sm, !.status = g.status, !.ret = g.ret]
        BY <1>1 DEF Forget
  <2>2. NewRequest \in ParserState
        BY NewRequestIs
  <2>   HIDE DEF NewRequest
  <2>3. g.sm \in ClientStates /\ g.status \in Status /\ g.ret \in {None, 0, -1}
        BY DEF ParserState
  <2>4. /\ Forget(g) \in ParserState
        /\ Forget(g).ret = g.ret /\ Forget(g).status = g.status /\ Forget(g).sm = g.sm
        BY <2>1, <2>2, <2>3 DEF ParserState
  <2>.  QED BY <1>1, <2>4
<1>2. CASE g.ret = None /\ g.sm = "CONTENT"
  <2>1. Forget(g) = [g EXCEPT !.buffer = NewRequest.buffer]
        BY <1>2 DEF Forget
  <2>2. NewRequest.buffer \in Buffers
        BY NewRequestIs
  <2>   DEFINE b == NewRequest.buffer
  <2>   HIDE DEF b
  <2>.  QED BY <1>2, <2>1, <2>2 DEF ParserState, b
<1>3. CASE g.ret = None /\ g.sm # "CONTENT"
      BY <1>3 DEF Forget
<1>. QED BY <1>1, <1>2, <1>3

LEMMA ConcludeIs ==
    ASSUME NEW g \in ParserState
    PROVE  /\ Conclude(g) \in ParserState /\ Conclude(g).sm = g.sm
           /\ g.sm = "DONE" => Conclude(g).ret = 0 /\ Conclude(g).status = g.status
           /\ g.sm = "ERROR" => Conclude(g).ret = 0 /\ Conclude(g).status = "GF_ERROR"
           /\ g.sm = "NOT_FOUND" => Conclude(g).ret = 0 /\ Conclude(g).status = "GF_FILE_NOT_FOUND"
           /\ g.sm \notin {"DONE", "ERROR", "NOT_FOUND"} => Conclude(g) = g
<1>1. 0 \in {None, 0, -1} /\ "GF_ERROR" \in Status /\ "GF_FILE_NOT_FOUND" \in Status
      BY DEF Status
<1>2. CASE g.sm = "DONE"
  <2>1. Conclude(g) = [g EXCEPT !.ret = 0]
        BY <1>2 DEF Conclude
  <2>.  QED BY <1>1, <1>2, <2>1 DEF ParserState
<1>3. CASE g.sm = "ERROR"
  <2>1. Conclude(g) = [g EXCEPT !.ret = 0, !.status = "GF_ERROR"]
        BY <1>3 DEF Conclude
  <2>.  QED BY <1>1, <1>3, <2>1 DEF ParserState
<1>4. CASE g.sm = "NOT_FOUND"
  <2>1. Conclude(g) = [g EXCEPT !.ret = 0, !.status = "GF_FILE_NOT_FOUND"]
        BY <1>4 DEF Conclude
  <2>.  QED BY <1>1, <1>4, <2>1 DEF ParserState
<1>5. CASE g.sm \notin {"DONE", "ERROR", "NOT_FOUND"}
      BY <1>5 DEF Conclude
<1>. QED BY <1>2, <1>3, <1>4, <1>5

\* What a read leaves: the parser h waits for more of S, whose first k cells it
\* has read, with the content v written; or it is done.
Outcome(h, v, S, p, k) ==
    /\ h \in ParserState /\ v \in Seq(Cell)
    /\ h.ret = None => Got(h) = k /\ Parsed(h, v, S, p)
    /\ h.ret # None /\ h.status = "GF_FILE_NOT_FOUND" => S = NotFoundStream
    /\ v # <<>> => p \in Files /\ Prefix(v, p)
    /\ h.ret = 0 /\ h.status = "GF_OK" =>
         p \in Files /\ Prefix(v, p) /\ Len(v) = Length[p] /\ k = Len(S)

\* A header in pieces never gets as far as the content.
LEMMA CutStays ==
    ASSUME NEW g, Parsing(g, g), g.ret = None, g.buffer[6] # End2, g.buffer[7] # End2,
           g.rx_bytes = g.total_rx_bytes, g.rx_bytes # 0, g.content_pt = 0,
           NEW S, S # NotFoundStream => g.buffer[3] # NotFound1, NEW p,
           g.sm # "SCHEME" => g.rx_bytes >= 2,
           NEW g1 \in ParseScheme(g), NEW g2 \in ParseMethod(g1),
           NEW g3 \in ParseLength(g2), NEW g4 \in ParsePath(g3),
           NEW v, v = <<>> \o Received(g4)
    PROVE  Outcome(Forget(Conclude(ParseContent(g4, Len(v)))), v, S, p, g.total_rx_bytes)
<1>1. /\ Parsing(g4, g) /\ g4.sm # "LENGTH"
      /\ g4.sm = "SCHEME" /\ g4.ret = None => g4.rx_bytes < 2
      BY HeaderParses
<1>2. g4.sm # "CONTENT"
      BY <1>1 DEF Parsing
<1>3. Received(g4) = <<>> /\ v = <<>>
      BY <1>2 DEF Received
<1>4. ParseContent(g4, Len(v)) = g4
      BY <1>3 DEF ParseContent
<1> DEFINE d == Conclude(g4)
           h == Forget(d)
<1>5. /\ d \in ParserState /\ d.sm = g4.sm
      /\ g4.sm = "ERROR" => d.ret = 0 /\ d.status = "GF_ERROR"
      /\ g4.sm = "NOT_FOUND" => d.ret = 0 /\ d.status = "GF_FILE_NOT_FOUND"
      /\ g4.sm \notin {"DONE", "ERROR", "NOT_FOUND"} => d = g4
      BY <1>1, ConcludeIs DEF Parsing
<1>6. g4.sm # "DONE"
      BY <1>1 DEF Parsing
<1> HIDE DEF d
<1>7. /\ h \in ParserState /\ h.ret = d.ret /\ h.status = d.status /\ h.sm = d.sm
      /\ d.ret = None /\ d.sm # "CONTENT" => h = d
      BY <1>5, ForgetIs
<1> HIDE DEF h
<1>8. ASSUME h.ret = None
      PROVE  Got(h) = g.total_rx_bytes /\ Parsed(h, v, S, p)
  <2>1. 0 # None
        BY Constants
  <2>2. h = g4 /\ g4.sm \in {"SCHEME", "METHOD", "PATH"}
        BY <1>1, <1>5, <1>7, <1>8, <1>2, <2>1 DEF Parsing
  <2>3. g4.rx_bytes \in Nat
        BY <1>1 DEF Parsing, ParserState
  <2>4. Cut(h)
    <3>1. g4.sm = "SCHEME" => g4.rx_bytes = 1
          BY <1>1, <1>8, <2>2, <2>3 DEF Parsing
    <3>2. g4.sm # "SCHEME" => g4.rx_bytes >= 2
          BY <1>1 DEF Parsing
    <3>.  QED BY <1>1, <2>2, <3>1, <3>2 DEF Cut, Parsing
  <2>5. h.buffer = g.buffer /\ h.total_rx_bytes = g.total_rx_bytes
        BY <1>1, <2>2 DEF Parsing
  <2>.  QED BY <1>3, <2>2, <2>4, <2>5 DEF Parsed, Got
<1>9. h.ret # None /\ h.status = "GF_FILE_NOT_FOUND" => S = NotFoundStream
      BY <1>1, <1>5, <1>6, <1>7 DEF Parsing
<1>10. ~(h.ret = 0 /\ h.status = "GF_OK")
  <2>1. 0 # None /\ 0 # -1
        BY Constants
  <2>.  QED BY <1>1, <1>5, <1>6, <1>7, <2>1 DEF Parsing
<1>. QED BY <1>3, <1>4, <1>7, <1>8, <1>9, <1>10 DEF Outcome, d, h

-----------------------------------------------------------------------------
(***************************************************************************)
(* The client's parser: a header that comes whole, and the content.        *)
(***************************************************************************)
\* The parser at its first read, of n cells that begin as S does.
FirstRead(g, S, n) ==
    /\ g \in ParserState /\ g.ret = None /\ g.sm = "SCHEME" /\ g.content_pt = 0
    /\ g.header_pt = 0 /\ g.length_start_idx = 0
    /\ g.rx_bytes = n /\ g.total_rx_bytes = n /\ n \in 7 .. RDBUFSIZE
    /\ \A i \in 1 .. 7 : g.buffer[i] = S[i]

LEMMA OkHeader ==
    ASSUME NEW p \in Files, NEW n \in Nat, NEW g, FirstRead(g, OkStream(p), n),
           NEW g1 \in ParseScheme(g), NEW g2 \in ParseMethod(g1),
           NEW g3 \in ParseLength(g2), NEW g4 \in ParsePath(g3)
    PROVE  /\ g4 \in ParserState /\ g4.ret = None /\ g4.sm = "CONTENT" /\ g4.status = "GF_OK"
           /\ g4.file_length = Length[p] /\ g4.rx_bytes = n /\ g4.content_pt = 7
           /\ g4.total_rx_bytes = n - 7 /\ g4.buffer = g.buffer
<1> DEFINE S == OkStream(p)
           b == g.buffer
<1>1. b \in Seq(Cell) /\ Len(b) = RDBUFSIZE /\ 7 <= Len(b)
      BY Constants DEF FirstRead, ParserState, Buffers
<1>2. /\ b[1] = <<"GETFILE", 1>> /\ b[2] = <<"GETFILE", 2>> /\ b[3] = <<"GF_OK", 1>>
      /\ b[4] = <<"GF_OK", 2>> /\ b[5] = <<"length", Length[p]>>
      /\ b[6] = <<"end", 1>> /\ b[7] = <<"end", 2>>
      BY OkIs DEF FirstRead, End2
<1>3. /\ g \in ParserState /\ g.buffer = b /\ g.ret = None /\ g.sm = "SCHEME"
      /\ g.content_pt = 0 /\ g.header_pt = 0 /\ g.length_start_idx = 0
      /\ g.rx_bytes = n /\ g.total_rx_bytes = n /\ n \in Nat /\ n >= 7
      BY Constants DEF FirstRead
<1> HIDE DEF b
<1>4. At(g, "GETFILE")
      BY <1>1, <1>2, <1>3, AtIs DEF Names
<1>5. g1 = [g EXCEPT !.sm = "METHOD", !.header_pt = 2]
  <2>1. ~(g.rx_bytes < 2)
        BY <1>3
  <2>.  QED BY <1>3, <1>4, <2>1 DEF ParseScheme
<1>6. /\ g1 \in ParserState /\ g1.buffer = b /\ g1.ret = None /\ g1.sm = "METHOD"
      /\ g1.content_pt = 0 /\ g1.header_pt = 2 /\ g1.length_start_idx = 0
      /\ g1.rx_bytes = n /\ g1.total_rx_bytes = n
  <2>1. 2 \in Nat /\ "METHOD" \in ClientStates
        BY DEF ClientStates
  <2>.  QED BY <1>3, <1>5, <2>1 DEF ParserState
<1>7. At(g1, "GF_OK")
      BY <1>1, <1>2, <1>6, AtIs DEF Names
<1>8. g2 = [g1 EXCEPT !.sm = "LENGTH", !.status = "GF_OK", !.header_pt = 4,
                      !.length_start_idx = 4]
  <2>1. Unparsed(g1) = n - 2 /\ ~(n - 2 < 2) /\ n - 2 # 2
        BY <1>3, <1>6 DEF Unparsed
  <2>2. g1.header_pt + 2 = 4 /\ g1.length_start_idx + 4 = 4
        BY <1>6
  <2>3. g2 = [g1 EXCEPT !.sm = "LENGTH", !.status = "GF_OK", !.header_pt = g1.header_pt + 2,
                        !.length_start_idx = g1.length_start_idx + 4]
        BY <1>6, <1>7, <2>1 DEF ParseMethod
  <2>.  QED BY <2>2, <2>3
<1>9. /\ g2 \in ParserState /\ g2.buffer = b /\ g2.ret = None /\ g2.sm = "LENGTH"
      /\ g2.content_pt = 0 /\ g2.header_pt = 4 /\ g2.length_start_idx = 4
      /\ g2.rx_bytes = n /\ g2.total_rx_bytes = n /\ g2.status = "GF_OK"
  <2>1. 4 \in Nat /\ 4 \in {0, 4} /\ "LENGTH" \in ClientStates /\ "GF_OK" \in Status
        BY DEF ClientStates, Status
  <2>.  QED BY <1>6, <1>8, <2>1 DEF ParserState
<1>10. IsLength(b[5]) /\ b[5][2] = Length[p]
       BY <1>2 DEF IsLength
<1>11. g3 = [g2 EXCEPT !.sm = "PATH", !.header_pt = 5]
  <2>1. IsLength(g2.buffer[g2.header_pt + 1]) /\ g2.header_pt + 1 = 5
        BY <1>9, <1>10
  <2>2. g3 = [g2 EXCEPT !.sm = "PATH",
                 !.header_pt = IF IsLength(g2.buffer[g2.header_pt + 1]) THEN g2.header_pt + 1
                               ELSE g2.header_pt]
        BY <1>9 DEF ParseLength
  <2>.  QED BY <2>1, <2>2
<1>12. /\ g3 \in ParserState /\ g3.buffer = b /\ g3.ret = None /\ g3.sm = "PATH"
       /\ g3.content_pt = 0 /\ g3.header_pt = 5 /\ g3.length_start_idx = 4
       /\ g3.rx_bytes = n /\ g3.total_rx_bytes = n /\ g3.status = "GF_OK"
  <2>1. 5 \in Nat /\ "PATH" \in ClientStates
        BY DEF ClientStates
  <2>.  QED BY <1>9, <1>11, <2>1 DEF ParserState
<1> DEFINE l == [g3 EXCEPT !.file_length = LengthField(g3)]
<1>13. LengthField(g3) = Length[p]
       BY <1>10, <1>12 DEF LengthField
<1>14. /\ l \in ParserState /\ l.buffer = b /\ l.ret = None /\ l.sm = "PATH"
       /\ l.content_pt = 0 /\ l.header_pt = 5 /\ l.length_start_idx = 4
       /\ l.rx_bytes = n /\ l.total_rx_bytes = n /\ l.status = "GF_OK"
       /\ l.file_length = Length[p]
  <2>1. Length[p] \in Nat
        BY Constants
  <2>.  QED BY <1>12, <1>13, <2>1 DEF ParserState
<1>15. ParsePath(g3) = IF Unparsed(l) < 2 THEN {l} ELSE IF At(l, "end") THEN
        {[l EXCEPT !.sm = "CONTENT", !.header_pt = @ + 2,
                   !.total_rx_bytes = @ - (l.header_pt + 2),
                   !.content_pt = ContentStart(l)]}
        ELSE {l, [l EXCEPT !.status = "GF_ERROR", !.ret = -1]}
       BY <1>12 DEF ParsePath
<1> HIDE DEF l
<1>16. At(l, "end")
  <2>1. 5 \in Nat /\ 5 + 2 <= Len(b) /\ 5 + 1 = 6 /\ 5 + 2 = 7 /\ "end" \in Names
        BY <1>1 DEF Names
  <2>2. At(l, "end") <=> b[5 + 1] = <<"end", 1>> /\ b[5 + 2] = <<"end", 2>>
        BY <1>1, <1>14, <2>1, AtIs
  <2>.  QED BY <1>2, <2>1, <2>2
<1>17. g4 = [l EXCEPT !.sm = "CONTENT", !.header_pt = 7, !.total_rx_bytes = n - 7,
                      !.content_pt = 7]
  <2>1. Unparsed(l) = n - 5 /\ ~(n - 5 < 2)
        BY <1>3, <1>14 DEF Unparsed
  <2>2. l.header_pt + 2 = 7 /\ l.total_rx_bytes - (l.header_pt + 2) = n - 7 /\ ContentStart(l) = 7
        BY <1>14 DEF ContentStart
  <2>3. g4 = [l EXCEPT !.sm = "CONTENT", !.header_pt = l.header_pt + 2,
                       !.total_rx_bytes = l.total_rx_bytes - (l.header_pt + 2),
                       !.content_pt = ContentStart(l)]
        BY <1>15, <1>16, <2>1
  <2>.  QED BY <2>2, <2>3
<1>18. 7 \in Nat /\ n - 7 \in Nat /\ 7 \in 0 .. RDBUFSIZE - 1 /\ "CONTENT" \in ClientStates
       BY <1>3, Constants DEF ClientStates
<1>. QED BY <1>14, <1>17, <1>18 DEF ParserState, b

LEMMA NotFoundHeader ==
    ASSUME NEW n \in Nat, NEW g, FirstRead(g, NotFoundStream, n),
           NEW g1 \in ParseScheme(g), NEW g2 \in ParseMethod(g1),
           NEW g3 \in ParseLength(g2), NEW g4 \in ParsePath(g3)
    PROVE  g4 \in ParserState /\ g4.sm = "NOT_FOUND"
<1> DEFINE b == g.buffer
<1>1. b \in Seq(Cell) /\ Len(b) = RDBUFSIZE /\ 7 <= Len(b)
      BY Constants DEF FirstRead, ParserState, Buffers
<1>2. /\ b[1] = <<"GETFILE", 1>> /\ b[2] = <<"GETFILE", 2>>
      /\ b[3] = <<"GF_FILE_NOT_FOUND", 1>> /\ b[4] = <<"GF_FILE_NOT_FOUND", 2>>
      BY NotFoundIs DEF FirstRead, NotFound1
<1>3. /\ g \in ParserState /\ g.buffer = b /\ g.ret = None /\ g.sm = "SCHEME"
      /\ g.header_pt = 0 /\ g.rx_bytes = n /\ n \in Nat /\ n >= 7
      BY Constants DEF FirstRead
<1> HIDE DEF b
<1>4. At(g, "GETFILE")
      BY <1>1, <1>2, <1>3, AtIs DEF Names
<1>5. g1 = [g EXCEPT !.sm = "METHOD", !.header_pt = 2]
  <2>1. ~(g.rx_bytes < 2)
        BY <1>3
  <2>.  QED BY <1>3, <1>4, <2>1 DEF ParseScheme
<1>6. /\ g1 \in ParserState /\ g1.buffer = b /\ g1.sm = "METHOD"
      /\ g1.header_pt = 2 /\ g1.rx_bytes = n
  <2>1. 2 \in Nat /\ "METHOD" \in ClientStates
        BY DEF ClientStates
  <2>.  QED BY <1>3, <1>5, <2>1 DEF ParserState
<1>7. ~At(g1, "GF_OK") /\ At(g1, "GF_FILE_NOT_FOUND")
      BY <1>1, <1>2, <1>6, AtIs DEF Names
<1>8. g2 = [g1 EXCEPT !.sm = "NOT_FOUND"]
  <2>1. Unparsed(g1) = n - 2 /\ ~(n - 2 < 2)
        BY <1>3, <1>6 DEF Unparsed
  <2>.  QED BY <1>6, <1>7, <2>1 DEF ParseMethod, NotFoundWord
<1>9. g2 \in ParserState /\ g2.sm = "NOT_FOUND"
      BY <1>6, <1>8 DEF ParserState, ClientStates
<1>10. g3 = g2
       BY <1>9 DEF ParseLength
<1>11. g4 = g3
       BY <1>9, <1>10 DEF ParsePath
<1>. QED BY <1>9, <1>10, <1>11

\* The cells of the content in the buffer are the next ones of the file.
LEMMA ContentArrives ==
    ASSUME NEW p \in Files, NEW g \in ParserState, g.sm = "CONTENT", g.ret = None,
           g.status = "GF_OK", g.file_length = Length[p],
           g.rx_bytes \in g.content_pt .. RDBUFSIZE, g.total_rx_bytes <= Length[p],
           NEW w, Prefix(w, p), Len(w) + g.rx_bytes - g.content_pt = g.total_rx_bytes,
           \A i \in 1 .. g.rx_bytes - g.content_pt :
             g.buffer[g.content_pt + i] = <<p, Len(w) + i>>,
           NEW v, v = w \o Received(g)
    PROVE  Outcome(Forget(Conclude(ParseContent(g, Len(v)))), v, OkStream(p), p,
                   7 + g.total_rx_bytes)
<1> DEFINE k == g.rx_bytes - g.content_pt
           r == Received(g)
           b == g.buffer
<1>1. /\ g.content_pt \in Nat /\ g.content_pt < RDBUFSIZE /\ g.rx_bytes \in Nat
      /\ g.total_rx_bytes \in Nat /\ RDBUFSIZE \in Nat /\ Length[p] \in Nat
      /\ k \in Nat /\ b \in Seq(Cell) /\ Len(b) = RDBUFSIZE /\ g.rx_bytes <= RDBUFSIZE
      /\ Len(w) \in Nat /\ w \in Seq(Cell)
      BY Constants DEF ParserState, Buffers, Prefix
<1>2. r \in Seq(Cell) /\ Len(r) = k /\ \A i \in 1 .. k : r[i] = b[g.content_pt + i]
  <2>1. r = SubSeq(b, g.content_pt + 1, g.rx_bytes)
        BY DEF Received
  <2>   HIDE DEF r, b
  <2>2. CASE k = 0
    <3>1. r = <<>>
          BY <1>1, <2>1, <2>2, SubSeqProperties
    <3>.  QED BY <2>2, <3>1
  <2>3. CASE k # 0
    <3>1. /\ g.content_pt + 1 \in Int /\ g.rx_bytes \in Int /\ g.content_pt + 1 <= g.rx_bytes
          /\ g.rx_bytes - (g.content_pt + 1) + 1 = k
          BY <1>1, <2>3
    <3>2. \A i \in g.content_pt + 1 .. g.rx_bytes : b[i] \in Cell
      <4>1. \A i \in g.content_pt + 1 .. g.rx_bytes : i \in 1 .. Len(b)
            BY <1>1
      <4>.  QED BY <1>1, <4>1
    <3>3. /\ r \in Seq(Cell) /\ Len(r) = g.rx_bytes - (g.content_pt + 1) + 1
          /\ \A i \in 1 .. g.rx_bytes - (g.content_pt + 1) + 1 : r[i] = b[g.content_pt + 1 + i - 1]
          BY <2>1, <3>1, <3>2, SubSeqProperties
    <3>4. \A i \in 1 .. k : g.content_pt + 1 + i - 1 = g.content_pt + i
          BY <1>1
    <3>.  QED BY <3>1, <3>3, <3>4
  <2>.  QED BY <2>2, <2>3
<1>3. /\ v \in Seq(Cell) /\ Len(v) = g.total_rx_bytes /\ Prefix(v, p)
  <2>1. /\ v \in Seq(Cell) /\ Len(v) = Len(w) + Len(r)
        /\ \A i \in 1 .. Len(w) : v[i] = w[i]
        /\ \A i \in 1 .. Len(r) : v[Len(w) + i] = r[i]
        BY <1>1, <1>2, Joined
  <2>2. Len(v) = g.total_rx_bytes
        BY <1>1, <1>2, <2>1
  <2>3. ASSUME NEW i \in 1 .. Len(v)
        PROVE  v[i] = <<p, i>>
    <3>1. CASE i <= Len(w)
          BY <1>1, <2>1, <3>1 DEF Prefix
    <3>2. CASE i > Len(w)
      <4>1. i - Len(w) \in 1 .. k /\ Len(w) + (i - Len(w)) = i
            BY <1>1, <1>2, <2>1, <3>2
      <4>2. v[i] = r[i - Len(w)]
            BY <1>2, <2>1, <4>1
      <4>3. r[i - Len(w)] = <<p, Len(w) + (i - Len(w))>>
            BY <1>2, <4>1
      <4>.  QED BY <4>1, <4>2, <4>3
    <3>.  QED BY <1>1, <2>1, <3>1, <3>2
  <2>.  QED BY <2>1, <2>2, <2>3 DEF Prefix
<1>4. \A e : g.total_rx_bytes >= Length[p] => Len(v) = Length[p]
      BY <1>1, <1>3
<1> DEFINE a == ParseContent(g, Len(v))
           d == Conclude(a)
           h == Forget(d)
<1> HIDE DEF r, k, b
<1>5. CASE r = <<>>
  <2>1. a = g
        BY <1>5 DEF ParseContent, r
  <2>2. d = g
        BY <2>1, ConcludeIs
  <2>   HIDE DEF a, d
  <2>3. /\ h \in ParserState /\ h.ret = None /\ h.status = "GF_OK" /\ h.sm = "CONTENT"
        /\ h.rx_bytes = g.rx_bytes /\ h.content_pt = g.content_pt
        /\ h.total_rx_bytes = g.total_rx_bytes /\ h.file_length = g.file_length
        BY <2>2, ForgetIs
  <2>   HIDE DEF h
  <2>4. g.rx_bytes = g.content_pt
        BY <1>1, <1>2, <1>5 DEF k
  <2>5. 0 # None /\ Got(h) = 7 + g.total_rx_bytes
        BY <1>1, <2>3, Constants DEF Got
  <2>6. Parsed(h, v, OkStream(p), p)
        BY <1>3, <2>3, <2>4 DEF Parsed, InContent
  <2>.  QED BY <1>3, <2>3, <2>5, <2>6 DEF Outcome, a, d, h
<1>6. CASE r # <<>>
  <2> DEFINE x == IF BufferFull(g) THEN 0 ELSE g.rx_bytes
             m == IF Len(v) >= g.file_length THEN "DONE" ELSE g.sm
  <2>1. a = [g EXCEPT !.content_pt = x, !.rx_bytes = x, !.sm = m]
    <3>1. a = [g EXCEPT !.content_pt = IF BufferFull(g) THEN 0 ELSE g.rx_bytes,
                        !.rx_bytes   = IF BufferFull(g) THEN 0 ELSE g.rx_bytes,
                        !.sm = IF Len(v) >= g.file_length THEN "DONE" ELSE g.sm]
          BY <1>6 DEF ParseContent, r
    <3>.  QED BY <3>1
  <2>2. x \in 0 .. RDBUFSIZE - 1 /\ x \in Nat /\ m \in ClientStates
        BY <1>1, Constants DEF BufferFull, ClientStates
  <2>3. m = "DONE" \/ m = "CONTENT"
        OBVIOUS
  <2>4. m = "DONE" => Len(v) = Length[p]
        BY <1>1, <1>3
  <2>   HIDE DEF a, d, h, x, m
  <2>5. /\ a \in ParserState /\ a.ret = None /\ a.status = "GF_OK" /\ a.sm = m
        /\ a.rx_bytes = x /\ a.content_pt = x
        /\ a.total_rx_bytes = g.total_rx_bytes /\ a.file_length = g.file_length
        BY <2>1, <2>2 DEF ParserState
  <2>6. 0 # None
        BY Constants
  <2>7. CASE m = "DONE"
    <3>1. d \in ParserState /\ d.ret = 0 /\ d.status = "GF_OK"
          BY <2>5, <2>7, ConcludeIs DEF d
    <3>2. h \in ParserState /\ h.ret = 0 /\ h.status = "GF_OK"
          BY <3>1, ForgetIs DEF h
    <3>3. Len(v) = Length[p] /\ 7 + g.total_rx_bytes = Len(OkStream(p))
          BY <1>3, <2>4, <2>7, OkIs
    <3>.  QED BY <1>3, <2>6, <3>2, <3>3 DEF Outcome, a, d, h
  <2>8. CASE m = "CONTENT"
    <3>1. d = a
          BY <2>5, <2>8, ConcludeIs DEF d
    <3>2. /\ h \in ParserState /\ h.ret = None /\ h.status = "GF_OK" /\ h.sm = "CONTENT"
          /\ h.rx_bytes = x /\ h.content_pt = x
          /\ h.total_rx_bytes = g.total_rx_bytes /\ h.file_length = g.file_length
          BY <2>5, <2>8, <3>1, ForgetIs DEF h
    <3>3. Got(h) = 7 + g.total_rx_bytes
          BY <1>1, <3>2 DEF Got
    <3>4. Parsed(h, v, OkStream(p), p)
          BY <1>3, <3>2 DEF Parsed, InContent
    <3>.  QED BY <1>3, <2>6, <3>2, <3>3, <3>4 DEF Outcome, a, d, h
  <2>.  QED BY <2>3, <2>7, <2>8
<1>. QED BY <1>5, <1>6

-----------------------------------------------------------------------------
(***************************************************************************)
(* One read of the client.                                                 *)
(***************************************************************************)
\* The parser's record when n cells of the stream t have come.
Filled(g, t, n) ==
    [g EXCEPT !.buffer = Store(@, g.content_pt, SubSeq(t, 1, n)),
              !.rx_bytes = @ + n, !.total_rx_bytes = @ + n]

LEMMA FilledIs ==
    ASSUME NEW g \in ParserState, NEW S, NEW k \in Nat, NEW m \in Nat, k <= m,
           NEW t, Window(t, S, k, m), NEW n \in 1 .. m - k, n <= RequestSize(g)
    PROVE  LET f == Filled(g, t, n) IN
           /\ f \in ParserState /\ f.sm = g.sm /\ f.status = g.status /\ f.ret = g.ret
           /\ f.file_length = g.file_length /\ f.header_pt = g.header_pt
           /\ f.length_start_idx = g.length_start_idx /\ f.content_pt = g.content_pt
           /\ f.rx_bytes = g.rx_bytes + n /\ f.total_rx_bytes = g.total_rx_bytes + n
           /\ g.content_pt + n <= RDBUFSIZE
           /\ g.sm = "CONTENT" => g.total_rx_bytes + n <= g.file_length
           /\ \A i \in 1 .. RDBUFSIZE : i <= g.content_pt \/ i > g.content_pt + n
                                          => f.buffer[i] = g.buffer[i]
           /\ \A i \in 1 .. n : f.buffer[g.content_pt + i] = S[k + i]
<1> DEFINE f == Filled(g, t, n)
           s == SubSeq(t, 1, n)
           b == Store(g.buffer, g.content_pt, s)
<1>1. /\ g.content_pt \in Nat /\ g.content_pt < RDBUFSIZE /\ g.rx_bytes \in Nat
      /\ g.total_rx_bytes \in Nat /\ g.file_length \in Nat /\ RDBUFSIZE \in Nat
      /\ g.buffer \in Seq(Cell) /\ Len(g.buffer) = RDBUFSIZE /\ n \in Nat /\ n >= 1
      BY Constants DEF ParserState, Buffers
<1>2. /\ g.content_pt + n <= RDBUFSIZE
      /\ g.sm = "CONTENT" => g.total_rx_bytes + n <= g.file_length
      BY <1>1 DEF RequestSize
<1>3. s \in Seq(Cell) /\ Len(s) = n /\ \A i \in 1 .. n : s[i] = S[k + i]
  <2>1. t \in Seq(Cell) /\ Len(t) = m - k /\ \A i \in 1 .. m - k : t[i] = S[k + i]
        BY DEF Window
  <2>2. 1 <= n /\ 1 \in Int /\ n \in Int /\ n - 1 + 1 = n /\ \A i \in 1 .. n : i \in 1 .. m - k
        BY <1>1
  <2>3. \A i \in 1 .. n : t[i] \in Cell
        BY <2>1, <2>2
  <2>4. s \in Seq(Cell) /\ Len(s) = n - 1 + 1 /\ \A i \in 1 .. n - 1 + 1 : s[i] = t[1 + i - 1]
        BY <2>2, <2>3, SubSeqProperties
  <2>5. \A i \in 1 .. n : 1 + i - 1 = i
        OBVIOUS
  <2>.  QED BY <2>1, <2>2, <2>4, <2>5
<1> HIDE DEF s
<1>4. /\ b \in Seq(Cell) /\ Len(b) = RDBUFSIZE
      /\ \A i \in 1 .. RDBUFSIZE : i <= g.content_pt \/ i > g.content_pt + n => b[i] = g.buffer[i]
      /\ \A i \in 1 .. n : b[g.content_pt + i] = s[i]
  <2>1. PICK x : x = g.buffer
        OBVIOUS
  <2>2. PICK at : at = g.content_pt
        OBVIOUS
  <2>3. /\ x \in Seq(Cell) /\ Len(x) = RDBUFSIZE /\ RDBUFSIZE \in Nat /\ at \in Nat
        /\ at + Len(s) <= RDBUFSIZE /\ s \in Seq(Cell) /\ Len(s) = n
        BY <1>1, <1>2, <1>3, <2>1, <2>2
  <2>4. /\ Store(x, at, s) \in Seq(Cell) /\ Len(Store(x, at, s)) = RDBUFSIZE
        /\ \A i \in 1 .. RDBUFSIZE : i <= at \/ i > at + Len(s) => Store(x, at, s)[i] = x[i]
        /\ \A i \in 1 .. Len(s) : Store(x, at, s)[at + i] = s[i]
        BY <2>3, StoreIs
  <2>5. b = Store(x, at, s)
        BY <2>1, <2>2
  <2>.  QED BY <2>1, <2>2, <2>3, <2>4, <2>5
<1>5. b \in Buffers
      BY <1>4 DEF Buffers
<1>6. f = [g EXCEPT !.buffer = b, !.rx_bytes = g.rx_bytes + n,
                    !.total_rx_bytes = g.total_rx_bytes + n]
      BY DEF Filled, s
<1> HIDE DEF b
<1>7. g.rx_bytes + n \in Nat /\ g.total_rx_bytes + n \in Nat
      BY <1>1
<1> HIDE DEF f
<1>8. /\ f \in ParserState /\ f.sm = g.sm /\ f.status = g.status /\ f.ret = g.ret
      /\ f.file_length = g.file_length /\ f.header_pt = g.header_pt
      /\ f.length_start_idx = g.length_start_idx /\ f.content_pt = g.content_pt
      /\ f.rx_bytes = g.rx_bytes + n /\ f.total_rx_bytes = g.total_rx_bytes + n
      /\ f.buffer = b
      BY <1>5, <1>6, <1>7 DEF ParserState
<1>. QED BY <1>2, <1>3, <1>4, <1>8 DEF f

\* The parser that is past the header does not look for it again.
LEMMA ContentParses ==
    ASSUME NEW g, g.sm = "CONTENT", NEW g1 \in ParseScheme(g), NEW g2 \in ParseMethod(g1),
           NEW g3 \in ParseLength(g2), NEW g4 \in ParsePath(g3)
    PROVE  g4 = g
<1>1. g1 = g
      BY DEF ParseScheme
<1>2. g2 = g
      BY <1>1 DEF ParseMethod
<1>3. g3 = g
      BY <1>2 DEF ParseLength
<1>. QED BY <1>3 DEF ParsePath

LEMMA ReadOutcome ==
    ASSUME NEW c \in Clients, NEW S \in Answers(c), NEW m \in 0 .. Len(S),
           NEW g \in ParserState, g.ret = None, NEW w, Got(g) <= m,
           NEW t, Window(t, S, Got(g), m), Parsed(g, w, S, asked[c]),
           NEW n \in 1 .. m - Got(g), n <= RequestSize(g),
           NEW g1 \in ParseScheme(Filled(g, t, n)), NEW g2 \in ParseMethod(g1),
           NEW g3 \in ParseLength(g2), NEW g4 \in ParsePath(g3),
           NEW v, v = w \o Received(g4)
    PROVE  Outcome(Forget(Conclude(ParseContent(g4, Len(v)))), v, S, asked[c], Got(g) + n)
<1> DEFINE f == Filled(g, t, n)
           p == asked[c]
           k == Got(g)
<1>1. k \in Nat /\ m \in Nat /\ n \in Nat /\ n >= 1 /\ k + n <= m /\ m <= Len(S) /\ RDBUFSIZE > 7
      BY AnswerIs, Constants DEF Got, ParserState
<1>2. /\ f \in ParserState /\ f.sm = g.sm /\ f.status = g.status /\ f.ret = g.ret
      /\ f.file_length = g.file_length /\ f.header_pt = g.header_pt
      /\ f.length_start_idx = g.length_start_idx /\ f.content_pt = g.content_pt
      /\ f.rx_bytes = g.rx_bytes + n /\ f.total_rx_bytes = g.total_rx_bytes + n
      /\ g.content_pt + n <= RDBUFSIZE
      /\ g.sm = "CONTENT" => g.total_rx_bytes + n <= g.file_length
      /\ \A i \in 1 .. RDBUFSIZE : i <= g.content_pt \/ i > g.content_pt + n
                                     => f.buffer[i] = g.buffer[i]
      /\ \A i \in 1 .. n : f.buffer[g.content_pt + i] = S[k + i]
      BY <1>1, FilledIs
<1> HIDE DEF f, k
<1>3. CASE g = NewRequest /\ w = <<>>
  <2>1. /\ k = 0 /\ g.content_pt = 0 /\ f.sm = "SCHEME" /\ f.status = "GF_INVALID"
        /\ f.ret = None /\ f.header_pt = 0 /\ f.length_start_idx = 0 /\ f.content_pt = 0
        /\ f.rx_bytes = n /\ f.total_rx_bytes = n
        /\ \A i \in 1 .. RDBUFSIZE : i > n => f.buffer[i] = <<>>
        /\ \A i \in 1 .. n : f.buffer[i] = S[i]
    <3>1. k = 0
          BY <1>3, NewRequestIs DEF Got, k
    <3>2. \A i \in 1 .. n : 0 + i = i
          OBVIOUS
    <3>.  QED BY <1>1, <1>2, <1>3, <3>1, <3>2, NewRequestIs
  <2>2. CASE n >= 7
    <3>1. n \in 7 .. RDBUFSIZE /\ \A i \in 1 .. 7 : i \in 1 .. n
          BY <1>1, <1>2, <2>1, <2>2
    <3>2. FirstRead(f, S, n)
          BY <1>2, <2>1, <3>1 DEF FirstRead
    <3>3. CASE S = NotFoundStream
      <4>1. g4 \in ParserState /\ g4.sm = "NOT_FOUND"
            BY <1>1, <3>2, <3>3, NotFoundHeader DEF f
      <4>2. v = <<>> /\ ParseContent(g4, Len(v)) = g4
            BY <1>3, <4>1 DEF Received, ParseContent
      <4>   DEFINE d == Conclude(g4)
                   h == Forget(d)
      <4>3. d \in ParserState /\ d.ret = 0 /\ d.status = "GF_FILE_NOT_FOUND"
            BY <4>1, ConcludeIs
      <4>   HIDE DEF d
      <4>4. h \in ParserState /\ h.ret = 0 /\ h.status = "GF_FILE_NOT_FOUND"
            BY <4>3, ForgetIs
      <4>   HIDE DEF h
      <4>5. 0 # None
            BY Constants
      <4>.  QED BY <3>3, <4>2, <4>4, <4>5 DEF Outcome, d, h
    <3>4. CASE S # NotFoundStream
      <4>1. p \in Files /\ S = OkStream(p)
            BY <3>4, AnswerIs
      <4>2. /\ g4 \in ParserState /\ g4.ret = None /\ g4.sm = "CONTENT" /\ g4.status = "GF_OK"
            /\ g4.file_length = Length[p] /\ g4.rx_bytes = n /\ g4.content_pt = 7
            /\ g4.total_rx_bytes = n - 7 /\ g4.buffer = f.buffer
            BY <1>1, <3>2, <4>1, OkHeader DEF f
      <4>3. Length[p] \in Nat /\ Len(S) = 7 + Length[p]
            BY <4>1, OkIs, Constants
      <4>4. n \in 7 .. RDBUFSIZE /\ n - 7 <= Length[p]
            BY <1>1, <2>1, <3>1, <4>3
      <4>5. Prefix(w, p) /\ Len(w) = 0
        <5>1. <<>> \in Seq(Cell) /\ Len(<<>>) = 0
              OBVIOUS
        <5>.  QED BY <1>3, <4>3, <5>1 DEF Prefix
      <4>6. ASSUME NEW i \in 1 .. n - 7
            PROVE  f.buffer[7 + i] = <<p, 0 + i>>
        <5>1. 7 + i \in 1 .. n /\ i \in 1 .. Length[p] /\ 0 + i = i
              BY <1>1, <4>3, <4>4
        <5>2. f.buffer[7 + i] = S[7 + i]
              BY <2>1, <5>1
        <5>3. S[7 + i] = <<p, i>>
              BY <4>1, <5>1, OkIs
        <5>.  QED BY <5>1, <5>2, <5>3
      <4>7. Len(w) + n - 7 = n - 7 /\ 7 + (n - 7) = k + n
            BY <1>1, <2>1, <4>5
      <4>8. Outcome(Forget(Conclude(ParseContent(g4, Len(v)))), v, OkStream(p), p,
                    7 + g4.total_rx_bytes)
            BY <4>1, <4>2, <4>4, <4>5, <4>6, <4>7, ContentArrives
      <4>.  QED BY <4>1, <4>2, <4>7, <4>8 DEF k
    <3>.  QED BY <3>3, <3>4
  <2>3. CASE n < 7
    <3>1. f.buffer[6] # End2 /\ f.buffer[7] # End2
      <4>1. 6 \in 1 .. RDBUFSIZE /\ 7 \in 1 .. RDBUFSIZE /\ <<>> # End2
            BY Constants DEF End2
      <4>2. f.buffer[7] = <<>>
            BY <1>1, <2>1, <2>3, <4>1
      <4>3. CASE n = 6
        <5>1. f.buffer[6] = S[6] /\ 6 \in 1 .. Len(S)
              BY <1>1, <2>1, <4>3
        <5>.  QED BY <4>1, <4>2, <5>1, AnswerIs
      <4>4. CASE n # 6
            BY <1>1, <2>1, <2>3, <4>1, <4>2, <4>4
      <4>.  QED BY <4>3, <4>4
    <3>2. S # NotFoundStream => f.buffer[3] # NotFound1
      <4>1. CASE n >= 3
        <5>1. f.buffer[3] = S[3] /\ 3 \in 1 .. Len(S)
              BY <1>1, <2>1, <4>1
        <5>.  QED BY <5>1, AnswerIs
      <4>2. CASE n < 3
        <5>1. f.buffer[3] = <<>>
          <6>1. 3 \in 1 .. RDBUFSIZE
                BY Constants
          <6>.  QED BY <1>1, <2>1, <4>2, <6>1
        <5>2. <<>> # NotFound1
              BY DEF NotFound1
        <5>.  QED BY <5>1, <5>2
      <4>.  QED BY <1>1, <4>1, <4>2
    <3>3. Parsing(f, f)
          BY <1>2, <2>1 DEF Parsing
    <3>4. Outcome(Forget(Conclude(ParseContent(g4, Len(v)))), v, S, p, f.total_rx_bytes)
      <4>1. f.rx_bytes = f.total_rx_bytes /\ f.rx_bytes # 0
            BY <1>1, <2>1
      <4>2. v = <<>> \o Received(g4)
            BY <1>3
      <4>.  QED BY <2>1, <3>1, <3>2, <3>3, <4>1, <4>2, CutStays DEF f
    <3>5. f.total_rx_bytes = k + n
          BY <1>1, <2>1
    <3>.  QED BY <3>4, <3>5 DEF k
  <2>.  QED BY <1>1, <2>2, <2>3
<1>4. CASE Cut(g) /\ w = <<>> /\ (S # NotFoundStream => g.buffer[3] # NotFound1)
  <2>1. /\ k = g.total_rx_bytes /\ g.content_pt = 0 /\ k = g.rx_bytes /\ k # 0
        /\ f.sm = g.sm /\ f.sm \in {"SCHEME", "METHOD", "PATH"} /\ f.status # "GF_FILE_NOT_FOUND"
        /\ f.ret = None /\ f.header_pt = g.header_pt /\ f.content_pt = 0
        /\ f.length_start_idx = g.length_start_idx
        /\ f.rx_bytes = k + n /\ f.total_rx_bytes = k + n
        /\ \A i \in 1 .. RDBUFSIZE : i > n => f.buffer[i] = g.buffer[i]
        /\ \A i \in 1 .. n : f.buffer[i] = S[k + i]
    <3>1. k = g.total_rx_bytes
          BY <1>4 DEF Got, Cut, k
    <3>2. \A i \in 1 .. n : 0 + i = i
          OBVIOUS
    <3>3. \A i \in 1 .. RDBUFSIZE : i > n => i > 0 + n
          BY <1>1
    <3>.  QED BY <1>1, <1>2, <1>4, <3>1, <3>2, <3>3 DEF Cut
  <2>2. Parsing(f, f)
        BY <1>2, <1>4, <2>1 DEF Parsing, Cut
  <2>3. S # NotFoundStream => f.buffer[3] # NotFound1
    <3>1. 3 \in 1 .. RDBUFSIZE
          BY Constants
    <3>2. CASE n >= 3
      <4>1. f.buffer[3] = S[k + 3] /\ k + 3 \in 1 .. Len(S)
            BY <1>1, <2>1, <3>2
      <4>.  QED BY <4>1, AnswerIs
    <3>3. CASE n < 3
          BY <1>1, <1>4, <2>1, <3>1, <3>3
    <3>.  QED BY <1>1, <3>2, <3>3
  <2>4. CASE g.sm # "SCHEME"
    <3>1. k >= 2 /\ k + n >= 2
          BY <1>1, <1>4, <2>1, <2>4 DEF Cut
    <3>2. ASSUME NEW i \in {6, 7}
          PROVE  f.buffer[i] # End2
      <4>1. i \in 1 .. RDBUFSIZE
            BY Constants
      <4>2. CASE n >= i
        <5>1. f.buffer[i] = S[k + i] /\ k + i \in 1 .. Len(S) /\ k + i # 7
              BY <1>1, <2>1, <3>1, <4>2
        <5>.  QED BY <5>1, AnswerIs
      <4>3. CASE n < i
            BY <1>1, <1>4, <2>1, <4>1, <4>3 DEF Cut
      <4>.  QED BY <1>1, <4>2, <4>3
    <3>3. Outcome(Forget(Conclude(ParseContent(g4, Len(v)))), v, S, p, f.total_rx_bytes)
      <4>1. f.buffer[6] # End2 /\ f.buffer[7] # End2
            BY <3>2
      <4>2. f.rx_bytes = f.total_rx_bytes /\ f.rx_bytes # 0 /\ f.rx_bytes >= 2
            BY <1>1, <2>1, <3>1
      <4>.  QED BY <1>4, <2>1, <2>2, <2>3, <4>1, <4>2, CutStays DEF f
    <3>.  QED BY <2>1, <3>3 DEF k
  \* The second read begins with the second half of the first word.
  <2>5. CASE g.sm = "SCHEME"
    <3>1. k = 1 /\ f.header_pt = 0 /\ f.rx_bytes >= 2
          BY <1>1, <1>4, <2>1, <2>5 DEF Cut
    <3>2. f.buffer[1] = <<"GETFILE", 2>>
      <4>1. f.buffer[1] = S[2]
            BY <1>1, <2>1, <3>1
      <4>.  QED BY <4>1, AnswerIs
    <3>3. ~At(f, "GETFILE")
      <4>1. PICK b : b = f.buffer
            OBVIOUS
      <4>2. b \in Seq(Cell) /\ Len(b) = RDBUFSIZE /\ 0 + 2 <= Len(b) /\ 0 \in Nat
            BY <1>2, <4>1, Constants DEF ParserState, Buffers
      <4>3. At(f, "GETFILE") <=> b[0 + 1] = <<"GETFILE", 1>> /\ b[0 + 2] = <<"GETFILE", 2>>
            BY <3>1, <4>1, <4>2, AtIs DEF Names
      <4>.  QED BY <3>2, <4>1, <4>3
    <3>4. g1 = [f EXCEPT !.ret = -1]
      <4>1. ~(f.rx_bytes < 2)
            BY <1>1, <2>1, <3>1
      <4>.  QED BY <2>1, <2>5, <3>3, <4>1 DEF ParseScheme, f
    <3>5. g1 \in ParserState /\ g1.ret = -1 /\ g1.sm = "SCHEME" /\ g1.status # "GF_FILE_NOT_FOUND"
          BY <1>2, <2>1, <2>5, <3>4 DEF ParserState
    <3>6. g4 = g1
      <4>1. g2 = g1
            BY <3>5 DEF ParseMethod
      <4>2. g3 = g1
            BY <3>5, <4>1 DEF ParseLength
      <4>.  QED BY <3>5, <4>2 DEF ParsePath
    <3>7. v = <<>> /\ ParseContent(g4, Len(v)) = g4
          BY <1>4, <3>5, <3>6 DEF Received, ParseContent
    <3>8. Conclude(g4) = g4
          BY <3>5, <3>6, ConcludeIs
    <3>   DEFINE h == Forget(g4)
    <3>9. h \in ParserState /\ h.ret = -1 /\ h.status # "GF_FILE_NOT_FOUND"
          BY <3>5, <3>6, ForgetIs
    <3>   HIDE DEF h
    <3>10. -1 # None /\ -1 # 0
           BY Constants
    <3>.  QED BY <3>7, <3>8, <3>9, <3>10 DEF Outcome, h
  <2>.  QED BY <2>4, <2>5
<1>5. CASE /\ p \in Files /\ S = OkStream(p)
           /\ InContent(g, p) /\ Prefix(w, p) /\ Len(w) = g.total_rx_bytes
  <2>1. /\ f.sm = "CONTENT" /\ f.status = "GF_OK" /\ f.ret = None /\ f.file_length = Length[p]
        /\ g.rx_bytes = g.content_pt /\ k = g.total_rx_bytes + 7
        BY <1>2, <1>5 DEF InContent, Got, k
  <2>2. g4 = f
        BY <2>1, ContentParses DEF f
  <2>3. /\ g.content_pt \in Nat /\ g.total_rx_bytes \in Nat /\ Length[p] \in Nat
        /\ RDBUFSIZE \in Nat
        BY <1>5, Constants DEF ParserState
  <2>4. /\ f.rx_bytes = f.content_pt + n /\ f.rx_bytes \in f.content_pt .. RDBUFSIZE
        /\ f.rx_bytes - f.content_pt = n /\ f.total_rx_bytes <= Length[p]
        /\ Len(w) + f.rx_bytes - f.content_pt = f.total_rx_bytes
    <3>1. /\ f.rx_bytes = g.rx_bytes + n /\ f.total_rx_bytes = g.total_rx_bytes + n
          /\ f.content_pt = g.content_pt /\ g.content_pt + n <= RDBUFSIZE
          /\ g.total_rx_bytes + n <= Length[p]
          BY <1>2, <1>5, <2>1 DEF InContent
    <3>2. Len(w) = g.total_rx_bytes
          BY <1>5
    <3>.  QED BY <1>1, <2>1, <2>3, <3>1, <3>2
  <2>5. ASSUME NEW i \in 1 .. n
        PROVE  f.buffer[f.content_pt + i] = <<p, Len(w) + i>>
    <3>1. /\ g.total_rx_bytes + i \in 1 .. Length[p]
          /\ 7 + (g.total_rx_bytes + i) = k + i
      <4>1. f.total_rx_bytes = g.total_rx_bytes + n
            BY <1>2
      <4>2. g.total_rx_bytes + n <= Length[p]
            BY <2>4, <4>1
      <4>3. PICK x \in Nat : x = g.total_rx_bytes
            BY <2>3
      <4>4. x + n <= Length[p] /\ k = x + 7
            BY <2>1, <4>2, <4>3
      <4>5. x + i \in 1 .. Length[p] /\ 7 + (x + i) = k + i
            BY <1>1, <2>3, <4>4
      <4>.  QED BY <4>3, <4>5
    <3>2. S[7 + (g.total_rx_bytes + i)] = <<p, g.total_rx_bytes + i>>
          BY <1>5, <3>1, OkIs
    <3>.  QED BY <1>2, <1>5, <3>1, <3>2
  <2>6. Outcome(Forget(Conclude(ParseContent(f, Len(v)))), v, OkStream(p), p,
                7 + f.total_rx_bytes)
    <3>1. \A i \in 1 .. f.rx_bytes - f.content_pt :
            f.buffer[f.content_pt + i] = <<p, Len(w) + i>>
          BY <2>4, <2>5
    <3>2. v = w \o Received(f)
          BY <2>2
    <3>.  QED BY <1>2, <1>5, <2>1, <2>4, <3>1, <3>2, ContentArrives
  <2>7. 7 + f.total_rx_bytes = k + n
        BY <1>1, <1>2, <2>1, <2>3
  <2>.  QED BY <1>5, <2>2, <2>6, <2>7 DEF k
<1>. QED BY <1>3, <1>4, <1>5 DEF Parsed

-----------------------------------------------------------------------------
(***************************************************************************)
(* Frames: what a step does not touch stays as the invariant says.         *)
(***************************************************************************)
\* The step changes nothing of client c and of what is sent to it.
OwnSame(c) ==
    /\ asked' = asked /\ pc'[c] = pc[c] /\ local'[c] = local[c] /\ gfr'[c] = gfr[c]
    /\ written'[c] = written[c] /\ toClient'[c] = toClient[c]
    /\ inPieces[c] => inPieces'[c]
    /\ pc[c] \in {"create", "send"} => toServer'[c] = toServer[c] /\ inPieces'[c] = inPieces[c]

\* The step takes the server no nearer to c.
ServerSeen(c) ==
    /\ Before(c)' => Before(c)
    /\ Sending(c)' => Sending(c) /\ sent' = sent
    /\ aborted' = c => aborted = c
    /\ pc[c] = "create" => (ctx'.conn = c => ctx.conn = c)

LEMMA AnswersStay ==
    ASSUME NEW c \in Clients, asked' = asked, inPieces[c] => inPieces'[c], NEW S \in Answers(c)
    PROVE  S \in Answers(c)'
BY DEF Answers

LEMMA ClientFrame ==
    ASSUME NEW c \in Clients, ClientInv(c), OwnSame(c), ServerSeen(c)
    PROVE  ClientInv(c)'
<1>1. Unsent(c) => Unsent(c)'
      BY DEF Unsent, OwnSame, ServerSeen
<1>2. ASSUME NEW S \in Answers(c), NEW m \in 0 .. Len(S), Sent(c, S, m)
      PROVE  S \in Answers(c)' /\ Sent(c, S, m)'
  <2>1. S \in Answers(c)'
        BY AnswersStay DEF OwnSame
  <2>2. Sent(c, S, m)'
        BY <1>2 DEF Sent, Got, Window, Parsed, Cut, InContent, Prefix, OwnSame, ServerSeen
  <2>.  QED BY <2>1, <2>2
<1>3. ReturnedInv(c) => ReturnedInv(c)'
      BY DEF ReturnedInv, Prefix, Full, OwnSame, ServerSeen
<1>4. pc'[c] = "create" => ~Before(c)' /\ ctx'.conn # c /\ Unsent(c)'
      BY <1>1 DEF ClientInv, OwnSame, ServerSeen
<1>5. pc'[c] \in {"create", "send"} =>
         gfr'[c] = NewRequest /\ toServer'[c] = <<>> /\ ~inPieces'[c]
      BY DEF ClientInv, OwnSame
<1>6. pc'[c] \in {"create", "send", "read"} =>
        /\ gfr'[c].ret = None /\ local'[c] # "kept"
        /\ Unsent(c)' \/ \E S \in Answers(c)' : \E m \in 0 .. Len(S) : Sent(c, S, m)'
      BY <1>1, <1>2 DEF ClientInv, OwnSame
<1>7. pc'[c] \in {"returned", "closed"} => ReturnedInv(c)'
      BY <1>3 DEF ClientInv, OwnSame
<1>8. Before(c)' => toClient'[c] = <<>>
      BY DEF ClientInv, OwnSame, ServerSeen
<1>9. /\ pc'[c] = "returned" => local'[c] # "kept" /\ gfr'[c].ret # None
      /\ pc'[c] = "closed" =>
           /\ Full(c)' => local'[c] = "kept"
           /\ local'[c] = "kept" => Full(c)' \/ (gfr'[c] = NewRequest /\ written'[c] = <<>>)
      BY DEF ClientInv, OwnSame, Full
<1>. QED BY <1>4, <1>5, <1>6, <1>7, <1>8, <1>9 DEF ClientInv

\* A client that has read nothing has the parser at its start.
LEMMA NothingRead ==
    ASSUME NEW c \in Clients, gfr \in [Clients -> ParserState], NEW S, Sent(c, S, 0)
    PROVE  gfr[c] = NewRequest /\ written[c] = <<>>
<1>1. gfr[c] \in ParserState /\ gfr[c].total_rx_bytes \in Nat
      BY DEF ParserState
<1>2. Got(gfr[c]) <= 0 /\ Parsed(gfr[c], written[c], S, asked[c])
      BY DEF Sent
<1>3. ~Cut(gfr[c])
      BY <1>1, <1>2 DEF Got, Cut
<1>4. ~InContent(gfr[c], asked[c])
      BY <1>1, <1>2 DEF Got, InContent
<1>. QED BY <1>2, <1>3, <1>4 DEF Parsed

\* While a client waits for its answer, it has not been told anything.
LEMMA ReadingIs ==
    ASSUME NEW c \in Clients, gfr \in [Clients -> ParserState], ClientInv(c),
           pc[c] \in {"create", "send", "read"}
    PROVE  /\ gfr[c].ret = None /\ gfr[c].status # "GF_FILE_NOT_FOUND" /\ ~Full(c)
           /\ written[c] # <<>> => asked[c] \in Files /\ Prefix(written[c], asked[c])
<1>1. gfr[c].ret = None /\ 0 # None
      BY Constants DEF ClientInv
<1>2. CASE Unsent(c)
      BY <1>1, <1>2, NewRequestIs DEF Unsent, Full
<1>3. CASE \E S \in Answers(c) : \E m \in 0 .. Len(S) : Sent(c, S, m)
  <2>1. PICK S \in Answers(c) : \E m \in 0 .. Len(S) : Sent(c, S, m)
        BY <1>3
  <2>2. Parsed(gfr[c], written[c], S, asked[c])
        BY <2>1 DEF Sent
  <2>.  QED BY <1>1, <2>2, NewRequestIs DEF Parsed, Cut, InContent, Full
<1>. QED BY <1>2, <1>3 DEF ClientInv

LEMMA SeenSame ==
    ASSUME NEW c \in Clients, UNCHANGED <<aborted, serving>>, Waits(c)' => Waits(c)
    PROVE  ServerSeen(c)
BY DEF ServerSeen, serving, Before, Sending

\* The server and its request, while a client does something.
LEMMA RequestFrame ==
    ASSUME RequestInv, UNCHANGED <<asked, serving, inPieces>>, NEW x, x = ctx.conn,
           Waits(x)' => Waits(x),
           x \in Clients /\ toServer[x] = <<>> /\ pc[x] # "send"
             => toServer'[x] = <<>> /\ pc'[x] # "send"
    PROVE  RequestInv'
<1>1. ctx' = ctx /\ spc' = spc /\ sent' = sent /\ asked' = asked /\ inPieces' = inPieces
      BY DEF serving
<1>2. ctx'.conn = x /\ (spc' # "accept" => x \in Clients /\ ~Waits(x)')
      BY <1>1 DEF RequestInv
<1>3. NewContext(x)' = NewContext(x)
      BY DEF NewContext
<1>. QED BY <1>1, <1>2, <1>3 DEF RequestInv

-----------------------------------------------------------------------------
(***************************************************************************)
(* What each step of a client does to the invariant.                       *)
(***************************************************************************)
LEMMA InvOpenFileFails ==
    ASSUME GetFileInv, NEW c \in Clients, OpenFileFails(c)
    PROVE  GetFileInv'
<1>1. /\ pc[c] = "create" /\ pc' = [pc EXCEPT ![c] = "closed"] /\ pc'[c] = "closed"
      /\ UNCHANGED <<asked, local, gfr, written, connVars, serverVars>>
      BY DEF OpenFileFails, GetFileInv, Shapes
<1> USE <1>1 DEF connVars, serverVars
<1>2. Shapes'
      BY DEF GetFileInv, Shapes, serving
<1>3. RequestInv'
  <2>1. PICK x : x = ctx.conn
        OBVIOUS
  <2>2. Waits(x)' => Waits(x)
        BY DEF Waits
  <2>3. x \in Clients /\ pc[x] # "send" => pc'[x] # "send"
    <3>1. pc \in [Clients -> {"create", "send", "read", "returned", "closed"}]
          BY DEF GetFileInv, Shapes
    <3>2. x = c \/ x # c
          OBVIOUS
    <3>.  QED BY <3>1, <3>2
  <2>.  QED BY <2>1, <2>2, <2>3, RequestFrame DEF GetFileInv
<1>4. StreamsInv'
      BY DEF GetFileInv, StreamsInv, Request, serving, listening
<1>5. ASSUME NEW d \in Clients
      PROVE  ClientInv(d)'
  <2>1. ServerSeen(d)
        BY SeenSame DEF Waits
  <2>2. CASE d = c
    <3>1. /\ gfr[c] = NewRequest /\ written[c] = <<>> /\ local[c] # "kept" /\ ~Before(c)
          BY DEF GetFileInv, ClientInv, Unsent
    <3>2. ~Before(c)'
          BY <2>1, <2>2, <3>1 DEF ServerSeen
    <3>3. ReturnedInv(c)' /\ ~Full(c)'
      <4>1. gfr'[c] = NewRequest /\ written'[c] = <<>> /\ 0 # None
            BY <3>1, Constants
      <4>.  QED BY <4>1, NewRequestIs DEF ReturnedInv, Full
    <3>.  QED BY <2>2, <3>1, <3>2, <3>3 DEF ClientInv
  <2>3. CASE d # c
    <3>1. OwnSame(d)
          BY <2>3 DEF OwnSame, GetFileInv, Shapes
    <3>.  QED BY <2>1, <3>1, ClientFrame DEF GetFileInv
  <2>.  QED BY <2>2, <2>3
<1>. QED BY <1>2, <1>3, <1>4, <1>5 DEF GetFileInv

LEMMA InvConnect ==
    ASSUME GetFileInv, NEW c \in Clients, Connect(c)
    PROVE  GetFileInv'
<1>1. /\ pc[c] = "create"
      /\ \/ /\ listening /\ pc' = [pc EXCEPT ![c] = "send"] /\ local' = [local EXCEPT ![c] = "open"]
            /\ backlog' = Append(backlog, c)
         \/ /\ pc' = [pc EXCEPT ![c] = "closed"] /\ local' = [local EXCEPT ![c] = "kept"]
            /\ backlog' = backlog
      /\ UNCHANGED <<asked, gfr, written, toServer, toClient, inPieces, cuts, aborted, serving, exited>>
      BY DEF Connect, connVars
<1>2. /\ pc \in [Clients -> {"create", "send", "read", "returned", "closed"}]
      /\ local \in [Clients -> {"none", "open", "kept"}] /\ backlog \in Seq(Clients)
      BY DEF GetFileInv, Shapes
<1>3. /\ ~Before(c) /\ ctx.conn # c /\ Unsent(c) /\ toServer[c] = <<>> /\ ~inPieces[c]
      /\ gfr[c] = NewRequest /\ written[c] = <<>>
      BY <1>1 DEF GetFileInv, ClientInv, Unsent
<1>4. ~Waits(c)
      BY <1>3 DEF Before
<1>5. \/ backlog' = backlog
      \/ /\ backlog' = Append(backlog, c) /\ Len(backlog') = Len(backlog) + 1
         /\ Len(backlog) \in Nat
         /\ \A i \in DOMAIN backlog : i \in DOMAIN backlog' /\ backlog'[i] = backlog[i]
         /\ backlog'[Len(backlog) + 1] = c
         /\ DOMAIN backlog' = 1 .. Len(backlog) + 1 /\ DOMAIN backlog = 1 .. Len(backlog)
      BY <1>1, <1>2
<1>6. ASSUME NEW d, d # c
      PROVE  Waits(d)' => Waits(d)
  <2>1. \A i \in DOMAIN backlog' : backlog'[i] = c \/ (i \in DOMAIN backlog /\ backlog'[i] = backlog[i])
        BY <1>5
  <2>.  QED BY <1>6, <2>1 DEF Waits
<1>7. Shapes'
  <2>1. /\ pc' \in [Clients -> {"create", "send", "read", "returned", "closed"}]
        /\ local' \in [Clients -> {"none", "open", "kept"}] /\ backlog' \in Seq(Clients)
        BY <1>1, <1>2
  <2>.  QED BY <1>1, <2>1 DEF GetFileInv, Shapes, serving
<1>8. RequestInv'
  <2>1. PICK x : x = ctx.conn
        OBVIOUS
  <2>2. x # c
        BY <1>3, <2>1
  <2>3. Waits(x)' => Waits(x)
        BY <1>6, <2>2
  <2>4. x \in Clients /\ pc[x] # "send" => pc'[x] # "send"
        BY <1>1, <1>2, <2>2
  <2>.  QED BY <1>1, <2>1, <2>3, <2>4, RequestFrame DEF GetFileInv
<1>9. StreamsInv'
  <2>1. \A i, j \in DOMAIN backlog' : backlog'[i] = backlog'[j] => i = j
    <3>1. \A i \in DOMAIN backlog : backlog[i] # c
          BY <1>4 DEF Waits
    <3>2. \A i, j \in DOMAIN backlog : backlog[i] = backlog[j] => i = j
          BY DEF GetFileInv, StreamsInv
    <3>.  QED BY <1>5, <3>1, <3>2
  <2>2. ~listening' => backlog' = <<>> /\ spc' \in {"accept", "shutdown"}
        BY <1>1 DEF GetFileInv, StreamsInv, listening, serving
  <2>3. \A d \in Clients : ~inPieces'[d] => toServer'[d] \in {<<>>, Request(asked[d])}
        BY <1>1 DEF GetFileInv, StreamsInv
  <2>.  QED BY <1>1, <2>1, <2>2, <2>3 DEF GetFileInv, StreamsInv, listening, serving, Request
<1>10. ASSUME NEW d \in Clients
       PROVE  ClientInv(d)'
  <2>1. CASE d = c
    <3>1. Unsent(c)'
          BY <1>1, <1>3 DEF Unsent, Sending, serving
    <3>2. gfr'[c] = NewRequest /\ written'[c] = <<>> /\ 0 # None /\ toClient'[c] = <<>>
          BY <1>1, <1>3, Constants DEF Unsent
    <3>3. CASE pc' = [pc EXCEPT ![c] = "send"] /\ local' = [local EXCEPT ![c] = "open"]
      <4>1. pc'[c] = "send" /\ local'[c] = "open"
            BY <1>2, <3>3
      <4>.  QED BY <1>1, <1>3, <2>1, <3>1, <3>2, <4>1, NewRequestIs DEF ClientInv
    <3>4. CASE /\ pc' = [pc EXCEPT ![c] = "closed"] /\ local' = [local EXCEPT ![c] = "kept"]
      <4>1. pc'[c] = "closed" /\ local'[c] = "kept"
            BY <1>2, <3>4
      <4>2. ReturnedInv(c)' /\ ~Full(c)'
            BY <3>2, NewRequestIs DEF ReturnedInv, Full
      <4>.  QED BY <2>1, <3>2, <4>1, <4>2 DEF ClientInv
    <3>.  QED BY <1>1, <3>3, <3>4
  <2>2. CASE d # c
    <3>1. OwnSame(d)
          BY <1>1, <1>2, <2>2 DEF OwnSame
    <3>2. ServerSeen(d)
          BY <1>1, <1>6, <2>2, SeenSame
    <3>.  QED BY <3>1, <3>2, ClientFrame DEF GetFileInv
  <2>.  QED BY <2>1, <2>2
<1>. QED BY <1>7, <1>8, <1>9, <1>10 DEF GetFileInv

LEMMA InvSendRequest ==
    ASSUME GetFileInv, NEW c \in Clients, SendRequest(c)
    PROVE  GetFileInv'
<1>1. /\ pc[c] = "send" /\ pc' = [pc EXCEPT ![c] = "read"]
      /\ toServer' = [toServer EXCEPT ![c] = Request(asked[c])] \/ toServer' = toServer
      /\ UNCHANGED <<asked, local, gfr, written, toClient, inPieces, cuts, backlog, aborted,
                     serving, exited>>
      BY DEF SendRequest, serverVars
<1>2. /\ pc \in [Clients -> {"create", "send", "read", "returned", "closed"}]
      /\ toServer \in [Clients -> Seq(Cell)] /\ asked[c] \in Path
      /\ toServer[c] = <<>>
      BY <1>1 DEF GetFileInv, Shapes, ClientInv
<1>3. /\ Request(asked[c]) \in Seq(Cell) /\ Len(Request(asked[c])) <= BUFSIZE
  <2>1. PICK p \in Path : p = asked[c]
        BY <1>2
  <2>2. Request(p) \in Seq(Cell) /\ Len(Request(p)) = 8
        BY RequestIs
  <2>.  QED BY <2>1, <2>2 DEF BUFSIZE
<1>4. pc'[c] = "read" /\ toServer'[c] \in {<<>>, Request(asked[c])}
      /\ \A d \in Clients : d # c => pc'[d] = pc[d] /\ toServer'[d] = toServer[d]
      BY <1>1, <1>2
<1>5. Shapes'
  <2>1. /\ pc' \in [Clients -> {"create", "send", "read", "returned", "closed"}]
        /\ toServer' \in [Clients -> Seq(Cell)]
        BY <1>1, <1>2, <1>3
  <2>2. \A d \in Clients : Len(toServer'[d]) <= BUFSIZE
    <3>1. Len(<<>>) <= BUFSIZE
          BY DEF BUFSIZE
    <3>.  QED BY <1>3, <1>4, <3>1 DEF GetFileInv, Shapes
  <2>.  QED BY <1>1, <2>1, <2>2 DEF GetFileInv, Shapes, serving
<1>6. RequestInv'
  <2>1. PICK x : x = ctx.conn
        OBVIOUS
  <2>2. Waits(x)' => Waits(x)
        BY <1>1 DEF Waits
  <2>3. x \in Clients /\ toServer[x] = <<>> /\ pc[x] # "send" => toServer'[x] = <<>> /\ pc'[x] # "send"
    <3>1. pc[x] # "send" => x # c
          BY <1>1
    <3>2. x \in Clients /\ x # c => toServer'[x] = toServer[x] /\ pc'[x] = pc[x]
          BY <1>1, <1>2
    <3>.  QED BY <3>1, <3>2
  <2>.  QED BY <1>1, <2>1, <2>2, <2>3, RequestFrame DEF GetFileInv
<1>7. StreamsInv'
  <2>1. \A d \in Clients : ~inPieces'[d] => toServer'[d] \in {<<>>, Request(asked'[d])}
        BY <1>1, <1>4 DEF GetFileInv, StreamsInv
  <2>.  QED BY <1>1, <2>1 DEF GetFileInv, StreamsInv, listening, serving
<1>8. ASSUME NEW d \in Clients
      PROVE  ClientInv(d)'
  <2>1. ServerSeen(d)
        BY <1>1, SeenSame DEF Waits
  <2>2. CASE d = c
    <3>1. /\ gfr'[c].ret = None /\ local'[c] # "kept"
          /\ Before(c)' => toClient'[c] = <<>>
      <4>1. Before(c)' => Before(c)
            BY <2>1, <2>2 DEF ServerSeen
      <4>.  QED BY <1>1, <4>1 DEF GetFileInv, ClientInv
    <3>2. Unsent(c) => Unsent(c)'
          BY <1>1, <2>1, <2>2 DEF Unsent, ServerSeen
    <3>3. ASSUME NEW S \in Answers(c), NEW m \in 0 .. Len(S), Sent(c, S, m)
          PROVE  S \in Answers(c)' /\ Sent(c, S, m)'
      <4>1. S \in Answers(c)'
            BY <1>1, AnswersStay
      <4>2. Sent(c, S, m)'
            BY <1>1, <2>1, <2>2, <3>3 DEF Sent, Got, Window, Parsed, Cut, InContent, Prefix, ServerSeen
      <4>.  QED BY <4>1, <4>2
    <3>4. Unsent(c)' \/ \E S \in Answers(c)' : \E m \in 0 .. Len(S) : Sent(c, S, m)'
          BY <1>1, <3>2, <3>3 DEF GetFileInv, ClientInv
    <3>.  QED BY <1>4, <2>2, <3>1, <3>4 DEF ClientInv
  <2>3. CASE d # c
    <3>1. OwnSame(d)
          BY <1>1, <1>4, <2>3 DEF OwnSame
    <3>.  QED BY <2>1, <3>1, ClientFrame DEF GetFileInv
  <2>.  QED BY <2>2, <2>3
<1>. QED BY <1>5, <1>6, <1>7, <1>8 DEF GetFileInv

\* A read takes n cells off the front of the window.
LEMMA WindowShrinks ==
    ASSUME NEW t, NEW S, NEW k \in Nat, NEW m \in Nat, k <= m, Window(t, S, k, m),
           NEW n \in 1 .. Len(t)
    PROVE  Window(SubSeq(t, n + 1, Len(t)), S, k + n, m) /\ n \in 1 .. m - k
<1> DEFINE s == SubSeq(t, n + 1, Len(t))
<1>1. /\ t \in Seq(Cell) /\ Len(t) = m - k /\ n \in Nat /\ n >= 1 /\ n <= m - k
      /\ \A i \in 1 .. m - k : t[i] = S[k + i]
      BY DEF Window
<1>2. CASE n = m - k
  <2>1. s = <<>>
        BY <1>1, <1>2, SubSeqProperties
  <2>2. <<>> \in Seq(Cell) /\ Len(<<>>) = 0 /\ m - (k + n) = 0
        BY <1>1, <1>2
  <2>.  QED BY <1>1, <2>1, <2>2 DEF Window
<1>3. CASE n < m - k
  <2>1. /\ n + 1 \in Int /\ Len(t) \in Int /\ n + 1 <= Len(t) /\ Len(t) - (n + 1) + 1 = m - (k + n)
        BY <1>1, <1>3
  <2>2. \A i \in n + 1 .. Len(t) : t[i] \in Cell
    <3>1. \A i \in n + 1 .. Len(t) : i \in 1 .. Len(t)
          BY <1>1
    <3>.  QED BY <1>1, <3>1
  <2>3. /\ s \in Seq(Cell) /\ Len(s) = Len(t) - (n + 1) + 1
        /\ \A i \in 1 .. Len(t) - (n + 1) + 1 : s[i] = t[n + 1 + i - 1]
        BY <2>1, <2>2, SubSeqProperties
  <2>   HIDE DEF s
  <2>4. ASSUME NEW i \in 1 .. m - (k + n)
        PROVE  s[i] = S[k + n + i]
    <3>1. n + 1 + i - 1 = n + i /\ n + i \in 1 .. m - k /\ k + (n + i) = k + n + i
          BY <1>1
    <3>2. t[n + i] = S[k + (n + i)]
          BY <1>1, <3>1
    <3>.  QED BY <2>1, <2>3, <3>1, <3>2
  <2>.  QED BY <2>1, <2>3, <2>4 DEF Window, s
<1>. QED BY <1>1, <1>2, <1>3

LEMMA InvReadResponse ==
    ASSUME GetFileInv, NEW c \in Clients, ReadResponse(c)
    PROVE  GetFileInv'
<1> DEFINE g == gfr[c]
           p == asked[c]
<1>1. /\ pc \in [Clients -> {"create", "send", "read", "returned", "closed"}]
      /\ gfr \in [Clients -> ParserState] /\ g \in ParserState
      /\ written \in [Clients -> Seq(Cell)] /\ toClient \in [Clients -> Seq(Cell)]
      /\ Len(toClient[c]) \in Nat /\ Len(toClient[c]) <= SocketRoom
      /\ cuts \in Nat /\ MaxCuts \in Nat
      BY Constants DEF GetFileInv, Shapes
<1>2. PICK n \in 1 .. Len(toClient[c]) :
        /\ Read(n, IF RequestSize(g) < Len(toClient[c]) THEN RequestSize(g)
                   ELSE Len(toClient[c]))
        /\ \E f \in {Filled(g, toClient[c], n)} :
           \E g1 \in ParseScheme(f) : \E g2 \in ParseMethod(g1) :
           \E g3 \in ParseLength(g2) : \E g4 \in ParsePath(g3) :
              /\ written' = [written EXCEPT ![c] = @ \o Received(g4)]
              /\ gfr' = [gfr EXCEPT ![c] =
                   Forget(Conclude(ParseContent(g4, Len(written'[c]))))]
        /\ toClient' = [toClient EXCEPT ![c] = SubSeq(@, n + 1, Len(@))]
      BY DEF ReadResponse, Filled
<1> DEFINE Leaves(g4) ==
             /\ written' = [written EXCEPT ![c] = @ \o Received(g4)]
             /\ gfr' = [gfr EXCEPT ![c] =
                  Forget(Conclude(ParseContent(g4, Len(written'[c]))))]
<1>31. PICK g1 \in ParseScheme(Filled(g, toClient[c], n)) :
         \E g2 \in ParseMethod(g1) : \E g3 \in ParseLength(g2) :
         \E g4 \in ParsePath(g3) : Leaves(g4)
       BY <1>2
<1>32. PICK g2 \in ParseMethod(g1) :
         \E g3 \in ParseLength(g2) : \E g4 \in ParsePath(g3) : Leaves(g4)
       BY <1>31
<1>33. PICK g3 \in ParseLength(g2) : \E g4 \in ParsePath(g3) : Leaves(g4)
       BY <1>32
<1>3. PICK g4 \in ParsePath(g3) : Leaves(g4)
      BY <1>33
<1> DEFINE v == written[c] \o Received(g4)
           h == Forget(Conclude(ParseContent(g4, Len(v))))
<1>4. /\ pc[c] = "read" /\ pc' = [pc EXCEPT ![c] = IF gfr'[c].ret = None THEN "read" ELSE "returned"]
      /\ UNCHANGED <<asked, local, toServer, inPieces, backlog, aborted, serving, exited>>
      BY DEF ReadResponse, serverVars
<1>5. /\ written' = [written EXCEPT ![c] = v] /\ written'[c] = v
      BY <1>1, <1>3
<1>6. /\ gfr' = [gfr EXCEPT ![c] = h] /\ gfr'[c] = h
  <2>1. gfr' = [gfr EXCEPT ![c] = h]
        BY <1>3, <1>5
  <2>   HIDE DEF h
  <2>.  QED BY <1>1, <2>1
<1> HIDE DEF h, v
<1> DEFINE t == toClient[c]
<1>7. n <= RequestSize(g) /\ cuts' \in 0 .. MaxCuts
  <2>1. n <= RequestSize(g)
    <3>1. PICK r : r = RequestSize(g)
          OBVIOUS
    <3>2. r \in Int
      <4>1. /\ g.content_pt \in Nat /\ g.file_length \in Nat /\ g.total_rx_bytes \in Nat
            /\ RDBUFSIZE \in Nat
            BY <1>1, Constants DEF ParserState
      <4>.  QED BY <3>1, <4>1 DEF RequestSize
    <3>3. PICK l \in Nat : l = Len(toClient[c])
          BY <1>1
    <3>4. PICK there : there = (IF r < l THEN r ELSE l) /\ n \in 1 .. there
          BY <1>2, <3>1, <3>3 DEF Read
    <3>.  QED BY <3>1, <3>2, <3>3, <3>4
  <2>2. cuts' \in Nat /\ cuts' <= MaxCuts
    <3>1. PICK r : Read(n, r)
          BY <1>2
    <3>.  QED BY <1>1, <3>1 DEF Read
  <2>.  QED BY <1>1, <2>1, <2>2
<1>8. toClient' = [toClient EXCEPT ![c] = SubSeq(t, n + 1, Len(t))]
      /\ toClient'[c] = SubSeq(t, n + 1, Len(t))
      BY <1>1, <1>2
<1>9. toClient[c] # <<>>
      BY <1>1, <1>2
<1>10. PICK S \in Answers(c) : \E m \in 0 .. Len(S) : Sent(c, S, m)
  <2>1. ClientInv(c)
        BY DEF GetFileInv
  <2>.  QED BY <1>4, <1>9, <2>1 DEF ClientInv, Unsent
<1>11. PICK m \in 0 .. Len(S) : Sent(c, S, m)
       BY <1>10
<1>12. /\ Len(S) \in Nat /\ m \in Nat /\ Got(g) \in Nat /\ Got(g) <= m
       /\ Window(t, S, Got(g), m) /\ Parsed(g, written[c], S, p)
       BY <1>1, <1>10, <1>11, AnswerIs DEF Sent, Got, ParserState
<1>13. /\ Window(toClient'[c], S, Got(g) + n, m) /\ n \in 1 .. m - Got(g)
       /\ toClient'[c] \in Seq(Cell) /\ Len(toClient'[c]) <= SocketRoom
  <2>1. Window(toClient'[c], S, Got(g) + n, m) /\ n \in 1 .. m - Got(g)
    <3> HIDE DEF t, g
    <3>1. n \in 1 .. Len(t)
          BY DEF t
    <3>2. Window(SubSeq(t, n + 1, Len(t)), S, Got(g) + n, m) /\ n \in 1 .. m - Got(g)
          BY <1>12, <3>1, WindowShrinks
    <3>.  QED BY <1>8, <3>2
  <2>2. toClient'[c] \in Seq(Cell) /\ Len(toClient'[c]) = m - (Got(g) + n)
        /\ Len(t) = m - Got(g)
        BY <1>12, <2>1 DEF Window
  <2>.  QED BY <1>1, <1>12, <2>1, <2>2, Constants
<1>14. g.ret = None
       BY <1>4 DEF GetFileInv, ClientInv
<1>15. Outcome(h, v, S, p, Got(g) + n)
       BY <1>1, <1>12, <1>7, <1>13, <1>14, ReadOutcome DEF h, v
<1>16. h \in ParserState /\ v \in Seq(Cell)
       BY <1>15 DEF Outcome
<1>17. pc'[c] \in {"read", "returned"} /\ (pc'[c] = "read" <=> h.ret = None)
       BY <1>1, <1>4, <1>6
<1>18. Shapes'
  <2>1. gfr' \in [Clients -> ParserState]
        BY <1>1, <1>6, <1>16
  <2>2. written' \in [Clients -> Seq(Cell)]
        BY <1>1, <1>5, <1>16
  <2>3. toClient' \in [Clients -> Seq(Cell)]
        BY <1>1, <1>8, <1>13
  <2>4. pc' \in [Clients -> {"create", "send", "read", "returned", "closed"}]
        BY <1>1, <1>4
  <2>5. \A d \in Clients : Len(toServer'[d]) <= BUFSIZE /\ Len(toClient'[d]) <= SocketRoom
        BY <1>1, <1>4, <1>8, <1>13 DEF GetFileInv, Shapes
  <2>.  QED BY <1>4, <1>7, <2>1, <2>2, <2>3, <2>4, <2>5 DEF GetFileInv, Shapes, serving
<1>19. RequestInv'
  <2>1. PICK x : x = ctx.conn
        OBVIOUS
  <2>2. Waits(x)' => Waits(x)
        BY <1>4 DEF Waits
  <2>3. x \in Clients /\ pc[x] # "send" => pc'[x] # "send"
        BY <1>1, <1>4
  <2>.  QED BY <1>4, <2>1, <2>2, <2>3, RequestFrame DEF GetFileInv
<1>20. StreamsInv'
       BY <1>4 DEF GetFileInv, StreamsInv, Request, serving, listening
<1>21. ASSUME NEW d \in Clients
       PROVE  ClientInv(d)'
  <2>1. ServerSeen(d)
        BY <1>4, SeenSame DEF Waits
  <2>2. CASE d # c
    <3>1. OwnSame(d)
          BY <1>1, <1>4, <1>5, <1>6, <1>8, <2>2 DEF OwnSame
    <3>.  QED BY <2>1, <3>1, ClientFrame DEF GetFileInv
  <2>3. CASE d = c
    <3>1. ~Before(c)
      <4>1. ClientInv(c)
            BY DEF GetFileInv
      <4>.  QED BY <1>9, <4>1 DEF ClientInv
    <3>2. ~Before(c)'
          BY <2>1, <2>3, <3>1 DEF ServerSeen
    <3>3. local'[c] # "kept"
          BY <1>4 DEF GetFileInv, ClientInv
    <3>4. CASE h.ret = None
      <4>1. S \in Answers(c)'
            BY <1>4, AnswersStay
      <4>2. Sent(c, S, m)'
        <5>1. Got(gfr[c]') = Got(g) + n /\ Parsed(gfr'[c], written'[c], S, asked'[c])
              BY <1>4, <1>5, <1>6, <1>15, <3>4 DEF Outcome
        <5>2. Got(g) + n <= m
              BY <1>12, <1>13
        <5>3. Sending(c)' => S # NotFoundStream /\ m = 7 + sent'
              BY <1>11, <2>1, <2>3 DEF ServerSeen, Sent
        <5>4. aborted' = c => S # NotFoundStream /\ m < Len(S)
              BY <1>4, <1>11 DEF Sent
        <5>5. /\ Got(gfr'[c]) <= m /\ Window(toClient'[c], S, Got(gfr'[c]), m)
              /\ Parsed(gfr'[c], written'[c], S, asked'[c])
              BY <1>13, <5>1, <5>2
        <5>.  QED BY <3>2, <5>3, <5>4, <5>5 DEF Sent
      <4>.  QED BY <1>6, <1>17, <2>3, <3>2, <3>3, <3>4, <4>1, <4>2 DEF ClientInv
    <3>5. CASE h.ret # None
      <4>1. ReturnedInv(c)'
        <5>1. gfr'[c].status = "GF_FILE_NOT_FOUND" => inPieces'[c] \/ asked'[c] \notin Files
              BY <1>4, <1>6, <1>10, <1>15, <3>5, AnswerIs DEF Outcome
        <5>2. written'[c] # <<>> => asked'[c] \in Files /\ Prefix(written'[c], asked'[c])
              BY <1>4, <1>5, <1>15 DEF Outcome
        <5>3. ASSUME Full(c)'
              PROVE  /\ asked'[c] \in Files /\ Prefix(written'[c], asked'[c])
                     /\ Len(written'[c]) = Length[asked'[c]] /\ ~Sending(c)' /\ aborted' # c
          <6>1. h.ret = 0 /\ h.status = "GF_OK"
                BY <1>6, <5>3 DEF Full
          <6>2. p \in Files /\ Prefix(v, p) /\ Len(v) = Length[p] /\ Got(g) + n = Len(S)
                BY <1>15, <6>1 DEF Outcome
          <6>3. m = Len(S)
                BY <1>11, <1>12, <1>13, <6>2
          <6>4. ~Sending(c)
            <7>1. SUFFICES ASSUME Sending(c) PROVE FALSE
                  OBVIOUS
            <7>2. S # NotFoundStream /\ m = 7 + sent
                  BY <1>11, <7>1 DEF Sent
            <7>3. S = OkStream(p) /\ Len(S) = 7 + Length[p] /\ Length[p] \in Nat
                  BY <1>10, <6>2, <7>2, AnswerIs, OkIs, Constants
            <7>4. sent < Length[p] /\ sent \in Nat
                  BY <7>1 DEF GetFileInv, RequestInv, Sending, Shapes
            <7>5. PICK l : l = Length[p]
                  OBVIOUS
            <7>6. m = 7 + l /\ m = 7 + sent /\ sent < l /\ l \in Nat /\ sent \in Nat
                  BY <6>3, <7>2, <7>3, <7>4, <7>5
            <7>.  QED BY <7>6
          <6>5. aborted # c
                BY <1>11, <1>12, <6>3 DEF Sent
          <6>6. ~Sending(c)' /\ aborted' # c
                BY <1>4, <2>1, <2>3, <6>4, <6>5 DEF ServerSeen
          <6>.  QED BY <1>4, <1>5, <6>2, <6>6
        <5>.  QED BY <3>2, <5>1, <5>2, <5>3 DEF ReturnedInv
      <4>.  QED BY <1>6, <1>17, <2>3, <3>2, <3>3, <3>5, <4>1 DEF ClientInv
    <3>.  QED BY <3>4, <3>5
  <2>.  QED BY <2>2, <2>3
<1>. QED BY <1>18, <1>19, <1>20, <1>21 DEF GetFileInv

LEMMA InvReadResponseFails ==
    ASSUME GetFileInv, NEW c \in Clients, ReadResponseFails(c)
    PROVE  GetFileInv'
<1> DEFINE f == [gfr[c] EXCEPT !.ret = -1]
           h == Forget(f)
<1>1. /\ pc[c] = "read" /\ pc' = [pc EXCEPT ![c] = "returned"] /\ gfr' = [gfr EXCEPT ![c] = h]
      /\ UNCHANGED <<asked, local, written, toServer, toClient, inPieces, cuts, backlog,
                     aborted, serving, exited>>
      BY DEF ReadResponseFails, connVars, serverVars
<1>2. /\ pc \in [Clients -> {"create", "send", "read", "returned", "closed"}]
      /\ gfr \in [Clients -> ParserState] /\ gfr[c] \in ParserState
      BY DEF GetFileInv, Shapes
<1>3. f \in ParserState /\ f.ret = -1 /\ f.status = gfr[c].status
  <2>1. -1 \in {None, 0, -1}
        OBVIOUS
  <2>.  QED BY <1>2, <2>1 DEF ParserState
<1> HIDE DEF f
<1>4. h \in ParserState /\ h.ret = -1 /\ h.status = gfr[c].status
      BY <1>3, ForgetIs
<1> HIDE DEF h
<1>5. pc'[c] = "returned" /\ gfr'[c] = h
      BY <1>1, <1>2
<1>6. Shapes'
  <2>1. /\ gfr' \in [Clients -> ParserState]
        /\ pc' \in [Clients -> {"create", "send", "read", "returned", "closed"}]
        BY <1>1, <1>2, <1>4
  <2>.  QED BY <1>1, <2>1 DEF GetFileInv, Shapes, serving
<1>7. RequestInv'
  <2>1. PICK x : x = ctx.conn
        OBVIOUS
  <2>2. Waits(x)' => Waits(x)
        BY <1>1 DEF Waits
  <2>3. x \in Clients /\ pc[x] # "send" => pc'[x] # "send"
        BY <1>1, <1>2
  <2>.  QED BY <1>1, <2>1, <2>2, <2>3, RequestFrame DEF GetFileInv
<1>8. StreamsInv'
      BY <1>1 DEF GetFileInv, StreamsInv, Request, serving, listening
<1>9. ASSUME NEW d \in Clients
      PROVE  ClientInv(d)'
  <2>1. ServerSeen(d)
        BY <1>1, SeenSame DEF Waits
  <2>2. CASE d # c
    <3>1. OwnSame(d)
          BY <1>1, <1>2, <2>2 DEF OwnSame
    <3>.  QED BY <2>1, <3>1, ClientFrame DEF GetFileInv
  <2>3. CASE d = c
    <3>1. ClientInv(c)
          BY DEF GetFileInv
    <3>2. /\ gfr[c].status # "GF_FILE_NOT_FOUND"
          /\ written[c] # <<>> => asked[c] \in Files /\ Prefix(written[c], asked[c])
          BY <1>1, <1>2, <3>1, ReadingIs
    <3>3. local'[c] # "kept"
          BY <1>1, <3>1 DEF ClientInv
    <3>4. -1 # None /\ -1 # 0
          BY Constants
    <3>5. ReturnedInv(c)'
          BY <1>1, <1>4, <1>5, <3>2, <3>4 DEF ReturnedInv, Full
    <3>6. Before(c)' => toClient'[c] = <<>>
          BY <1>1, <2>1, <2>3, <3>1 DEF ClientInv, ServerSeen
    <3>.  QED BY <1>4, <1>5, <2>3, <3>3, <3>4, <3>5, <3>6 DEF ClientInv
  <2>.  QED BY <2>2, <2>3
<1>. QED BY <1>6, <1>7, <1>8, <1>9 DEF GetFileInv

LEMMA InvClose ==
    ASSUME GetFileInv, NEW c \in Clients, Close(c)
    PROVE  GetFileInv'
<1>1. /\ pc[c] = "returned" /\ pc' = [pc EXCEPT ![c] = "closed"]
      /\ local' = [local EXCEPT ![c] = IF Kept(gfr[c]) THEN "kept" ELSE "none"]
      /\ toClient' = [toClient EXCEPT ![c] = <<>>]
      /\ UNCHANGED <<asked, gfr, written, toServer, inPieces, cuts, backlog, aborted, serving,
                     exited>>
      BY DEF Close, serverVars
<1>2. /\ pc \in [Clients -> {"create", "send", "read", "returned", "closed"}]
      /\ local \in [Clients -> {"none", "open", "kept"}] /\ toClient \in [Clients -> Seq(Cell)]
      BY DEF GetFileInv, Shapes
<1>3. /\ pc'[c] = "closed" /\ toClient'[c] = <<>>
      /\ local'[c] = IF Full(c) THEN "kept" ELSE "none"
      BY <1>1, <1>2 DEF Full, Kept
<1>4. Shapes'
  <2>1. /\ pc' \in [Clients -> {"create", "send", "read", "returned", "closed"}]
        /\ local' \in [Clients -> {"none", "open", "kept"}] /\ toClient' \in [Clients -> Seq(Cell)]
        BY <1>1, <1>2
  <2>2. \A d \in Clients : Len(toClient'[d]) <= SocketRoom
    <3>1. Len(<<>>) <= SocketRoom
          BY Constants
    <3>.  QED BY <1>1, <1>2, <3>1 DEF GetFileInv, Shapes
  <2>.  QED BY <1>1, <2>1, <2>2 DEF GetFileInv, Shapes, serving
<1>5. RequestInv'
  <2>1. PICK x : x = ctx.conn
        OBVIOUS
  <2>2. Waits(x)' => Waits(x)
        BY <1>1 DEF Waits
  <2>3. x \in Clients /\ pc[x] # "send" => pc'[x] # "send"
        BY <1>1, <1>2
  <2>.  QED BY <1>1, <2>1, <2>2, <2>3, RequestFrame DEF GetFileInv
<1>6. StreamsInv'
      BY <1>1 DEF GetFileInv, StreamsInv, Request, serving, listening
<1>7. ASSUME NEW d \in Clients
      PROVE  ClientInv(d)'
  <2>1. ServerSeen(d)
        BY <1>1, SeenSame DEF Waits
  <2>2. CASE d # c
    <3>1. OwnSame(d)
          BY <1>1, <1>2, <2>2 DEF OwnSame
    <3>.  QED BY <2>1, <3>1, ClientFrame DEF GetFileInv
  <2>3. CASE d = c
    <3>1. ReturnedInv(c)
          BY <1>1 DEF GetFileInv, ClientInv
    <3>2. ReturnedInv(c)'
          BY <1>1, <2>1, <2>3, <3>1 DEF ReturnedInv, Prefix, Full, ServerSeen
    <3>3. Full(c)' <=> Full(c)
          BY <1>1 DEF Full
    <3>.  QED BY <1>3, <2>3, <3>2, <3>3 DEF ClientInv
  <2>.  QED BY <2>2, <2>3
<1>. QED BY <1>4, <1>5, <1>6, <1>7 DEF GetFileInv

-----------------------------------------------------------------------------
(***************************************************************************)
(* What each step of the server does to the invariant: connections.        *)
(***************************************************************************)
LEMMA NewContextIs ==
    ASSUME NEW c \in Clients \cup {None}
    PROVE  /\ NewContext(c) \in ServerState /\ NewContext(c).conn = c /\ NewContext(c).path = None
           /\ NewContext(c).status = "GF_OK" /\ NewContext(c).rx_bytes = 0
           /\ NewContext(c).header_pt = 0 /\ NewContext(c).sm = "SCHEME"
           /\ NewContext(c).buffer \in ServerBuffers
           /\ \A i \in 1 .. BUFSIZE : NewContext(c).buffer[i] = <<>>
<1> DEFINE b == [i \in 1 .. BUFSIZE |-> <<>>]
<1>1. b \in ServerBuffers /\ \A i \in 1 .. BUFSIZE : b[i] = <<>>
  <2>1. <<>> \in Cell /\ BUFSIZE \in Nat
        BY DEF Cell, BUFSIZE
  <2>2. b \in [1 .. BUFSIZE -> Cell]
        BY <2>1
  <2>.  QED BY <2>1, <2>2 DEF ServerBuffers
<1> HIDE DEF b
<1>2. NewContext(c) = [conn |-> c, path |-> None, status |-> "GF_OK", rx_bytes |-> 0,
                       header_pt |-> 0, sm |-> "SCHEME", buffer |-> b]
      BY DEF NewContext, b
<1>. QED BY <1>1, <1>2 DEF ServerState, Status

\* A step that leaves the clients alone leaves those alone that the server is
\* not dealing with.
LEMMA ServerFrame ==
    ASSUME GetFileInv, UNCHANGED <<clientVars, connVars>>, NEW c \in Clients, ServerSeen(c)
    PROVE  ClientInv(c)'
<1>1. OwnSame(c)
      BY DEF OwnSame, clientVars, connVars
<1>. QED BY <1>1, ClientFrame DEF GetFileInv

LEMMA InvAccept ==
    ASSUME GetFileInv, ~exited, Accept
    PROVE  GetFileInv'
<1>1. /\ spc = "accept" /\ backlog # <<>> /\ listening /\ ctx' = NewContext(Head(backlog))
      /\ backlog' = Tail(backlog) /\ spc' = "request"
      /\ UNCHANGED <<clientVars, connVars, aborted, sent, exited>>
      BY DEF Accept
<1>2. /\ backlog \in Seq(Clients) /\ Len(backlog) \in Nat /\ Len(backlog) > 0
      /\ Head(backlog) = backlog[1] /\ Head(backlog) \in Clients
      /\ Tail(backlog) \in Seq(Clients) /\ Len(backlog') = Len(backlog) - 1
      /\ DOMAIN backlog = 1 .. Len(backlog) /\ DOMAIN backlog' = 1 .. Len(backlog) - 1
      /\ \A i \in DOMAIN backlog' : backlog'[i] = backlog[i + 1]
  <2>1. backlog \in Seq(Clients)
        BY DEF GetFileInv, Shapes
  <2>2. /\ Head(backlog) = backlog[1] /\ Head(backlog) \in Clients
        /\ Tail(backlog) \in Seq(Clients) /\ Len(Tail(backlog)) = Len(backlog) - 1
        /\ \A i \in 1 .. Len(Tail(backlog)) : Tail(backlog)[i] = backlog[i + 1]
        BY <1>1, <2>1, HeadTailProperties
  <2>.  QED BY <1>1, <2>1, <2>2
<1>3. \A i, j \in DOMAIN backlog : backlog[i] = backlog[j] => i = j
      BY DEF GetFileInv, StreamsInv
<1>4. PICK c \in Clients : c = Head(backlog)
      BY <1>2
<1>5. /\ ctx' = NewContext(c) /\ ctx'.conn = c /\ ctx' \in ServerState /\ ctx'.path = None
      BY <1>1, <1>4, NewContextIs
<1>6. Waits(c) /\ ~Waits(c)' /\ \A d : Waits(d)' => Waits(d)
  <2>1. 1 \in DOMAIN backlog
        BY <1>2
  <2>2. ~Waits(c)'
        BY <1>2, <1>3, <1>4 DEF Waits
  <2>3. ASSUME NEW d, Waits(d)'
        PROVE  Waits(d)
    <3>1. PICK i \in DOMAIN backlog' : backlog'[i] = d
          BY <2>3 DEF Waits
    <3>2. i + 1 \in DOMAIN backlog /\ backlog[i + 1] = d
          BY <1>2, <3>1
    <3>.  QED BY <3>2 DEF Waits
  <2>.  QED BY <1>2, <1>4, <2>1, <2>2, <2>3 DEF Waits
<1>7. Shapes'
      BY <1>1, <1>2, <1>5 DEF GetFileInv, Shapes, clientVars, connVars
<1>8. RequestInv'
  <2>1. NewContext(ctx.conn)' = ctx'
        BY <1>1, <1>4, <1>5 DEF NewContext
  <2>2. None # Mangled
        BY Constants
  <2>.  QED BY <1>1, <1>5, <1>6, <2>1, <2>2 DEF RequestInv, Waits
<1>9. StreamsInv'
  <2>1. \A i, j \in DOMAIN backlog' : backlog'[i] = backlog'[j] => i = j
        BY <1>2, <1>3
  <2>2. listening' /\ ~exited'
        BY <1>1 DEF listening
  <2>3. \A d \in Clients : ~inPieces'[d] => toServer'[d] \in {<<>>, Request(asked'[d])}
        BY <1>1 DEF GetFileInv, StreamsInv, clientVars, connVars
  <2>.  QED BY <2>1, <2>2, <2>3 DEF StreamsInv
<1>10. ASSUME NEW d \in Clients
       PROVE  ClientInv(d)'
  <2>1. Before(d)' => Before(d)
        BY <1>5, <1>6 DEF Before
  <2>2. ~Sending(d)'
        BY <1>1 DEF Sending
  <2>3. pc[d] = "create" => ctx'.conn # d
        BY <1>5, <1>6 DEF GetFileInv, ClientInv, Before
  <2>4. ServerSeen(d)
        BY <1>1, <2>1, <2>2, <2>3 DEF ServerSeen
  <2>.  QED BY <1>1, <2>4, ServerFrame
<1>. QED BY <1>7, <1>8, <1>9, <1>10 DEF GetFileInv

\* The server ends, and nothing else happens.
LEMMA InvExit ==
    ASSUME GetFileInv, exited' = TRUE,
           UNCHANGED <<clientVars, connVars, backlog, aborted, serving>>,
           listening => spc \in {"request", "send"}
    PROVE  GetFileInv'
<1>1. Shapes'
      BY DEF GetFileInv, Shapes, clientVars, connVars, serving
<1>2. RequestInv'
  <2>1. PICK x : x = ctx.conn
        OBVIOUS
  <2>2. Waits(x)' => Waits(x)
        BY DEF Waits
  <2>.  QED BY <2>1, <2>2, RequestFrame DEF GetFileInv, clientVars, connVars
<1>3. StreamsInv'
      BY DEF GetFileInv, StreamsInv, clientVars, connVars, serving, listening, Request
<1>4. ASSUME NEW c \in Clients
      PROVE  ClientInv(c)'
  <2>1. ServerSeen(c)
        BY SeenSame DEF Waits
  <2>.  QED BY <2>1, ServerFrame
<1>. QED BY <1>1, <1>2, <1>3, <1>4 DEF GetFileInv

LEMMA InvAcceptFails ==
    ASSUME GetFileInv, ~exited, AcceptFails
    PROVE  GetFileInv'
BY InvExit DEF AcceptFails

LEMMA InvBrokenPipe ==
    ASSUME GetFileInv, ~exited, BrokenPipe
    PROVE  GetFileInv'
BY InvExit DEF BrokenPipe

LEMMA InvShutdown ==
    ASSUME GetFileInv, ~exited, Shutdown
    PROVE  GetFileInv'
<1>1. /\ spc' = "accept" /\ ctx' = NewContext(None) /\ sent' = 0
      /\ UNCHANGED <<backlog, aborted, clientVars, connVars, exited>>
      BY DEF Shutdown, OtherSockets
<1>2. ctx' \in ServerState /\ ctx'.conn = None
      BY <1>1, NewContextIs
<1>3. Shapes'
      BY <1>1, <1>2 DEF GetFileInv, Shapes, clientVars, connVars
<1>4. RequestInv'
      BY <1>1, <1>2 DEF RequestInv
<1>5. StreamsInv'
      BY <1>1, <1>2 DEF GetFileInv, StreamsInv, clientVars, connVars, listening, Request
<1>6. ASSUME NEW c \in Clients
      PROVE  ClientInv(c)'
  <2>1. None # c
        BY Constants
  <2>2. Before(c)' => Before(c)
        BY <1>1, <1>2 DEF Before, Waits
  <2>3. ServerSeen(c)
        BY <1>1, <1>2, <2>1, <2>2 DEF ServerSeen, Sending
  <2>.  QED BY <1>1, <2>3, ServerFrame
<1>. QED BY <1>3, <1>4, <1>5, <1>6 DEF GetFileInv

-----------------------------------------------------------------------------
(***************************************************************************)
(* The request, as the server reads it.                                    *)
(***************************************************************************)
LEMMA FrontAndRest ==
    ASSUME NEW t \in Seq(Cell), NEW n \in 1 .. Len(t)
    PROVE  /\ SubSeq(t, 1, n) \in Seq(Cell) /\ Len(SubSeq(t, 1, n)) = n
           /\ \A i \in 1 .. n : SubSeq(t, 1, n)[i] = t[i]
           /\ SubSeq(t, n + 1, Len(t)) \in Seq(Cell)
           /\ Len(SubSeq(t, n + 1, Len(t))) = Len(t) - n
           /\ n = Len(t) => SubSeq(t, n + 1, Len(t)) = <<>>
<1>1. /\ n \in Nat /\ n >= 1 /\ n <= Len(t) /\ Len(t) \in Nat /\ 1 \in Int /\ n \in Int
      /\ n + 1 \in Int /\ Len(t) \in Int /\ n - 1 + 1 = n /\ 1 <= n
      OBVIOUS
<1>2. \A i \in 1 .. Len(t) : t[i] \in Cell
      OBVIOUS
<1>3. /\ SubSeq(t, 1, n) \in Seq(Cell) /\ Len(SubSeq(t, 1, n)) = n
      /\ \A i \in 1 .. n : SubSeq(t, 1, n)[i] = t[i]
  <2>1. \A i \in 1 .. n : t[i] \in Cell
        BY <1>1, <1>2
  <2>2. /\ SubSeq(t, 1, n) \in Seq(Cell) /\ Len(SubSeq(t, 1, n)) = n - 1 + 1
        /\ \A i \in 1 .. n - 1 + 1 : SubSeq(t, 1, n)[i] = t[1 + i - 1]
        BY <1>1, <2>1, SubSeqProperties
  <2>3. \A i \in 1 .. n : 1 + i - 1 = i
        BY <1>1
  <2>.  QED BY <1>1, <2>2, <2>3
<1>4. CASE n = Len(t)
  <2>1. SubSeq(t, n + 1, Len(t)) = <<>>
        BY <1>1, <1>4, SubSeqProperties
  <2>2. <<>> \in Seq(Cell) /\ Len(<<>>) = 0 /\ Len(t) - n = 0
        BY <1>1, <1>4
  <2>.  QED BY <1>3, <2>1, <2>2
<1>5. CASE n < Len(t)
  <2>1. n + 1 <= Len(t) /\ Len(t) - (n + 1) + 1 = Len(t) - n
        BY <1>1, <1>5
  <2>2. \A i \in n + 1 .. Len(t) : t[i] \in Cell
        BY <1>1, <1>2
  <2>3. /\ SubSeq(t, n + 1, Len(t)) \in Seq(Cell)
        /\ Len(SubSeq(t, n + 1, Len(t))) = Len(t) - (n + 1) + 1
        BY <1>1, <2>1, <2>2, SubSeqProperties
  <2>4. Len(SubSeq(t, n + 1, Len(t))) = Len(t) - n
        BY <2>1, <2>3
  <2>5. n # Len(t)
        BY <1>1, <1>5
  <2>.  QED BY <1>3, <2>3, <2>4, <2>5
<1>6. n = Len(t) \/ n < Len(t)
      BY <1>1
<1>. QED BY <1>4, <1>5, <1>6

LEMMA ServerStores ==
    ASSUME NEW b \in ServerBuffers, NEW at \in Nat, NEW s \in Seq(Cell)
    PROVE  /\ Store(b, at, s) \in ServerBuffers
           /\ at = 0 => \A i \in 1 .. BUFSIZE : i <= Len(s) => Store(b, at, s)[i] = s[i]
<1>1. /\ b \in Seq(Cell) /\ Len(b) = BUFSIZE /\ BUFSIZE \in Nat /\ DOMAIN b = 1 .. BUFSIZE
      /\ Len(s) \in Nat /\ DOMAIN s = 1 .. Len(s) /\ \A i \in 1 .. Len(s) : s[i] \in Cell
      /\ \A i \in 1 .. BUFSIZE : b[i] \in Cell
  <2>1. b \in Seq(Cell) /\ Len(b) = BUFSIZE /\ BUFSIZE \in Nat
        BY DEF ServerBuffers, BUFSIZE
  <2>2. DOMAIN b = 1 .. BUFSIZE /\ \A i \in 1 .. BUFSIZE : b[i] \in Cell
        BY <2>1
  <2>3. Len(s) \in Nat /\ DOMAIN s = 1 .. Len(s) /\ \A i \in 1 .. Len(s) : s[i] \in Cell
        OBVIOUS
  <2>.  QED BY <2>1, <2>2, <2>3
<1>2. Store(b, at, s) = [i \in 1 .. BUFSIZE |-> IF i \in at + 1 .. at + Len(s) THEN s[i - at] ELSE b[i]]
      BY <1>1 DEF Store
<1>3. ASSUME NEW i \in 1 .. BUFSIZE
      PROVE  (IF i \in at + 1 .. at + Len(s) THEN s[i - at] ELSE b[i]) \in Cell
  <2>1. CASE i \in at + 1 .. at + Len(s)
    <3>1. i - at \in 1 .. Len(s)
          BY <1>1, <2>1
    <3>.  QED BY <1>1, <2>1, <3>1
  <2>2. CASE i \notin at + 1 .. at + Len(s)
        BY <1>1, <2>2
  <2>.  QED BY <2>1, <2>2
<1>4. Store(b, at, s) \in [1 .. BUFSIZE -> Cell]
      BY <1>2, <1>3
<1>5. Store(b, at, s) \in ServerBuffers
      BY <1>1, <1>4 DEF ServerBuffers
<1>6. ASSUME at = 0, NEW i \in 1 .. BUFSIZE, i <= Len(s)
      PROVE  Store(b, at, s)[i] = s[i]
  <2>1. i \in at + 1 .. at + Len(s) /\ i - at = i
        BY <1>1, <1>6
  <2>.  QED BY <1>2, <2>1
<1>. QED BY <1>5, <1>6

\* However the request is cut, the path that the server finds is the one that was
\* asked for or is mangled.
LEMMA ServerParses ==
    ASSUME NEW x \in ServerState, NEW p \in Path
    PROVE  LET y == ServerPath(ServerMethod(ServerScheme(x)), p) IN
           y \in ServerState /\ y.conn = x.conn /\ y.path \in {x.path, p, Mangled}
<1> DEFINE a == ServerScheme(x)
           b == ServerMethod(a)
           y == ServerPath(b, p)
<1>1. a \in ServerState /\ a.conn = x.conn /\ a.path = x.path
  <2>1. \/ a = x \/ a = [x EXCEPT !.sm = "METHOD", !.header_pt = 2]
        \/ a = [x EXCEPT !.status = "GF_FILE_NOT_FOUND"]
        BY DEF ServerScheme
  <2>   HIDE DEF a
  <2>.  QED BY <2>1 DEF ServerState, Status
<1> HIDE DEF a
<1>2. b \in ServerState /\ b.conn = x.conn /\ b.path = x.path
  <2>1. \/ b = a \/ b = [a EXCEPT !.sm = "PATH", !.header_pt = 4]
        \/ b = [a EXCEPT !.status = "GF_FILE_NOT_FOUND"]
        BY DEF ServerMethod
  <2>   HIDE DEF b
  <2>.  QED BY <1>1, <2>1 DEF ServerState, Status
<1> HIDE DEF b
<1>3. y = b \/ \E q \in {p, Mangled} : y = [b EXCEPT !.path = q]
      BY DEF ServerPath
<1> HIDE DEF y
<1>4. y \in ServerState /\ y.conn = x.conn /\ y.path \in {x.path, p, Mangled}
      BY <1>2, <1>3 DEF ServerState
<1>. QED BY <1>4 DEF y, b, a

\* A request that comes in one read is understood.
LEMMA WholeRequest ==
    ASSUME NEW c \in Clients, NEW p \in Path, NEW x \in ServerState,
           x.sm = "SCHEME", x.status = "GF_OK", x.path = None, x.rx_bytes = 8,
           x.header_pt = 0, \A i \in 1 .. 6 : x.buffer[i] = Request(p)[i]
    PROVE  LET y == ServerPath(ServerMethod(ServerScheme(x)), p) IN
           y.path = p /\ y.status = "GF_OK"
<1> DEFINE a == ServerScheme(x)
           b == ServerMethod(a)
           y == ServerPath(b, p)
<1>1. PICK u : u = x.buffer
      OBVIOUS
<1>2. /\ u \in Seq(Cell) /\ Len(u) = 8
      /\ u[1] = <<"GETFILE", 1>> /\ u[2] = <<"GETFILE", 2>> /\ u[3] = <<"GET", 1>>
      /\ u[4] = <<"GET", 2>> /\ u[5] = <<p, 1>> /\ u[6] = <<p, 2>>
      /\ "GETFILE" \in Names /\ "GET" \in Names /\ p \in Names
      BY <1>1, RequestIs, NamesDiffer DEF ServerState, ServerBuffers, BUFSIZE, Names
<1>3. 0 + 2 <= Len(u) /\ 2 + 2 <= Len(u) /\ 4 + 2 <= Len(u)
      BY <1>2
<1>4. a = [x EXCEPT !.sm = "METHOD", !.header_pt = 2]
  <2>1. 0 \in Nat /\ 0 + 1 = 1 /\ 0 + 2 = 2
        OBVIOUS
  <2>2. At(x, "GETFILE") <=> u[0 + 1] = <<"GETFILE", 1>> /\ u[0 + 2] = <<"GETFILE", 2>>
        BY <1>1, <1>2, <1>3, <2>1, AtIs
  <2>3. At(x, "GETFILE")
        BY <1>2, <2>1, <2>2
  <2>.  QED BY <2>3 DEF ServerScheme
<1> HIDE DEF a
<1>5. /\ a \in ServerState /\ a.sm = "METHOD" /\ a.header_pt = 2 /\ a.buffer = u
      /\ a.status = "GF_OK" /\ a.path = None /\ a.rx_bytes = 8
      BY <1>1, <1>4 DEF ServerState
<1>6. b = [a EXCEPT !.sm = "PATH", !.header_pt = 4]
  <2>1. At(a, "GET") <=> u[2 + 1] = <<"GET", 1>> /\ u[2 + 2] = <<"GET", 2>>
        BY <1>2, <1>3, <1>5, AtIs
  <2>.  QED BY <1>2, <1>5, <2>1 DEF ServerMethod, Unparsed
<1> HIDE DEF b
<1>7. /\ b \in ServerState /\ b.sm = "PATH" /\ b.header_pt = 4 /\ b.buffer = u
      /\ b.status = "GF_OK" /\ b.path = None /\ b.rx_bytes = 8
      BY <1>5, <1>6 DEF ServerState
<1>8. At(b, p)
  <2>1. At(b, p) <=> u[4 + 1] = <<p, 1>> /\ u[4 + 2] = <<p, 2>>
        BY <1>2, <1>3, <1>7, AtIs
  <2>.  QED BY <1>2, <2>1
<1>9. y = [b EXCEPT !.path = p]
  <2>1. b.buffer[b.header_pt + 1] # <<>>
        BY <1>2, <1>7
  <2>.  QED BY <1>7, <1>8, <2>1 DEF ServerPath
<1>10. y.path = p /\ y.status = "GF_OK"
       BY <1>7, <1>9 DEF ServerState
<1>. QED BY <1>10 DEF a, b, y

LEMMA InvReadRequest ==
    ASSUME GetFileInv, ~exited, ReadRequest
    PROVE  GetFileInv'
<1>1. PICK c : c = ctx.conn
      OBVIOUS
<1>2. /\ spc = "request" /\ c \in Clients /\ ~Waits(c) /\ listening
      /\ ctx.path \in {None, asked[c], Mangled}
      /\ ~inPieces[c] => ctx = NewContext(c) \/ toServer[c] = <<>>
  <2>1. spc = "request"
        BY DEF ReadRequest
  <2>2. c \in Clients /\ ~Waits(c)
        BY <1>1, <2>1 DEF GetFileInv, RequestInv
  <2>3. c # None
        BY <2>2, Constants
  <2>4. ctx.path \in {None, asked[c], Mangled}
        BY <1>1, <2>3 DEF GetFileInv, RequestInv
  <2>5. ~inPieces[c] => ctx = NewContext(c) \/ toServer[c] = <<>>
        BY <1>1, <2>1, <2>3 DEF GetFileInv, RequestInv
  <2>6. listening
        BY <2>1 DEF GetFileInv, StreamsInv
  <2>.  QED BY <2>1, <2>2, <2>4, <2>5, <2>6
<1>3. PICK t : t = toServer[c]
      OBVIOUS
<1>4. /\ ctx \in ServerState /\ t \in Seq(Cell) /\ Len(t) \in Nat /\ Len(t) <= BUFSIZE
      /\ toServer \in [Clients -> Seq(Cell)] /\ inPieces \in [Clients -> BOOLEAN]
      /\ cuts \in Nat /\ MaxCuts \in Nat /\ asked[c] \in Path
      BY <1>2, <1>3, Constants DEF GetFileInv, Shapes
<1>5. PICK n \in 1 .. Len(t) :
        /\ Read(n, Len(t))
        /\ \E x \in {[ctx EXCEPT !.rx_bytes = @ + n,
                         !.buffer = Store(@, ctx.header_pt, SubSeq(t, 1, n))]} :
             ctx' = ServerPath(ServerMethod(ServerScheme(x)), asked[c])
        /\ spc' = IF ctx'.status = "GF_OK" THEN "request" ELSE "not_found"
        /\ toServer' = [toServer EXCEPT ![c] = SubSeq(@, n + 1, Len(@))]
        /\ inPieces' = [inPieces EXCEPT ![c] = @ \/ n < Len(t)]
      BY <1>1, <1>3 DEF ReadRequest
<1>6. PICK x : /\ x = [ctx EXCEPT !.rx_bytes = ctx.rx_bytes + n,
                         !.buffer = Store(ctx.buffer, ctx.header_pt, SubSeq(t, 1, n))]
               /\ ctx' = ServerPath(ServerMethod(ServerScheme(x)), asked[c])
      BY <1>5
<1>7. UNCHANGED <<clientVars, toClient, backlog, aborted, sent, exited>>
      BY DEF ReadRequest
<1>8. /\ SubSeq(t, 1, n) \in Seq(Cell) /\ Len(SubSeq(t, 1, n)) = n
      /\ \A i \in 1 .. n : SubSeq(t, 1, n)[i] = t[i]
      /\ SubSeq(t, n + 1, Len(t)) \in Seq(Cell) /\ Len(SubSeq(t, n + 1, Len(t))) = Len(t) - n
      /\ n = Len(t) => SubSeq(t, n + 1, Len(t)) = <<>>
      BY <1>4, FrontAndRest
<1>9. PICK s : s = SubSeq(t, 1, n)
      OBVIOUS
<1>10. /\ x \in ServerState /\ x.conn = c /\ x.path = ctx.path /\ x.sm = ctx.sm
       /\ x.status = ctx.status /\ x.header_pt = ctx.header_pt /\ x.rx_bytes = ctx.rx_bytes + n
       /\ ctx.header_pt = 0 => \A i \in 1 .. BUFSIZE : i <= n => x.buffer[i] = t[i]
  <2>1. PICK b : b = ctx.buffer
        OBVIOUS
  <2>2. PICK at : at = ctx.header_pt
        OBVIOUS
  <2>3. b \in ServerBuffers /\ at \in Nat /\ s \in Seq(Cell) /\ Len(s) = n
        BY <1>4, <1>8, <1>9, <2>1, <2>2 DEF ServerState
  <2>4. /\ Store(b, at, s) \in ServerBuffers
        /\ at = 0 => \A i \in 1 .. BUFSIZE : i <= Len(s) => Store(b, at, s)[i] = s[i]
        BY <2>3, ServerStores
  <2>5. PICK u : u = Store(b, at, s)
        OBVIOUS
  <2>6. x = [ctx EXCEPT !.rx_bytes = ctx.rx_bytes + n, !.buffer = u]
        BY <1>6, <1>9, <2>1, <2>2, <2>5
  <2>7. u \in ServerBuffers /\ ctx.rx_bytes + n \in Nat
        BY <1>4, <2>4, <2>5 DEF ServerState
  <2>8. /\ x \in ServerState /\ x.conn = ctx.conn /\ x.path = ctx.path /\ x.sm = ctx.sm
        /\ x.status = ctx.status /\ x.header_pt = ctx.header_pt
        /\ x.rx_bytes = ctx.rx_bytes + n /\ x.buffer = u
        BY <1>4, <2>6, <2>7 DEF ServerState
  <2>9. at = 0 => \A i \in 1 .. BUFSIZE : i <= n => u[i] = t[i]
    <3>1. \A i \in 1 .. BUFSIZE : i <= n => i \in 1 .. n
          BY <1>4 DEF BUFSIZE
    <3>.  QED BY <1>8, <1>9, <2>3, <2>4, <2>5, <3>1
  <2>.  QED BY <1>1, <2>2, <2>8, <2>9
<1>11. ctx' \in ServerState /\ ctx'.conn = c /\ ctx'.path \in {ctx.path, asked[c], Mangled}
       BY <1>4, <1>6, <1>10, ServerParses
<1>12. /\ toServer'[c] = SubSeq(t, n + 1, Len(t)) /\ toServer' \in [Clients -> Seq(Cell)]
       /\ Len(toServer'[c]) <= BUFSIZE
       /\ inPieces' \in [Clients -> BOOLEAN] /\ (inPieces[c] => inPieces'[c])
       /\ ~inPieces'[c] => ~inPieces[c] /\ n = Len(t)
       /\ \A d \in Clients : d # c => toServer'[d] = toServer[d] /\ inPieces'[d] = inPieces[d]
  <2>1. /\ toServer' = [toServer EXCEPT ![c] = SubSeq(t, n + 1, Len(t))]
        /\ inPieces' = [inPieces EXCEPT ![c] = inPieces[c] \/ n < Len(t)]
        BY <1>3, <1>5
  <2>2. toServer'[c] = SubSeq(t, n + 1, Len(t)) /\ toServer' \in [Clients -> Seq(Cell)]
        BY <1>2, <1>4, <1>8, <2>1
  <2>3. Len(toServer'[c]) <= BUFSIZE
    <3>1. Len(t) - n <= Len(t) /\ Len(t) - n \in Int /\ BUFSIZE \in Nat
          BY <1>4 DEF BUFSIZE
    <3>.  QED BY <1>4, <1>8, <2>2, <3>1
  <2>4. inPieces'[c] = (inPieces[c] \/ n < Len(t)) /\ inPieces' \in [Clients -> BOOLEAN]
        BY <1>2, <1>4, <2>1
  <2>5. n < Len(t) \/ n = Len(t)
        BY <1>4
  <2>6. \A d \in Clients : d # c => toServer'[d] = toServer[d] /\ inPieces'[d] = inPieces[d]
        BY <1>2, <1>4, <2>1
  <2>.  QED BY <2>2, <2>3, <2>4, <2>5, <2>6
<1>13. spc' \in {"request", "not_found"} /\ (spc' = "request" <=> ctx'.status = "GF_OK")
       BY <1>5
<1>14. ASSUME ~inPieces'[c]
       PROVE  ctx'.path = asked[c] /\ ctx'.status = "GF_OK" /\ toServer'[c] = <<>>
  <2>1. n = Len(t) /\ ~inPieces[c] /\ t # <<>> /\ toServer'[c] = <<>>
    <3>1. Len(<<>>) = 0
          OBVIOUS
    <3>.  QED BY <1>4, <1>8, <1>12, <1>14, <3>1
  <2>2. ctx = NewContext(c)
        BY <1>2, <1>3, <2>1
  <2>3. t = Request(asked[c])
        BY <1>2, <1>3, <2>1 DEF GetFileInv, StreamsInv
  <2>4. PICK p \in Path : p = asked[c]
        BY <1>4
  <2>5. n = 8
        BY <2>1, <2>3, <2>4, RequestIs
  <2>6. /\ x.sm = "SCHEME" /\ x.status = "GF_OK" /\ x.path = None /\ x.rx_bytes = 8
        /\ x.header_pt = 0 /\ ctx.header_pt = 0
    <3>1. /\ ctx.sm = "SCHEME" /\ ctx.status = "GF_OK" /\ ctx.path = None /\ ctx.rx_bytes = 0
          /\ ctx.header_pt = 0
          BY <1>2, <2>2, NewContextIs
    <3>.  QED BY <1>10, <2>5, <3>1
  <2>7. \A i \in 1 .. 6 : x.buffer[i] = Request(p)[i]
    <3>1. \A i \in 1 .. 6 : i \in 1 .. BUFSIZE /\ i <= n
          BY <2>5 DEF BUFSIZE
    <3>.  QED BY <1>10, <2>3, <2>4, <2>6, <3>1
  <2>8. /\ ServerPath(ServerMethod(ServerScheme(x)), p).path = p
        /\ ServerPath(ServerMethod(ServerScheme(x)), p).status = "GF_OK"
        BY <1>2, <1>10, <2>6, <2>7, WholeRequest
  <2>.  QED BY <1>6, <2>1, <2>4, <2>8
<1>15. pc[c] \notin {"create", "send"}
  <2>1. t # <<>>
    <3>1. Len(<<>>) = 0
          OBVIOUS
    <3>.  QED BY <1>4, <1>5, <3>1
  <2>.  QED BY <1>2, <1>3, <2>1 DEF GetFileInv, ClientInv
<1>16. Shapes'
  <2>1. cuts' \in 0 .. MaxCuts
    <3>1. cuts' \in Nat /\ cuts' <= MaxCuts
          BY <1>4, <1>5 DEF Read
    <3>.  QED BY <1>4, <3>1
  <2>2. \A d \in Clients : Len(toServer'[d]) <= BUFSIZE /\ Len(toClient'[d]) <= SocketRoom
        BY <1>7, <1>12 DEF GetFileInv, Shapes
  <2>.  QED BY <1>7, <1>11, <1>12, <1>13, <2>1, <2>2 DEF GetFileInv, Shapes, clientVars
<1>17. RequestInv'
  <2>1. asked' = asked /\ pc' = pc /\ ~Waits(c)'
        BY <1>2, <1>7 DEF clientVars, Waits
  <2>2. asked[c] # Mangled /\ ctx'.path \in {None, asked[c], Mangled}
        BY <1>2, <1>4, <1>11, Constants
  <2>3. ~inPieces'[c] => spc' = "request" /\ ctx'.path # Mangled
        BY <1>13, <1>14, <2>2
  <2>.  QED BY <1>2, <1>11, <1>13, <1>14, <1>15, <2>1, <2>2, <2>3 DEF RequestInv
<1>18. StreamsInv'
  <2>1. ASSUME NEW d \in Clients, ~inPieces'[d]
        PROVE  toServer'[d] \in {<<>>, Request(asked[d])}
    <3>1. CASE d = c
          BY <1>14, <2>1, <3>1
    <3>2. CASE d # c
          BY <1>12, <2>1, <3>2 DEF GetFileInv, StreamsInv
    <3>.  QED BY <3>1, <3>2
  <2>2. asked' = asked /\ listening' /\ ~exited'
        BY <1>2, <1>7 DEF clientVars, listening
  <2>.  QED BY <1>7, <2>1, <2>2 DEF GetFileInv, StreamsInv
<1>19. ASSUME NEW d \in Clients
       PROVE  ClientInv(d)'
  <2>1. Before(d)' => Before(d)
        BY <1>1, <1>2, <1>7, <1>11 DEF Before, Waits
  <2>2. ServerSeen(d)
        BY <1>1, <1>7, <1>11, <1>13, <2>1 DEF ServerSeen, Sending
  <2>3. OwnSame(d)
        BY <1>7, <1>12, <1>15 DEF OwnSame, clientVars
  <2>.  QED BY <2>2, <2>3, ClientFrame DEF GetFileInv
<1>. QED BY <1>16, <1>17, <1>18, <1>19 DEF GetFileInv

LEMMA InvReadRequestEnds ==
    ASSUME GetFileInv, ~exited, ReadRequestEnds
    PROVE  GetFileInv'
<1>1. PICK c : c = ctx.conn
      OBVIOUS
<1>2. /\ spc = "request" /\ c \in Clients /\ ~Waits(c) /\ listening
      /\ toServer[c] = <<>> /\ ctx.path \in {None, asked[c], Mangled}
      /\ ctx.path = Mangled => inPieces[c]
      /\ ~inPieces[c] => ctx = NewContext(c) \/ (ctx.path = asked[c] /\ pc[c] # "send")
  <2>1. spc = "request" /\ toServer[c] = <<>>
        BY <1>1 DEF ReadRequestEnds, NothingMore
  <2>2. c \in Clients /\ ~Waits(c)
        BY <1>1, <2>1 DEF GetFileInv, RequestInv
  <2>3. c # None
        BY <2>2, Constants
  <2>4. /\ ctx.path \in {None, asked[c], Mangled} /\ (ctx.path = Mangled => inPieces[c])
        /\ ~inPieces[c] => ctx = NewContext(c) \/ (ctx.path = asked[c] /\ pc[c] # "send")
        BY <1>1, <2>1, <2>3 DEF GetFileInv, RequestInv
  <2>5. listening
        BY <2>1 DEF GetFileInv, StreamsInv
  <2>.  QED BY <2>1, <2>2, <2>4, <2>5
<1>3. /\ UNCHANGED <<clientVars, connVars, backlog, aborted, sent>>
      /\ ctx' = [NewContext(c) EXCEPT !.path = ctx.path]
      /\ \/ /\ exited' = TRUE /\ spc' = spc
         \/ /\ spc' = (IF ctx.path \in Files THEN "header" ELSE "not_found")
            /\ ctx.path # None \/ Files = {}
            /\ exited' = exited
      BY <1>1 DEF ReadRequestEnds, ContentGet
<1>4. /\ ctx' \in ServerState /\ ctx'.conn = c /\ ctx'.path = ctx.path
      /\ ctx.path = None => ctx' = NewContext(c)
  <2>1. PICK x : x = NewContext(c)
        OBVIOUS
  <2>2. x \in ServerState /\ x.conn = c /\ x.path = None
        BY <1>2, <2>1, NewContextIs
  <2>3. PICK q : q = ctx.path
        OBVIOUS
  <2>4. ctx' = [x EXCEPT !.path = q] /\ q \in Path \cup {None, Mangled}
        BY <1>3, <2>1, <2>3 DEF GetFileInv, Shapes, ServerState
  <2>5. ctx' \in ServerState /\ ctx'.conn = c /\ ctx'.path = q
        BY <2>2, <2>4 DEF ServerState
  <2>6. q = None => ctx' = x
        BY <2>2, <2>4 DEF ServerState
  <2>.  QED BY <2>1, <2>3, <2>5, <2>6
<1>5. Shapes'
  <2>1. spc' \in {"request", "header", "not_found"} /\ exited' \in BOOLEAN
        BY <1>2, <1>3 DEF GetFileInv, Shapes
  <2>.  QED BY <1>3, <1>4, <2>1 DEF GetFileInv, Shapes, clientVars, connVars
<1>6. RequestInv'
  <2>1. /\ asked' = asked /\ pc' = pc /\ ~Waits(c)' /\ toServer' = toServer
        /\ inPieces' = inPieces /\ NewContext(c)' = NewContext(c)
        BY <1>2, <1>3 DEF clientVars, connVars, Waits, NewContext
  <2>2. /\ None \notin Files /\ Mangled \notin Files /\ None # Mangled
        BY Constants
  <2>3. CASE spc' = spc
    <3>1. ctx = NewContext(c) => ctx.path = None
          BY <1>2, NewContextIs
    <3>.  QED BY <1>2, <1>4, <2>1, <2>2, <2>3, <3>1 DEF RequestInv
  <2>4. CASE /\ spc' = (IF ctx.path \in Files THEN "header" ELSE "not_found")
             /\ ctx.path # None \/ Files = {}
    <3>1. CASE ctx.path \in Files
      <4>1. spc' = "header" /\ ctx.path = asked[c] /\ ctx.path # Mangled
            BY <1>2, <2>2, <2>4, <3>1
      <4>.  QED BY <1>2, <1>4, <2>1, <3>1, <4>1 DEF RequestInv
    <3>2. CASE ctx.path \notin Files
      <4>1. spc' = "not_found"
            BY <2>4, <3>2
      <4>2. inPieces[c] \/ asked[c] \notin Files
            BY <1>2, <2>4, <3>2
      <4>.  QED BY <1>2, <1>4, <2>1, <4>1, <4>2 DEF RequestInv
    <3>.  QED BY <3>1, <3>2
  <2>.  QED BY <1>3, <2>3, <2>4
<1>7. StreamsInv'
  <2>1. listening' /\ (exited' => spc' = "request")
        BY <1>2, <1>3 DEF listening
  <2>.  QED BY <1>3, <2>1 DEF GetFileInv, StreamsInv, clientVars, connVars, Request
<1>8. ASSUME NEW d \in Clients
      PROVE  ClientInv(d)'
  <2>1. Before(d)' => Before(d)
        BY <1>1, <1>2, <1>3, <1>4 DEF Before, Waits
  <2>2. ~Sending(d)'
        BY <1>2, <1>3 DEF Sending
  <2>3. ServerSeen(d)
        BY <1>1, <1>3, <1>4, <2>1, <2>2 DEF ServerSeen
  <2>.  QED BY <1>3, <2>3, ServerFrame
<1>. QED BY <1>5, <1>6, <1>7, <1>8 DEF GetFileInv

-----------------------------------------------------------------------------
(***************************************************************************)
(* The answer, as the server sends it.                                     *)
(***************************************************************************)
LEMMA WindowGrows ==
    ASSUME NEW t, NEW S, NEW k \in Nat, NEW m \in Nat, k <= m, Window(t, S, k, m),
           NEW u \in Seq(Cell), \A i \in 1 .. Len(u) : u[i] = S[m + i]
    PROVE  Window(t \o u, S, k, m + Len(u))
<1>1. /\ t \in Seq(Cell) /\ Len(t) = m - k /\ Len(u) \in Nat
      /\ \A i \in 1 .. m - k : t[i] = S[k + i]
      BY DEF Window
<1>2. PICK l \in Nat : l = Len(u)
      BY <1>1
<1>3. PICK x : x = t \o u
      OBVIOUS
<1>4. /\ x \in Seq(Cell) /\ Len(x) = m - k + l
      /\ \A i \in 1 .. m - k : x[i] = t[i]
      /\ \A j \in 1 .. l : x[m - k + j] = u[j]
  <2>1. /\ x \in Seq(Cell) /\ Len(x) = Len(t) + Len(u)
        /\ \A i \in 1 .. Len(t) : x[i] = t[i]
        /\ \A j \in 1 .. Len(u) : x[Len(t) + j] = u[j]
        BY <1>1, <1>3, Joined
  <2>.  QED BY <1>1, <1>2, <2>1
<1>5. ASSUME NEW i \in 1 .. m + l - k
      PROVE  x[i] = S[k + i]
  <2>1. CASE i <= m - k
    <3>1. i \in 1 .. m - k
          BY <2>1
    <3>.  QED BY <1>1, <1>4, <3>1
  <2>2. CASE i > m - k
    <3>1. PICK j \in 1 .. l : j = i - (m - k)
          BY <2>2
    <3>2. m - k + j = i /\ m + j = k + i
          BY <3>1
    <3>3. x[m - k + j] = u[j] /\ u[j] = S[m + j]
          BY <1>2, <1>4
    <3>.  QED BY <3>2, <3>3
  <2>.  QED BY <2>1, <2>2
<1>6. m - k + l = m + l - k
      OBVIOUS
<1>. QED BY <1>2, <1>3, <1>4, <1>5, <1>6 DEF Window

\* Before the server answers, the client has got nothing.
LEMMA AnswerStarts ==
    ASSUME GetFileInv, NEW c \in Clients, Before(c), pc[c] \in {"send", "read"}, NEW S
    PROVE  Got(gfr[c]) = 0 /\ Window(toClient[c], S, 0, 0) /\ Parsed(gfr[c], written[c], S, asked[c])
<1>1. gfr[c] = NewRequest /\ written[c] = <<>>
  <2>1. ClientInv(c) /\ gfr \in [Clients -> ParserState]
        BY DEF GetFileInv, Shapes
  <2>2. CASE Unsent(c)
        BY <2>2 DEF Unsent
  <2>3. CASE \E R \in Answers(c) : \E m \in 0 .. Len(R) : Sent(c, R, m)
    <3>1. PICK R \in Answers(c) : \E m \in 0 .. Len(R) : Sent(c, R, m)
          BY <2>3
    <3>2. Sent(c, R, 0)
          BY <3>1 DEF Sent
    <3>.  QED BY <2>1, <3>2, NothingRead
  <2>.  QED BY <2>1, <2>2, <2>3 DEF ClientInv
<1>2. toClient[c] = <<>>
      BY DEF GetFileInv, ClientInv
<1>3. <<>> \in Seq(Cell) /\ Len(<<>>) = 0 /\ 0 - 0 = 0
      OBVIOUS
<1>4. Got(gfr[c]) = 0
      BY <1>1, NewRequestIs DEF Got
<1>5. Window(toClient[c], S, 0, 0)
      BY <1>2, <1>3 DEF Window
<1>. QED BY <1>1, <1>4, <1>5 DEF Parsed

\* The server sends the cells u of the answer S to the client it serves, after
\* the first m.
LEMMA Sends ==
    ASSUME GetFileInv, NEW c \in Clients, ctx.conn = c, spc # "accept", Before(c) \/ Sending(c),
           NEW u \in Seq(Cell),
           toClient' = IF pc[c] = "closed" THEN toClient ELSE [toClient EXCEPT ![c] = @ \o u],
           UNCHANGED <<clientVars, toServer, inPieces, cuts>>, ctx' = ctx,
           spc' \in {"send", "shutdown"}, \A d : Waits(d)' => Waits(d),
           pc[c] # "closed" => Len(toClient[c]) + Len(u) <= SocketRoom,
           NEW S \in Answers(c), NEW m \in Nat, m + Len(u) <= Len(S),
           \A i \in 1 .. Len(u) : u[i] = S[m + i],
           pc[c] \in {"send", "read"} =>
             /\ Got(gfr[c]) <= m /\ Window(toClient[c], S, Got(gfr[c]), m)
             /\ Parsed(gfr[c], written[c], S, asked[c]),
           spc' = "send" => S # NotFoundStream /\ m + Len(u) = 7 + sent',
           aborted' = c => S # NotFoundStream /\ m + Len(u) < Len(S),
           \A d \in Clients : d # c => (aborted' = d => aborted = d)
    PROVE  /\ toClient' \in [Clients -> Seq(Cell)]
           /\ \A d \in Clients : Len(toClient'[d]) <= SocketRoom /\ ClientInv(d)'
<1>1. /\ toClient \in [Clients -> Seq(Cell)] /\ gfr \in [Clients -> ParserState]
      /\ \A d \in Clients : Len(toClient[d]) <= SocketRoom
      /\ asked' = asked /\ local' = local /\ pc' = pc /\ gfr' = gfr /\ written' = written
      /\ toServer' = toServer /\ inPieces' = inPieces /\ Len(u) \in Nat
      BY DEF GetFileInv, Shapes, clientVars
<1>2. /\ toClient' \in [Clients -> Seq(Cell)] /\ Len(toClient'[c]) <= SocketRoom
      /\ \A d \in Clients : d # c => toClient'[d] = toClient[d]
      /\ pc[c] # "closed" => toClient'[c] = toClient[c] \o u
  <2>1. PICK t \in Seq(Cell) : t = toClient[c]
        BY <1>1
  <2>2. t \o u \in Seq(Cell) /\ Len(t \o u) = Len(t) + Len(u)
        BY Joined
  <2>3. CASE pc[c] = "closed"
        BY <1>1, <2>3
  <2>4. CASE pc[c] # "closed"
    <3>1. toClient' = [toClient EXCEPT ![c] = t \o u]
          BY <2>1, <2>4
    <3>.  QED BY <1>1, <2>1, <2>2, <2>4, <3>1
  <2>.  QED BY <2>3, <2>4
<1>3. /\ ~Waits(c) /\ pc[c] # "create" /\ ClientInv(c)
      /\ pc \in [Clients -> {"create", "send", "read", "returned", "closed"}]
      BY DEF GetFileInv, RequestInv, ClientInv, Shapes
<1>4. ~Before(c)'
      BY <1>3 DEF Before
<1>5. Sending(c)' => spc' = "send"
      BY DEF Sending
<1>6. ASSUME pc[c] \in {"send", "read"}
      PROVE  ClientInv(c)'
  <2>1. S \in Answers(c)'
        BY <1>1, AnswersStay
  <2>2. PICK n : n = m + Len(u)
        OBVIOUS
  <2>3. Len(S) \in Nat /\ n \in 0 .. Len(S)
        BY <1>1, <2>2, AnswerIs
  <2>4. Got(gfr[c]) \in Nat /\ Got(gfr[c]) <= n
    <3>1. PICK g \in ParserState : g = gfr[c]
          BY <1>1
    <3>2. Got(g) \in Nat
          BY DEF Got, ParserState
    <3>.  QED BY <1>1, <1>6, <2>2, <3>1, <3>2
  <2>5. Window(toClient'[c], S, Got(gfr[c]), n)
    <3>1. Window(toClient[c] \o u, S, Got(gfr[c]), m + Len(u))
          BY <1>6, <2>4, WindowGrows
    <3>.  QED BY <1>2, <1>6, <2>2, <3>1
  <2>6. PICK t : t = toClient'[c]
        OBVIOUS
  <2>7. Sent(c, S, n)'
    <3>1. Got(gfr[c])' = Got(gfr[c])
          BY <1>1 DEF Got
    <3>2. (Got(gfr[c]) <= n /\ Window(toClient[c], S, Got(gfr[c]), n))'
          BY <2>4, <2>5, <3>1 DEF Window
    <3>3. Parsed(gfr[c], written[c], S, asked[c])'
          BY <1>1, <1>6 DEF Parsed, Cut, InContent, Prefix
    <3>.  QED BY <1>4, <1>5, <2>2, <3>2, <3>3 DEF Sent
  <2>8. \E R \in Answers(c)' : \E i \in 0 .. Len(R) : Sent(c, R, i)'
        BY <2>1, <2>3, <2>7
  <2>.  QED BY <1>1, <1>3, <1>4, <1>6, <2>8 DEF ClientInv
<1>7. ASSUME pc[c] \in {"returned", "closed"}
      PROVE  ClientInv(c)'
  <2>1. ReturnedInv(c) /\ ~Full(c)
        BY <1>3, <1>7 DEF ClientInv, ReturnedInv
  <2>2. ReturnedInv(c)' /\ ~Full(c)'
        BY <1>1, <2>1 DEF ReturnedInv, Full, Prefix
  <2>.  QED BY <1>1, <1>3, <1>4, <1>7, <2>1, <2>2 DEF ClientInv
<1>8. ASSUME NEW d \in Clients, d # c
      PROVE  ClientInv(d)'
  <2>1. OwnSame(d)
        BY <1>1, <1>2, <1>8 DEF OwnSame
  <2>2. ServerSeen(d)
    <3>1. Before(d)' => Before(d)
          BY <1>8 DEF Before
    <3>.  QED BY <1>8, <3>1 DEF ServerSeen, Sending
  <2>.  QED BY <2>1, <2>2, ClientFrame DEF GetFileInv
<1>. QED BY <1>1, <1>2, <1>3, <1>6, <1>7, <1>8

\* The client of a file gets what the server has sent of it.
LEMMA AnswerGoesOn ==
    ASSUME GetFileInv, NEW c \in Clients, Sending(c), pc[c] \in {"send", "read"}
    PROVE  LET S == OkStream(asked[c]) IN
           /\ Got(gfr[c]) <= 7 + sent /\ Window(toClient[c], S, Got(gfr[c]), 7 + sent)
           /\ Parsed(gfr[c], written[c], S, asked[c])
<1>1. ~Unsent(c) /\ ClientInv(c)
      BY DEF GetFileInv, Unsent
<1>2. PICK S \in Answers(c) : \E m \in 0 .. Len(S) : Sent(c, S, m)
      BY <1>1 DEF ClientInv
<1>3. PICK m \in 0 .. Len(S) : Sent(c, S, m)
      BY <1>2
<1>4. S # NotFoundStream /\ m = 7 + sent
      BY <1>3 DEF Sent
<1>5. S = OkStream(asked[c])
      BY <1>4, AnswerIs
<1>. QED BY <1>3, <1>4, <1>5 DEF Sent

\* What the server knows while it answers the client c.
LEMMA AnsweringIs ==
    ASSUME GetFileInv, spc \in {"not_found", "header", "send"}, NEW c, c = ctx.conn
    PROVE  /\ c \in Clients /\ ~Waits(c) /\ listening /\ asked[c] \in Path
           /\ Before(c) \/ Sending(c)
           /\ ctx.path \in {None, asked[c], Mangled}
           /\ toClient \in [Clients -> Seq(Cell)] /\ Len(toClient[c]) \in Nat
           /\ Len(toClient[c]) <= SocketRoom
           /\ spc \in {"not_found", "header"} => Len(toClient[c]) = 0
           /\ spc = "not_found" => inPieces[c] \/ asked[c] \notin Files
           /\ spc \in {"header", "send"} =>
                ctx.path = asked[c] /\ asked[c] \in Files /\ Length[asked[c]] \in Nat
           /\ spc = "send" => sent \in Nat /\ sent < Length[asked[c]]
<1>1. c \in Clients /\ ~Waits(c) /\ c # None
      BY Constants DEF GetFileInv, RequestInv
<1>2. toClient \in [Clients -> Seq(Cell)] /\ Len(toClient[c]) <= SocketRoom /\ asked[c] \in Path
      BY <1>1 DEF GetFileInv, Shapes
<1>3. toClient[c] \in Seq(Cell) /\ Len(toClient[c]) \in Nat
      BY <1>1, <1>2
<1>4. Before(c) \/ Sending(c)
      BY DEF Before, Sending
<1>5. spc \in {"not_found", "header"} => Len(toClient[c]) = 0
  <2>1. spc \in {"not_found", "header"} => toClient[c] = <<>>
        BY <1>1 DEF Before, GetFileInv, ClientInv
  <2>2. Len(<<>>) = 0
        OBVIOUS
  <2>.  QED BY <2>1, <2>2
<1>6. listening
      BY DEF GetFileInv, StreamsInv
<1>7. /\ ctx.path \in {None, asked[c], Mangled}
      /\ spc = "not_found" => inPieces[c] \/ asked[c] \notin Files
      /\ spc \in {"header", "send"} => ctx.path = asked[c] /\ asked[c] \in Files
      /\ spc = "send" => sent < Length[asked[c]]
      BY <1>1 DEF GetFileInv, RequestInv
<1>8. sent \in Nat
      BY DEF GetFileInv, Shapes
<1>. QED BY <1>1, <1>2, <1>3, <1>4, <1>5, <1>6, <1>7, <1>8, Constants

\* A step of the server that only answers.
LEMMA AnsweringFrame ==
    ASSUME GetFileInv, ~exited, NEW c, c = ctx.conn, spc \in {"not_found", "header", "send"},
           UNCHANGED <<clientVars, toServer, inPieces, cuts, ctx, exited>>,
           toClient' \in [Clients -> Seq(Cell)], sent' \in Nat,
           \A d \in Clients : Len(toClient'[d]) <= SocketRoom /\ ClientInv(d)',
           \/ UNCHANGED <<backlog, aborted>>
           \/ backlog' = <<>> /\ aborted' = c /\ spc' = "shutdown",
           \/ spc' = "shutdown"
           \/ spc' = "send" /\ spc # "not_found" /\ sent' < Length[asked[c]]
    PROVE  GetFileInv'
<1>1. /\ c \in Clients /\ ~Waits(c) /\ listening /\ ctx.path \in {None, asked[c], Mangled}
      /\ spc \in {"header", "send"} => ctx.path = asked[c] /\ asked[c] \in Files
      BY AnsweringIs
<1>2. Shapes'
  <2>1. aborted' \in Clients \cup {None} /\ backlog' \in Seq(Clients)
    <3>1. <<>> \in Seq(Clients)
          OBVIOUS
    <3>.  QED BY <1>1, <3>1 DEF GetFileInv, Shapes
  <2>2. \A d \in Clients : Len(toServer'[d]) <= BUFSIZE
        BY DEF GetFileInv, Shapes
  <2>.  QED BY <2>1, <2>2 DEF GetFileInv, Shapes, clientVars
<1>3. ~Waits(c)'
  <2>1. DOMAIN <<>> = {}
        OBVIOUS
  <2>.  QED BY <1>1, <2>1 DEF Waits
<1>4. RequestInv'
      BY <1>1, <1>3 DEF RequestInv, clientVars
<1>5. StreamsInv'
  <2>1. \A d \in Clients : ~inPieces'[d] => toServer'[d] \in {<<>>, Request(asked'[d])}
        BY DEF GetFileInv, StreamsInv, clientVars
  <2>2. \A i, j \in DOMAIN backlog' : backlog'[i] = backlog'[j] => i = j
    <3>1. DOMAIN <<>> = {}
          OBVIOUS
    <3>.  QED BY <3>1 DEF GetFileInv, StreamsInv
  <2>3. ~listening' => backlog' = <<>> /\ spc' = "shutdown"
        BY <1>1 DEF listening
  <2>.  QED BY <2>1, <2>2, <2>3 DEF StreamsInv
<1>. QED BY <1>2, <1>4, <1>5 DEF GetFileInv

LEMMA InvSendNotFound ==
    ASSUME GetFileInv, ~exited, SendNotFound
    PROVE  GetFileInv'
<1>1. PICK c : c = ctx.conn
      OBVIOUS
<1>2. spc = "not_found"
      BY DEF SendNotFound
<1>3. /\ c \in Clients /\ Len(toClient[c]) = 0
      /\ Before(c) \/ Sending(c)
      /\ inPieces[c] \/ asked[c] \notin Files
      BY <1>1, <1>2, AnsweringIs
<1>4. PICK u : u = NotFoundStream
      OBVIOUS
<1>5. /\ toClient' = IF pc[c] = "closed" THEN toClient ELSE [toClient EXCEPT ![c] = @ \o u]
      /\ UNCHANGED <<clientVars, toServer, inPieces, cuts, backlog, aborted, ctx, sent, exited>>
      /\ spc' = "shutdown"
      BY <1>1, <1>4 DEF SendNotFound, Deliver, NotFoundStream
<1>6. u \in Seq(Cell) /\ Len(u) = 7
      BY <1>4, NotFoundIs
<1>7. u \in Answers(c)
      BY <1>3, <1>4 DEF Answers
<1>8. pc[c] \in {"send", "read"} =>
        /\ Got(gfr[c]) <= 0 /\ Window(toClient[c], u, Got(gfr[c]), 0)
        /\ Parsed(gfr[c], written[c], u, asked[c])
  <2>1. Before(c)
        BY <1>2, <1>3 DEF Sending
  <2>.  QED BY <1>3, <2>1, AnswerStarts
<1>9. aborted' # c
      BY <1>1, <1>2, <1>3, <1>5, AnsweringIs, Constants DEF listening
<1>10. /\ toClient' \in [Clients -> Seq(Cell)]
       /\ \A d \in Clients : Len(toClient'[d]) <= SocketRoom /\ ClientInv(d)'
  <2>1. \A i \in 1 .. Len(u) : u[i] = u[0 + i]
        BY <1>6
  <2>2. 0 \in Nat /\ 0 + Len(u) <= Len(u) /\ Len(toClient[c]) + Len(u) <= SocketRoom
        BY <1>3, <1>6, Constants
  <2>3. \A d : Waits(d)' => Waits(d)
        BY <1>5 DEF Waits
  <2>4. ctx.conn = c /\ spc # "accept" /\ ctx' = ctx
        BY <1>1, <1>2, <1>5
  <2>.  QED BY <1>3, <1>5, <1>6, <1>7, <1>8, <1>9, <2>1, <2>2, <2>3, <2>4, Sends
<1>11. sent' \in Nat
       BY <1>5 DEF GetFileInv, Shapes
<1>. QED BY <1>1, <1>2, <1>5, <1>10, <1>11, AnsweringFrame

LEMMA InvSendHeader ==
    ASSUME GetFileInv, ~exited, SendHeader
    PROVE  GetFileInv'
<1>1. PICK c : c = ctx.conn
      OBVIOUS
<1>2. spc = "header"
      BY DEF SendHeader
<1>3. PICK p : p = asked[c]
      OBVIOUS
<1>4. /\ c \in Clients /\ Len(toClient[c]) = 0 /\ ctx.path = p /\ p \in Files
      /\ p \in Path /\ Length[p] \in Nat
      /\ Before(c) \/ Sending(c)
      BY <1>1, <1>2, <1>3, AnsweringIs
<1>5. PICK u : u = Header("GF_OK", Length[p])
      OBVIOUS
<1>6. PICK S : S = OkStream(p)
      OBVIOUS
<1>7. /\ toClient' = IF pc[c] = "closed" THEN toClient ELSE [toClient EXCEPT ![c] = @ \o u]
      /\ UNCHANGED <<clientVars, toServer, inPieces, cuts, backlog, aborted, ctx, exited>>
      /\ sent' = 0 /\ spc' = (IF Length[p] = 0 THEN "shutdown" ELSE "send")
      BY <1>1, <1>4, <1>5 DEF SendHeader, Deliver
<1>8. /\ u \in Seq(Cell) /\ Len(u) = 7 /\ S \in Seq(Cell) /\ Len(S) = 7 + Length[p]
      /\ S[3] = <<"GF_OK", 1>> /\ \A i \in 1 .. 7 : u[i] = S[i]
  <2>1. u \in Seq(Cell) /\ Len(u) = 7
        BY <1>4, <1>5, HeaderIs DEF Names
  <2>2. S \in Seq(Cell) /\ Len(S) = 7 + Length[p] /\ S[3] = <<"GF_OK", 1>>
        BY <1>4, <1>6, OkIs
  <2>3. /\ u[1] = S[1] /\ u[2] = S[2] /\ u[3] = S[3] /\ u[4] = S[4] /\ u[5] = S[5]
        /\ u[6] = S[6] /\ u[7] = S[7]
    <3>1. /\ S[1] = <<"GETFILE", 1>> /\ S[2] = <<"GETFILE", 2>> /\ S[3] = <<"GF_OK", 1>>
          /\ S[4] = <<"GF_OK", 2>> /\ S[5] = <<"length", Length[p]>>
          /\ S[6] = <<"end", 1>> /\ S[7] = End2
          BY <1>4, <1>6, OkIs
    <3>2. /\ u[1] = <<"GETFILE", 1>> /\ u[2] = <<"GETFILE", 2>> /\ u[3] = <<"GF_OK", 1>>
          /\ u[4] = <<"GF_OK", 2>> /\ u[5] = <<"length", Length[p]>>
          /\ u[6] = <<"end", 1>> /\ u[7] = End2
      <4>1. "GF_OK" \in Names
            BY DEF Names
      <4>.  QED BY <1>4, <1>5, <4>1, HeaderIs
    <3>.  QED BY <3>1, <3>2
  <2>4. \A i \in 1 .. 7 : i = 1 \/ i = 2 \/ i = 3 \/ i = 4 \/ i = 5 \/ i = 6 \/ i = 7
        OBVIOUS
  <2>.  QED BY <2>1, <2>2, <2>3, <2>4
<1>9. S \in Answers(c) /\ S # NotFoundStream
  <2>1. S # NotFoundStream
        BY <1>8, NotFoundIs DEF NotFound1
  <2>.  QED BY <1>3, <1>4, <1>6, <2>1 DEF Answers
<1>10. pc[c] \in {"send", "read"} =>
        /\ Got(gfr[c]) <= 0 /\ Window(toClient[c], S, Got(gfr[c]), 0)
        /\ Parsed(gfr[c], written[c], S, asked[c])
  <2>1. Before(c)
        BY <1>2, <1>4 DEF Sending
  <2>.  QED BY <1>4, <2>1, AnswerStarts
<1>11. aborted' # c
      BY <1>1, <1>2, <1>4, <1>7, AnsweringIs, Constants DEF listening
<1>12. /\ toClient' \in [Clients -> Seq(Cell)]
       /\ \A d \in Clients : Len(toClient'[d]) <= SocketRoom /\ ClientInv(d)'
  <2>1. \A i \in 1 .. Len(u) : u[i] = S[0 + i]
        BY <1>8
  <2>2. /\ 0 \in Nat /\ 0 + Len(u) <= Len(S) /\ Len(toClient[c]) + Len(u) <= SocketRoom
        /\ 0 + Len(u) = 7 + sent'
        BY <1>4, <1>7, <1>8, Constants
  <2>3. \A d : Waits(d)' => Waits(d)
        BY <1>7 DEF Waits
  <2>4. ctx.conn = c /\ spc # "accept" /\ ctx' = ctx /\ spc' \in {"send", "shutdown"}
        BY <1>1, <1>2, <1>7
  <2>.  QED BY <1>4, <1>7, <1>8, <1>9, <1>10, <1>11, <2>1, <2>2, <2>3, <2>4, Sends
<1>13. sent' \in Nat /\ (spc' = "shutdown" \/ (spc' = "send" /\ sent' < Length[asked[c]]))
       BY <1>3, <1>4, <1>7
<1>. QED BY <1>1, <1>2, <1>7, <1>12, <1>13, AnsweringFrame

\* The next cells of the file.
LEMMA ChunkIs ==
    ASSUME GetFileInv, spc = "send", NEW p, p = ctx.path
    PROVE  /\ Chunk \in Seq(Cell) /\ Len(Chunk) \in Nat /\ Len(Chunk) > 0
           /\ p \in Files /\ Length[p] \in Nat /\ sent \in Nat /\ sent + Len(Chunk) <= Length[p]
           /\ OkStream(p) # NotFoundStream /\ Len(OkStream(p)) = 7 + Length[p]
           /\ \A i \in 1 .. Len(Chunk) : Chunk[i] = OkStream(p)[7 + sent + i]
<1>1. /\ p \in Files /\ p \in Path /\ Length[p] \in Nat /\ sent \in Nat /\ sent < Length[p]
      BY AnsweringIs, Constants
<1>2. PICK e : e = IF sent + BUFFER_SIZE < Length[p] THEN sent + BUFFER_SIZE ELSE Length[p]
      OBVIOUS
<1>3. e \in Nat /\ sent < e /\ e <= Length[p]
      BY <1>1, <1>2, Constants
<1>4. Chunk = Piece(p, sent, e)
      BY <1>2 DEF Chunk
<1>5. PICK u : u = Chunk
      OBVIOUS
<1>6. /\ u \in Seq(Cell) /\ Len(u) = e - sent
      /\ \A i \in 1 .. e - sent : u[i] = <<p, sent + i>>
  <2>1. PICK k \in Nat : k = sent
        BY <1>1
  <2>2. k <= e
        BY <1>3, <2>1
  <2>3. /\ Piece(p, k, e) \in Seq(Cell) /\ Len(Piece(p, k, e)) = e - k
        /\ \A i \in 1 .. e - k : Piece(p, k, e)[i] = <<p, k + i>>
        BY <1>1, <1>3, <2>2, PieceIs
  <2>.  QED BY <1>4, <1>5, <2>1, <2>3
<1>7. PICK S : S = OkStream(p)
      OBVIOUS
<1>8. /\ Len(S) = 7 + Length[p] /\ S[3] = <<"GF_OK", 1>>
      /\ \A i \in 1 .. Length[p] : S[7 + i] = <<p, i>>
      BY <1>1, <1>7, OkIs
<1>9. S # NotFoundStream
      BY <1>8, NotFoundIs DEF NotFound1
<1>10. ASSUME NEW i \in 1 .. e - sent
       PROVE  u[i] = S[7 + sent + i]
  <2>1. sent + i \in 1 .. Length[p] /\ 7 + (sent + i) = 7 + sent + i
        BY <1>1, <1>3
  <2>2. S[7 + (sent + i)] = <<p, sent + i>>
        BY <1>8, <2>1
  <2>.  QED BY <1>6, <2>1, <2>2
<1>11. Len(u) \in Nat /\ Len(u) > 0 /\ sent + Len(u) <= Length[p]
       BY <1>1, <1>3, <1>6
<1>. QED BY <1>1, <1>5, <1>6, <1>7, <1>8, <1>9, <1>10, <1>11

LEMMA InvSendChunk ==
    ASSUME GetFileInv, ~exited, SendChunk
    PROVE  GetFileInv'
<1>1. PICK c : c = ctx.conn
      OBVIOUS
<1>2. spc = "send"
      BY DEF SendChunk
<1>3. PICK p : p = asked[c]
      OBVIOUS
<1>4. PICK u : u = Chunk
      OBVIOUS
<1>5. PICK S : S = OkStream(p)
      OBVIOUS
<1>6. /\ c \in Clients /\ ctx.path = p /\ p \in Files
      /\ Before(c) \/ Sending(c)
      BY <1>1, <1>2, <1>3, AnsweringIs
<1>7. /\ u \in Seq(Cell) /\ Len(u) \in Nat /\ Len(u) > 0 /\ Length[p] \in Nat /\ sent \in Nat
      /\ sent + Len(u) <= Length[p] /\ S # NotFoundStream /\ Len(S) = 7 + Length[p]
      /\ \A i \in 1 .. Len(u) : u[i] = S[7 + sent + i]
      BY <1>2, <1>4, <1>5, <1>6, ChunkIs
<1>8. /\ pc[c] # "closed" => Len(toClient[c]) + Len(u) <= SocketRoom
      /\ toClient' = IF pc[c] = "closed" THEN toClient ELSE [toClient EXCEPT ![c] = @ \o u]
      /\ UNCHANGED <<clientVars, toServer, inPieces, cuts, backlog, aborted, ctx, exited>>
      /\ sent' = sent + Len(u) /\ spc' = (IF sent' < Length[p] THEN "send" ELSE "shutdown")
      BY <1>1, <1>4, <1>6 DEF SendChunk, Deliver
<1>9. S \in Answers(c)
      BY <1>3, <1>5, <1>6 DEF Answers
<1>10. pc[c] \in {"send", "read"} =>
        /\ Got(gfr[c]) <= 7 + sent /\ Window(toClient[c], S, Got(gfr[c]), 7 + sent)
        /\ Parsed(gfr[c], written[c], S, asked[c])
  <2>1. Sending(c)
        BY <1>1, <1>2 DEF Sending
  <2>.  QED BY <1>3, <1>5, <1>6, <2>1, AnswerGoesOn
<1>11. aborted' # c
       BY <1>1, <1>2, <1>6, <1>8, AnsweringIs, Constants DEF listening
<1>12. /\ toClient' \in [Clients -> Seq(Cell)]
       /\ \A d \in Clients : Len(toClient'[d]) <= SocketRoom /\ ClientInv(d)'
  <2>1. PICK m \in Nat : m = 7 + sent
        BY <1>7
  <2>2. \A i \in 1 .. Len(u) : u[i] = S[m + i]
        BY <1>7, <2>1
  <2>3. m + Len(u) <= Len(S) /\ m + Len(u) = 7 + sent'
        BY <1>7, <1>8, <2>1
  <2>4. \A d : Waits(d)' => Waits(d)
        BY <1>8 DEF Waits
  <2>5. ctx.conn = c /\ spc # "accept" /\ ctx' = ctx /\ spc' \in {"send", "shutdown"}
        BY <1>1, <1>2, <1>8
  <2>6. pc[c] \in {"send", "read"} =>
          /\ Got(gfr[c]) <= m /\ Window(toClient[c], S, Got(gfr[c]), m)
          /\ Parsed(gfr[c], written[c], S, asked[c])
        BY <1>10, <2>1
  <2>.  QED BY <1>6, <1>7, <1>8, <1>9, <1>11, <2>2, <2>3, <2>4, <2>5, <2>6, Sends
<1>13. sent' \in Nat /\ (spc' = "shutdown" \/ (spc' = "send" /\ sent' < Length[asked[c]]))
       BY <1>3, <1>7, <1>8
<1>. QED BY <1>1, <1>2, <1>8, <1>12, <1>13, AnsweringFrame

LEMMA InvSendChunkFails ==
    ASSUME GetFileInv, ~exited, SendChunkFails
    PROVE  GetFileInv'
<1>1. PICK c : c = ctx.conn
      OBVIOUS
<1>2. spc = "send"
      BY DEF SendChunkFails
<1>3. PICK p : p = asked[c]
      OBVIOUS
<1>4. PICK v : v = Chunk
      OBVIOUS
<1>5. PICK S : S = OkStream(p)
      OBVIOUS
<1>6. /\ c \in Clients /\ ctx.path = p /\ p \in Files
      /\ Len(toClient[c]) \in Nat /\ Len(toClient[c]) <= SocketRoom
      /\ Before(c) \/ Sending(c)
      BY <1>1, <1>2, <1>3, AnsweringIs
<1>7. /\ v \in Seq(Cell) /\ Len(v) \in Nat /\ Len(v) > 0 /\ Length[p] \in Nat /\ sent \in Nat
      /\ sent + Len(v) <= Length[p] /\ S # NotFoundStream /\ Len(S) = 7 + Length[p]
      /\ \A i \in 1 .. Len(v) : v[i] = S[7 + sent + i]
      BY <1>2, <1>4, <1>5, <1>6, ChunkIs
<1>8. PICK room \in Nat : room = SocketRoom - Len(toClient[c])
  <2>1. SocketRoom \in Nat
        BY Constants
  <2>2. PICK l \in Nat : l = Len(toClient[c]) /\ l <= SocketRoom
        BY <1>6
  <2>3. \A r \in Nat : l <= r => r - l \in Nat
        OBVIOUS
  <2>4. SocketRoom - l \in Nat
        BY <2>1, <2>2, <2>3
  <2>.  QED BY <2>2, <2>4
<1>9. /\ pc[c] # "closed" => room < Len(v)
      /\ toClient' = IF pc[c] = "closed" THEN toClient
                     ELSE [toClient EXCEPT ![c] = @ \o SubSeq(v, 1, room)]
      /\ UNCHANGED <<clientVars, toServer, inPieces, cuts, ctx, sent, exited>>
      /\ aborted' = c /\ backlog' = <<>> /\ spc' = "shutdown"
      BY <1>1, <1>4, <1>8 DEF SendChunkFails, Deliver, Abort
\* What is sent to a client that is gone does not matter: take nothing.
<1>10. PICK u : u = IF pc[c] = "closed" \/ room = 0 THEN <<>> ELSE SubSeq(v, 1, room)
       OBVIOUS
<1>11. /\ u \in Seq(Cell) /\ Len(u) \in Nat /\ Len(u) < Len(v)
       /\ \A i \in 1 .. Len(u) : u[i] = v[i]
       /\ toClient' = IF pc[c] = "closed" THEN toClient ELSE [toClient EXCEPT ![c] = @ \o u]
       /\ pc[c] # "closed" => Len(toClient[c]) + Len(u) <= SocketRoom
  <2>1. <<>> \in Seq(Cell) /\ Len(<<>>) = 0
        OBVIOUS
  <2>2. CASE pc[c] = "closed"
        BY <1>7, <1>9, <1>10, <2>1, <2>2
  <2>3. CASE pc[c] # "closed" /\ room = 0
    <3>1. u = <<>> /\ SubSeq(v, 1, room) = <<>>
          BY <1>7, <1>10, <2>3, SubSeqProperties
    <3>2. u \in Seq(Cell) /\ Len(u) = 0 /\ \A i \in 1 .. Len(u) : u[i] = v[i]
          BY <2>1, <3>1
    <3>3. Len(u) < Len(v) /\ Len(toClient[c]) + Len(u) <= SocketRoom
          BY <1>6, <1>7, <3>2
    <3>4. toClient' = [toClient EXCEPT ![c] = @ \o u]
          BY <1>9, <2>3, <3>1
    <3>.  QED BY <2>3, <3>2, <3>3, <3>4
  <2>4. CASE pc[c] # "closed" /\ room # 0
    <3>1. u = SubSeq(v, 1, room) /\ room \in 1 .. Len(v) /\ room < Len(v)
          BY <1>7, <1>9, <1>10, <2>4
    <3>2. u \in Seq(Cell) /\ Len(u) = room /\ \A i \in 1 .. room : u[i] = v[i]
          BY <1>7, <3>1, FrontAndRest
    <3>3. Len(toClient[c]) + room <= SocketRoom
          BY <1>6, <1>8, Constants
    <3>.  QED BY <1>9, <2>4, <3>1, <3>2, <3>3
  <2>.  QED BY <2>2, <2>3, <2>4
<1>12. S \in Answers(c)
       BY <1>3, <1>5, <1>6 DEF Answers
<1>13. pc[c] \in {"send", "read"} =>
        /\ Got(gfr[c]) <= 7 + sent /\ Window(toClient[c], S, Got(gfr[c]), 7 + sent)
        /\ Parsed(gfr[c], written[c], S, asked[c])
  <2>1. Sending(c)
        BY <1>1, <1>2 DEF Sending
  <2>.  QED BY <1>3, <1>5, <1>6, <2>1, AnswerGoesOn
<1>14. /\ toClient' \in [Clients -> Seq(Cell)]
       /\ \A d \in Clients : Len(toClient'[d]) <= SocketRoom /\ ClientInv(d)'
  <2>1. PICK m \in Nat : m = 7 + sent
        BY <1>7
  <2>2. \A i \in 1 .. Len(u) : u[i] = S[m + i]
    <3>1. \A i \in 1 .. Len(u) : i \in 1 .. Len(v)
          BY <1>7, <1>11
    <3>.  QED BY <1>7, <1>11, <2>1, <3>1
  <2>3. m + Len(u) < Len(S) /\ m + Len(u) <= Len(S)
        BY <1>7, <1>11, <2>1
  <2>4. \A d : Waits(d)' => Waits(d)
    <3>1. DOMAIN <<>> = {}
          OBVIOUS
    <3>.  QED BY <1>9, <3>1 DEF Waits
  <2>5. ctx.conn = c /\ spc # "accept" /\ ctx' = ctx /\ spc' \in {"send", "shutdown"}
        BY <1>1, <1>2, <1>9
  <2>6. pc[c] \in {"send", "read"} =>
          /\ Got(gfr[c]) <= m /\ Window(toClient[c], S, Got(gfr[c]), m)
          /\ Parsed(gfr[c], written[c], S, asked[c])
        BY <1>13, <2>1
  <2>.  QED BY <1>6, <1>7, <1>9, <1>11, <1>12, <2>2, <2>3, <2>4, <2>5, <2>6, Sends
<1>15. sent' \in Nat
       BY <1>7, <1>9
<1>. QED BY <1>1, <1>2, <1>9, <1>14, <1>15, AnsweringFrame

-----------------------------------------------------------------------------
(***************************************************************************)
(* The invariant holds.                                                    *)
(***************************************************************************)
LEMMA GetFileStarts ==
    ASSUME Init
    PROVE  GetFileInv
<1>1. <<>> \in Seq(Cell) /\ Len(<<>>) = 0 /\ <<>> \in Seq(Clients) /\ DOMAIN <<>> = {}
      OBVIOUS
<1>2. NewRequest \in ParserState /\ NewRequest.ret = None
      BY NewRequestIs
<1>3. ctx \in ServerState /\ ctx.conn = None
      BY NewContextIs DEF Init
<1>4. listening /\ \A c : ~Waits(c)
      BY <1>1 DEF Init, listening, Waits
<1>5. Shapes
  <2>1. /\ gfr \in [Clients -> ParserState] /\ written \in [Clients -> Seq(Cell)]
        /\ toServer \in [Clients -> Seq(Cell)] /\ toClient \in [Clients -> Seq(Cell)]
        /\ \A c \in Clients : toServer[c] = <<>> /\ toClient[c] = <<>>
        BY <1>1, <1>2 DEF Init
  <2>2. \A c \in Clients : Len(toServer[c]) <= BUFSIZE /\ Len(toClient[c]) <= SocketRoom
        BY <1>1, <2>1, Constants DEF BUFSIZE
  <2>3. cuts \in 0 .. MaxCuts
        BY Constants DEF Init
  <2>.  QED BY <1>1, <1>3, <2>1, <2>2, <2>3 DEF Init, Shapes
<1>6. RequestInv
      BY <1>3 DEF Init, RequestInv
<1>7. StreamsInv
      BY <1>1, <1>3, <1>4 DEF Init, StreamsInv
<1>8. ASSUME NEW c \in Clients
      PROVE  ClientInv(c)
  <2>1. None # c
        BY Constants
  <2>2. ~Before(c) /\ ctx.conn # c /\ Unsent(c)
        BY <1>3, <1>4, <2>1 DEF Init, Before, Unsent, Sending
  <2>.  QED BY <1>2, <2>2 DEF Init, ClientInv
<1>. QED BY <1>5, <1>6, <1>7, <1>8 DEF GetFileInv

LEMMA GetFileStep ==
    ASSUME GetFileInv, [Next]_vars
    PROVE  GetFileInv'
<1>1. CASE UNCHANGED vars
  <2>1. UNCHANGED <<clientVars, connVars, serverVars>>
        BY <1>1 DEF vars
  <2>2. UNCHANGED <<asked, local, pc, gfr, written, toServer, toClient, inPieces, cuts,
                    backlog, aborted, spc, ctx, sent, exited>>
        BY <2>1 DEF clientVars, connVars, serverVars, serving
  <2>3. Shapes' /\ RequestInv' /\ StreamsInv'
    <3>1. Shapes'
          BY <2>2 DEF GetFileInv, Shapes
    <3>2. RequestInv'
      <4>1. PICK x : x = ctx.conn
            OBVIOUS
      <4>2. Waits(x)' => Waits(x)
            BY <2>2 DEF Waits
      <4>.  QED BY <2>2, <4>1, <4>2, RequestFrame DEF GetFileInv, serving
    <3>3. StreamsInv'
          BY <2>2 DEF GetFileInv, StreamsInv, listening, Request
    <3>.  QED BY <3>1, <3>2, <3>3
  <2>4. ASSUME NEW c \in Clients
        PROVE  ClientInv(c)'
    <3>1. ServerSeen(c)
          BY <2>2, SeenSame DEF Waits, serving
    <3>.  QED BY <2>1, <3>1, ServerFrame
  <2>.  QED BY <2>3, <2>4 DEF GetFileInv
<1>2. ASSUME NEW c \in Clients, ClientStep(c) \/ Close(c)
      PROVE  GetFileInv'
      BY <1>2, InvOpenFileFails, InvConnect, InvSendRequest, InvReadResponse,
         InvReadResponseFails, InvClose DEF ClientStep
<1>3. CASE ServerStep
      BY <1>3, InvAccept, InvAcceptFails, InvReadRequest, InvReadRequestEnds, InvSendNotFound,
         InvSendHeader, InvSendChunk, InvSendChunkFails, InvBrokenPipe, InvShutdown
         DEF ServerStep
<1>. QED BY <1>1, <1>2, <1>3 DEF Next

LEMMA GetFileHolds == Spec => []GetFileInv
<1>1. Init => GetFileInv
      BY GetFileStarts
<1>2. GetFileInv /\ [Next]_vars => GetFileInv'
      BY GetFileStep
<1>. QED BY <1>1, <1>2, PTL DEF Spec

-----------------------------------------------------------------------------
(***************************************************************************)
(* What it says of clients and of the server.                              *)
(***************************************************************************)
\* The records of both parsers, the streams and the places of the programs have
\* their types: in particular content_pt stays inside the client's buffer.
THEOREM GetFileTypes == Spec => []TypeOK
<1>1. ASSUME GetFileInv
      PROVE  TypeOK
  <2>1. Shapes
        BY <1>1 DEF GetFileInv
  <2>2. ASSUME NEW c \in Clients
        PROVE  /\ gfr[c].sm \in ClientStates /\ gfr[c].status \in Status
               /\ gfr[c].content_pt \in 0 .. RDBUFSIZE - 1
               /\ gfr[c].rx_bytes \in Nat /\ gfr[c].total_rx_bytes \in Nat
               /\ gfr[c].ret \in {None, 0, -1}
    <3>1. gfr[c] \in ParserState
          BY <2>1 DEF Shapes
    <3>.  QED BY <3>1 DEF ParserState
  <2>3. /\ ctx.conn \in Clients \cup {None} /\ ctx.path \in Path \cup {None, Mangled}
        /\ ctx.sm \in {"SCHEME", "METHOD", "PATH"}
        BY <2>1 DEF Shapes, ServerState
  <2>.  QED BY <2>1, <2>2, <2>3 DEF Shapes, TypeOK
<1>. QED BY <1>1, GetFileHolds, PTL

LEMMA PrefixIsPiece ==
    ASSUME NEW p \in Files, NEW w, Prefix(w, p)
    PROVE  w = Piece(p, 0, Len(w)) /\ Len(w) <= Length[p]
<1>1. p \in Path /\ w \in Seq(Cell) /\ Len(w) \in Nat /\ Len(w) <= Length[p]
      BY Constants DEF Prefix
<1>2. PICK n \in Nat : n = Len(w)
      BY <1>1
<1>3. PICK u : u = Piece(p, 0, n)
      OBVIOUS
<1>4. u \in Seq(Cell) /\ Len(u) = n /\ \A i \in 1 .. n : u[i] = <<p, i>>
  <2>1. 0 \in Nat /\ 0 <= n /\ n - 0 = n /\ \A i \in 1 .. n : 0 + i = i
        OBVIOUS
  <2>2. /\ u \in Seq(Cell) /\ Len(u) = n - 0
        /\ \A i \in 1 .. n - 0 : u[i] = <<p, 0 + i>>
        BY <1>1, <1>3, <2>1, PieceIs
  <2>.  QED BY <2>1, <2>2
<1>5. \A i \in 1 .. n : w[i] = u[i]
      BY <1>2, <1>4 DEF Prefix
<1>6. w = u
      BY <1>1, <1>2, <1>4, <1>5, SeqEqual
<1>. QED BY <1>1, <1>2, <1>3, <1>6

\* A client that the server has yet to answer in full does not have its file.
LEMMA FullIsServed ==
    ASSUME GetFileInv, NEW c \in Clients, Full(c)
    PROVE  pc[c] \in {"returned", "closed"} /\ ReturnedInv(c)
<1>1. /\ pc[c] \in {"create", "send", "read", "returned", "closed"} /\ ClientInv(c)
      /\ gfr \in [Clients -> ParserState]
      BY DEF GetFileInv, Shapes
<1>2. pc[c] \notin {"create", "send", "read"}
      BY <1>1, ReadingIs
<1>. QED BY <1>1, <1>2 DEF ClientInv

\* A client gives its callback the file from its start and in order, and does not
\* unlink it only if that was all of the file or it never had a connection; and a
\* client that was told GF_OK does keep it.
THEOREM KeptFilesAreWhole == Spec => []KeptMeansWhole
<1>1. ASSUME GetFileInv, NEW c \in Clients
      PROVE  /\ written[c] # <<>> => /\ asked[c] \in Files
                                     /\ Len(written[c]) <= Length[asked[c]]
                                     /\ written[c] = Piece(asked[c], 0, Len(written[c]))
             /\ local[c] = "kept" => \/ gfr[c] = NewRequest /\ written[c] = <<>>
                                     \/ asked[c] \in Files /\ written[c] = File(asked[c])
             /\ pc[c] = "closed" /\ gfr[c].ret = 0 /\ gfr[c].status = "GF_OK"
                => local[c] = "kept"
  <2>1. /\ pc[c] \in {"create", "send", "read", "returned", "closed"} /\ ClientInv(c)
        /\ gfr \in [Clients -> ParserState]
        BY <1>1 DEF GetFileInv, Shapes
  <2>2. written[c] # <<>> => asked[c] \in Files /\ Prefix(written[c], asked[c])
        BY <2>1, ReadingIs DEF ClientInv, ReturnedInv
  <2>3. local[c] = "kept" => pc[c] = "closed" /\ (Full(c) \/ (gfr[c] = NewRequest /\ written[c] = <<>>))
        BY <2>1 DEF ClientInv
  <2>4. Full(c) => asked[c] \in Files /\ written[c] = File(asked[c])
    <3>1. Full(c) => /\ asked[c] \in Files /\ Prefix(written[c], asked[c])
                     /\ Len(written[c]) = Length[asked[c]]
          BY <1>1, FullIsServed DEF ReturnedInv
    <3>.  QED BY <3>1, PrefixIsPiece DEF File
  <2>5. pc[c] = "closed" /\ gfr[c].ret = 0 /\ gfr[c].status = "GF_OK" => local[c] = "kept"
        BY <2>1 DEF ClientInv, Full
  <2>.  QED BY <2>2, <2>3, <2>4, <2>5, PrefixIsPiece
<1>2. GetFileInv => KeptMeansWhole
      BY <1>1 DEF KeptMeansWhole
<1>. QED BY <1>2, GetFileHolds, PTL

\* A client whose request reached the server in one read is told
\* GF_FILE_NOT_FOUND only of a file that the server does not have.
THEOREM NotFoundHolds == Spec => []NotFoundIsTrue
<1>1. ASSUME GetFileInv, NEW c \in Clients, gfr[c].status = "GF_FILE_NOT_FOUND"
      PROVE  inPieces[c] \/ asked[c] \notin Files
  <2>1. /\ pc[c] \in {"create", "send", "read", "returned", "closed"} /\ ClientInv(c)
        /\ gfr \in [Clients -> ParserState]
        BY <1>1 DEF GetFileInv, Shapes
  <2>2. pc[c] \in {"returned", "closed"}
        BY <1>1, <2>1, ReadingIs
  <2>.  QED BY <1>1, <2>1, <2>2 DEF ClientInv, ReturnedInv
<1>2. GetFileInv => NotFoundIsTrue
      BY <1>1 DEF NotFoundIsTrue
<1>. QED BY <1>2, GetFileHolds, PTL

\* The server ends, or gfs_abort shuts its listening socket, only while it deals
\* with a client that has not been told that it has its file.
THEOREM NeglectEndsServer == Spec => []OnlyNeglectEndsServer
<1>1. ASSUME GetFileInv, exited, NEW c, c = IF listening THEN ctx.conn ELSE aborted, c # None
      PROVE  ~(gfr[c].ret = 0 /\ gfr[c].status = "GF_OK")
  <2>1. c \in Clients /\ (Before(c) \/ Sending(c) \/ aborted = c)
    <3>1. CASE listening
      <4>1. c = ctx.conn /\ spc \in {"request", "send"}
            BY <1>1, <3>1 DEF GetFileInv, StreamsInv
      <4>2. c \in Clients
            BY <1>1, <4>1 DEF GetFileInv, RequestInv
      <4>.  QED BY <4>1, <4>2 DEF Before, Sending
    <3>2. CASE ~listening
          BY <1>1, <3>2 DEF GetFileInv, Shapes
    <3>.  QED BY <3>1, <3>2
  <2>2. ~Full(c)
        BY <1>1, <2>1, FullIsServed DEF ReturnedInv
  <2>.  QED BY <2>2 DEF Full
<1>2. GetFileInv => OnlyNeglectEndsServer
      BY <1>1 DEF OnlyNeglectEndsServer
<1>. QED BY <1>2, GetFileHolds, PTL
=============================================================================
