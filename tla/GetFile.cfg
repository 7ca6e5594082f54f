\* Two clients; the buffer takes one byte after the header, the socket's room
\* less than the header and the file.
CONSTANTS
    Clients = {c1, c2}
    p = p
    e = e
    x = x
    Path <- MCPath
    Files <- MCFiles
    Length <- MCLength
    RDBUFSIZE = 8
    BUFFER_SIZE = 2
    SocketRoom = 8
    MaxCuts = 2
    None = None
SPECIFICATION FairSpec
INVARIANTS
    TypeOK
    
    NotFoundIsTrue
    
PROPERTIES
    ConnectionsServed
CHECK_DEADLOCK FALSE
