---------------------------- MODULE FileService -----------------------------
(***************************************************************************)
(* What a server promises to a client, without threads, queues, segments,  *)
(* descriptors or an origin: a request for a path is answered either by a  *)
(* not-found header, or by a header with the length of the file followed   *)
(* by that much of it, piece after piece, in order.  Some servers may      *)
(* break off.                                                              *)
(***************************************************************************)
EXTENDS Integers

CONSTANTS
    Workers, Paths, NoPath, Cached,
    Announced,  \* the lengths that each cached file may be announced with
    MayBreak    \* a request may be broken off

VARIABLES
    phase,      \* of the request that each worker serves
    file,       \* the path that was asked for
    header,     \* the header that the client got
    length,     \* the length announced in it
    delivered   \* the length of the prefix that the client got

vars == <<phase, file, header, length, delivered>>

Init ==
    /\ phase     = [w \in Workers |-> "idle"]
    /\ file      = [w \in Workers |-> NoPath]
    /\ header    = [w \in Workers |-> "none"]
    /\ length    = [w \in Workers |-> 0]
    /\ delivered = [w \in Workers |-> 0]

Ask(w, p) ==
    /\ phase[w] = "idle"
    /\ phase' = [phase EXCEPT ![w] = "asked"]
    /\ file'  = [file EXCEPT ![w] = p]
    /\ UNCHANGED <<header, length, delivered>>

NotFound(w) ==
    /\ phase[w] = "asked"
    /\ file[w] \notin Cached
    /\ phase'  = [phase EXCEPT ![w] = "answered"]
    /\ header' = [header EXCEPT ![w] = "not_found"]
    /\ UNCHANGED <<file, length, delivered>>

Found(w) ==
    /\ phase[w] = "asked"
    /\ file[w] \in Cached
    /\ header' = [header EXCEPT ![w] = "ok"]
    /\ \E n \in Announced[file[w]] : length' = [length EXCEPT ![w] = n]
    /\ phase'  = [phase EXCEPT ![w] = IF 0 < length'[w] THEN "streaming"
                                                        ELSE "answered"]
    /\ UNCHANGED <<file, delivered>>

\* The client gets the next n bytes of the file.
Deliver(w, n) ==
    /\ phase[w] = "streaming"
    /\ n > 0 /\ delivered[w] + n <= length[w]
    /\ delivered' = [delivered EXCEPT ![w] = @ + n]
    /\ UNCHANGED <<phase, file, header, length>>

Complete(w) ==
    /\ phase[w] = "streaming"
    /\ delivered[w] = length[w]
    /\ phase' = [phase EXCEPT ![w] = "answered"]
    /\ UNCHANGED <<file, header, length, delivered>>

\* What the client has by then is all it gets.
BreakOff(w) ==
    /\ MayBreak
    /\ phase[w] \in {"asked", "streaming"}
    /\ phase' = [phase EXCEPT ![w] = "broken"]
    /\ UNCHANGED <<file, header, length, delivered>>

\* The connection is closed and the worker free for another request.
Finish(w) ==
    /\ phase[w] \in {"answered", "broken"}
    /\ phase'     = [phase EXCEPT ![w] = "idle"]
    /\ file'      = [file EXCEPT ![w] = NoPath]
    /\ header'    = [header EXCEPT ![w] = "none"]
    /\ length'    = [length EXCEPT ![w] = 0]
    /\ delivered' = [delivered EXCEPT ![w] = 0]

Next ==
    \E w \in Workers :
      \/ \E p \in Paths : Ask(w, p)
      \/ NotFound(w)
      \/ Found(w)
      \/ \E n \in 1 .. length[w] : Deliver(w, n)
      \/ Complete(w)
      \/ BreakOff(w)
      \/ Finish(w)

Spec == Init /\ [][Next]_vars
=============================================================================
