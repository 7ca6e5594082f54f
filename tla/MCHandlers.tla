------------------------------ MODULE MCHandlers ------------------------------
(***************************************************************************)
(* The empty list, every list of three lines over two keys, and a few lists*)
(* with a file that cannot be opened or a last line that loses the end of  *)
(* its path. A list that has no line for a key is among them.              *)
(***************************************************************************)
EXTENDS Handlers

CONSTANTS a, ab, empty, gone

MCKey   == 1 .. 3
MCPath  == {a, ab, empty, gone}
MCFiles == {a, ab, empty}
MCCut   == [p \in MCPath |-> CASE p = ab -> a [] p = empty -> gone [] OTHER -> None]
MCSize  == [p \in MCFiles |-> CASE p = a -> 4 [] p = ab -> 3 [] OTHER -> 0]

NewLine(k, p) == [key |-> k, path |-> p, newline |-> TRUE]
Of(k) == NewLine(k, IF k = 1 THEN ab ELSE empty)
MCListFiles ==
    {[i \in DOMAIN keys |-> Of(keys[i])] : keys \in UNION {[1 .. n -> 1 .. 2] : n \in {0, 3}}}
      \cup {<<NewLine(2, a), NewLine(1, a), [NewLine(3, p) EXCEPT !.newline = FALSE]>> :
              p \in {a, ab, empty}}
      \cup {<<NewLine(2, a), NewLine(1, p)>> : p \in {gone, None}}
=============================================================================
