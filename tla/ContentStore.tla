----------------------------- MODULE ContentStore -----------------------------
(***************************************************************************)
(* The list of files that a server offers: simplecache.c of project3, and  *)
(* content.c of project1, which is the same but for a rewind.  Each line   *)
(* of a text file names a key and a path; the paths are opened once, while *)
(* the program starts, and a binary search finds the descriptor of a key.  *)
(*                                                                         *)
(* Keys are numbers in the order of strcmp.  A line is shorter than        *)
(* MAX_KEYLEN.  A descriptor is named by the line that it was opened for.  *)
(***************************************************************************)
EXTENDS Integers, Sequences, FiniteSets, Functions

CONSTANTS
    Key, Path,
    Files,              \* the paths that can be opened
    Cut,                \* each path without its last character
    InitialCapacity,    \* 16
    None                \* no path on a line

ASSUME KeyAssumption      == Key \subseteq Nat
ASSUME FilesAssumption    == Files \subseteq Path /\ None \notin Path
ASSUME CutAssumption      == Cut \in [Path -> Path \cup {None}]
ASSUME CapacityAssumption == InitialCapacity \in Nat \ {0}

\* Only the last line of a file may lack a newline.
Line     == [key : Key, path : Path \cup {None}, newline : BOOLEAN]
ListFile == {l \in Seq(Line) : \A i \in 1 .. Len(l) - 1 : l[i].newline}

VARIABLES
    lines,      \* the list
    index,      \* how far its index is
    items,      \* the entries of the index
    capacity    \* the entries that there is memory for

store == <<lines, index, items, capacity>>
nitems == Len(items)

StoreTypeOK ==
    /\ index \in {"load", "sort", "ready", "failed"}
    /\ items \in Seq([key : Key, fildes : DOMAIN lines])
    /\ capacity \in Nat

\* The list may be missing.
StoreInit(lists) ==
    /\ lines \in lists
    /\ index \in {"load", "failed"} /\ items = <<>> /\ capacity = InitialCapacity

\* The path that is opened for line i: its last character is taken for the end
\* of the line.
Opened(i) == IF lines[i].newline \/ lines[i].path = None THEN lines[i].path
             ELSE Cut[lines[i].path]

\* A bug: the memory grows one entry too late.
FullLate(n) == n > capacity

Full(n) == n = capacity

\* The next line; a file that cannot be opened ends the program.
LoadLine ==
    /\ index = "load" /\ nitems < Len(lines)
    /\ \/ /\ Opened(nitems + 1) \in Files
          /\ items' = Append(items, [key |-> lines[nitems + 1].key,
                                     fildes |-> nitems + 1])
          /\ capacity' = IF Full(nitems + 1) THEN 2 * capacity ELSE capacity
          /\ UNCHANGED index
       \/ /\ Opened(nitems + 1) \notin Files
          /\ index' = "failed"
          /\ UNCHANGED <<items, capacity>>
    /\ UNCHANGED lines

EndOfList ==
    /\ index = "load" /\ nitems = Len(lines)
    /\ index' = "sort"
    /\ UNCHANGED <<lines, items, capacity>>

\* qsort, in which entries with the same key may end up in any order.
Sort ==
    /\ index = "sort"
    /\ \E order \in Bijection(DOMAIN items, DOMAIN items) :
         /\ \A i, j \in DOMAIN items : i < j => items[order[i]].key <= items[order[j]].key
         /\ items' = [i \in DOMAIN items |-> items[order[i]]]
    /\ index' = "ready"
    /\ UNCHANGED <<lines, capacity>>

StoreNext == LoadLine \/ EndOfList \/ Sort

\* A bug: the search starts at the second entry.
LowestSecond == 1

Lowest == 0

\* simplecache_get and content_get: the descriptor, or -1.
Get(key) ==
    LET search[bounds \in (0 .. nitems + 1) \X (-1 .. nitems - 1)] ==
          LET lo    == bounds[1]
              hi    == bounds[2]
              mid   == lo + (hi - lo) \div 2
              found == items[mid + 1].key IN
          IF lo > hi THEN -1
          ELSE IF key < found THEN search[<<lo, mid - 1>>]
          ELSE IF key > found THEN search[<<mid + 1, hi>>]
          ELSE items[mid + 1].fildes
    IN search[<<Lowest, nitems - 1>>]

\* What the list says of a key.
Lists(key) == {i \in DOMAIN lines : lines[i].key = key}

\* The index says what the list says: every key that is listed, however often and
\* in whatever order, has the descriptor of one of its lines, and no other has
\* one.  The entry that is read next has memory.  A list whose lines all end in
\* a newline is served under the paths that it names.
IndexFaithful ==
    /\ StoreTypeOK
    /\ index = "load" => nitems < capacity
    /\ index = "ready" =>
         \A key \in Key :
           /\ Lists(key) = {} => Get(key) = -1
           /\ Lists(key) # {} => /\ Get(key) \in Lists(key)
                                 /\ \/ Opened(Get(key)) = lines[Get(key)].path
                                    \/ ~lines[Len(lines)].newline
=============================================================================
