---------------------------- MODULE MCProxyCache ----------------------------
(***************************************************************************)
(* ProxyCache on small instances.                                          *)
(***************************************************************************)
EXTENDS TransferInvariant, TLC

CONSTANTS one, three, empty, negative, wrapped, missing

\* With segments of two bytes and an IntMax of 3, and so 8 in the place of 2^32:
\* a file that takes two segments, an empty one, one of length IntMax + 1, which
\* reads as -4, and one of length 2^32 + 2, which reads as 2.
MCPaths    == {three, empty, negative, wrapped, missing}
MCCached   == MCPaths \ {missing}
MCFileSize == [f \in MCCached |-> CASE f = three    -> 3
                                    [] f = empty    -> 0
                                    [] f = negative -> 4
                                    [] f = wrapped  -> 10]

\* Fewer paths where there are more threads: a file that takes one segment and
\* one that takes two, so that one can be taken for the other.
MCShort       == {one, three}
MCShortCached == {one, three}
MCShortSize   == [f \in MCShortCached |-> IF f = one THEN 1 ELSE 3]

MCFew       == {three, missing}
MCFewCached == {three}
MCFewSize   == [f \in MCFewCached |-> 3]

ThreadSymmetry == Permutations(Workers) \cup Permutations(CacheThreads)
=============================================================================
