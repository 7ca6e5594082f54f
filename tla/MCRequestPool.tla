---------------------------- MODULE MCRequestPool ----------------------------
(***************************************************************************)
(* A few workers of the multithreaded server and a few requests.           *)
(***************************************************************************)
EXTENDS RequestPool, TLC

WorkerSymmetry == Permutations(Workers)
=============================================================================
