------------------------------ MODULE MCGetFile ------------------------------
(***************************************************************************)
(* A file that fills the client's buffer more than once, an empty one, and *)
(* a path without a file.                                                  *)
(***************************************************************************)
EXTENDS GetFile, TLC

CONSTANTS p, e, x

MCPath   == {p, e, x}
MCFiles  == {p, e}
MCLength == p :> 3 @@ e :> 0
=============================================================================
