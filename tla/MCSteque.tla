------------------------------ MODULE MCSteque -------------------------------
(***************************************************************************)
(* Every order of calls on a list of at most as many nodes as Node has.    *)
(***************************************************************************)
EXTENDS Steque
=============================================================================
