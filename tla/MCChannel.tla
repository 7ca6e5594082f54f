------------------------------ MODULE MCChannel ------------------------------
(***************************************************************************)
(* Proxies with one segment or two.                                        *)
(***************************************************************************)
EXTENDS Channel

MCOptions == {1, 2}
=============================================================================
