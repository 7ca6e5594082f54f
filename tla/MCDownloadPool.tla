--------------------------- MODULE MCDownloadPool ----------------------------
(***************************************************************************)
(* Workloads with one path, two paths and none.                            *)
(***************************************************************************)
EXTENDS DownloadPool

CONSTANTS p, q

MCPath      == {p, q}
MCWorkloads == {<<p>>, <<p, q>>, <<>>}
=============================================================================
