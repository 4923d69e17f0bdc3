------------------------------- MODULE MCHeap -------------------------------
(***************************************************************************)
(* Requests of two sizes and a directory of either of two sizes.            *)
(***************************************************************************)
EXTENDS Heap
MCSizes == {1, 4}
MCTabSizes == {2, 3}
=============================================================================
