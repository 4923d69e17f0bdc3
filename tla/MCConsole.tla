----------------------------- MODULE MCConsole -----------------------------
(***************************************************************************)
(* Three rows of three columns.                                             *)
(***************************************************************************)
EXTENDS Console

(* After a window nothing is promised. *)
Bounded == ~torn
=============================================================================
