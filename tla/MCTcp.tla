------------------------------- MODULE MCTcp -------------------------------
(***************************************************************************)
(* Three bytes whose sequence numbers come round at 16.                     *)
(***************************************************************************)
EXTENDS Tcp
=============================================================================
