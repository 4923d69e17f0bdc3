------------------------------ MODULE MCRxRing ------------------------------
(***************************************************************************)
(* A ring of 32 bytes with frames of three sizes, of which two or three fit.*)
(***************************************************************************)
EXTENDS RxRing
MCLengths == {5, 8, 11}
=============================================================================
