------------------------------ MODULE MCLayout ------------------------------
(***************************************************************************)
(* Drives around the 4096-sector limit and around a FAT sector boundary,    *)
(* the default 64 MB and the largest drive, answering IDENTIFY or not; a    *)
(* disk formatted by another system that leaves the number of FATs and the  *)
(* 32-bit size zero, and one with eight sectors per cluster.                *)
(***************************************************************************)
EXTENDS Layout

MCSizes == (4000..4400) \cup (131000..131200) \cup {268435454, 268435455}
OneSize == 131000..131072
ZeroFields ==
    {[spc |-> 1, reserved |-> 32, fats |-> 0, fatSize |-> 512, total32 |-> 0, total16 |-> 65535]}
EightPerCluster ==
    {[spc |-> 8, reserved |-> 32, fats |-> 2, fatSize |-> 128, total32 |-> 131072, total16 |-> 0]}
=============================================================================
