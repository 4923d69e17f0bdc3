------------------------------- MODULE MCAta -------------------------------
(***************************************************************************)
(* Four sectors of two words, two of which are the copies of the FAT.       *)
(***************************************************************************)
EXTENDS AtaProperties
MCDigit == {0, 1}
MCFatCopies == << <<0, 0>>, <<0, 1>> >>

(* After a window nothing is promised; a call whose wait gave up runs on.    *)
Bounded == torn = {} \/ (torn = {"timeout"} /\ tabs = 0 /\ ~Idle)
=============================================================================
