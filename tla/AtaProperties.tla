--------------------------- MODULE AtaProperties ---------------------------
(***************************************************************************)
(* What the file system may rely on when it calls the driver of module Ata, *)
(* and until when.                                                          *)
(***************************************************************************)
EXTENDS Ata

Contents == [Word -> {Free, Entry, Fresh, Identity, Junk} \cup Sector]

ASSUME NoneIsNoRequest == None \notin [to : Sector, data : Contents]

Sectors == INSTANCE SectorDisk WITH
    Identity <- All(Identity),
    answer <- got,
    request <- IF cpu["main"].cmd = "write"
               THEN [to |-> cpu["main"].lba, data |-> cpu["main"].buf] ELSE None,
    sound <- torn = {}

(* Sectors are read and written whole: a read that reports success returns   *)
(* the contents of the very sector it was asked for, of the command and of   *)
(* TAB alike, and no sector changes but the one whose write is running, to   *)
(* what is being written.  It ends with a TAB in a window of Tears, with a   *)
(* wait that gives up on a drive that is still at work (its late answer goes *)
(* to the next call), and with diskinfo, which reads an idle drive.          *)
ImplementsSectors == Sectors!Spec

(* After fat_write_entry every copy of the FAT holds the new entry and still *)
(* all others, unless the drive reported an error for the sector: a failed   *)
(* read is not noticed, and an uninitialized buffer is written back.         *)
EntriesKept ==
    Idle /\ torn = {} =>
      \A s \in FatSectors \ failed : disk[s] = want

(* Every call comes back, of TAB too, however long the drive stays busy and  *)
(* whatever it reports, but ata_identify, which waits for good.              *)
SectorCallsEnd ==
    /\ (~Idle /\ cpu["main"].cmd # "identify") ~> Idle
    /\ (cpu["tab"].pc # "off") ~> (cpu["tab"].pc = "off")
=============================================================================
