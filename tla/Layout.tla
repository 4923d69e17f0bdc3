------------------------------- MODULE Layout -------------------------------
(***************************************************************************)
(* The geometry of the disk (src/src/fs/fat32.c, lines 685-757 and          *)
(* 826-864): format_fs sizes the FAT with the fixpoint iteration of         *)
(* compute_layout and records it in the boot sector; at the next boot       *)
(* init_from_disk derives the geometry from that record again.  A disk may  *)
(* also come with the boot sector of another system.  The drive may leave   *)
(* IDENTIFY unanswered, and a read of its boot sector may fail.             *)
(***************************************************************************)
EXTENDS Integers

CONSTANTS
    Sizes,      \* sizes of the drive, in sectors
    Foreign     \* boot sectors of other systems that is_formatted accepts

(* What is_formatted asks of a boot sector: spc and fatSize are not zero.     *)
BootRecord == [spc : Nat \ {0}, reserved : Nat, fats : Nat, fatSize : Nat \ {0},
               total32 : Nat, total16 : Nat]

(* ATA words 60-61 count at most 2^28 - 1 sectors. *)
ASSUME LayoutAssumption ==
    /\ \A s \in Sizes : s \in Nat /\ 0 < s /\ s < 268435456
    /\ Foreign \subseteq BootRecord

Reserved == 32
Fats == 2
SectorSize == 512
Rounds == 16
SmallDrive == 4096
DefaultTotal == 131072
NoRecord == [spc |-> 0, reserved |-> 0, fats |-> 0, fatSize |-> 0, total32 |-> 0, total16 |-> 0]
NoGeometry == [spc |-> 1, fatSize |-> 0, dataLba |-> 0, dataClusters |-> 0]

VARIABLES
    size,     \* sectors of the drive
    answered, \* ata_identify found a drive when the disk was formatted
    record,   \* the boot sector, which records the geometry
    geo,      \* spc, fat_size, data_lba and data_clusters of the driver
    fsz,      \* compute_layout: the FAT size tried
    prev,     \*   history: the one tried before
    round,    \*   and the rounds made
    phase

layoutVars == <<size, answered, record, geo, fsz, prev, round, phase>>

(* Mutant of Total: always the default. *)
TotalDefault == DefaultTotal

(* disk_total_sectors: a drive that does not answer IDENTIFY, and one of     *)
(* 4096 sectors or less, is taken for 64 MB.                                 *)
Total == IF answered /\ size > SmallDrive THEN size ELSE DefaultTotal

(* The sectors left for data with FATs of f sectors.                         *)
DataWith(f) == IF Total > Reserved + Fats * f THEN Total - Reserved - Fats * f ELSE 0

(* Mutant of NextSize: rounded down. *)
NextSizeDown(f) == (DataWith(f) * 4) \div SectorSize

(* The FAT size that f sectors of FAT leave data for. *)
NextSize(f) == ((DataWith(f) * 4 + SectorSize - 1) \div SectorSize) + 1

Geometry(spc, fatSize, dataLba, total) ==
    [spc |-> spc, fatSize |-> fatSize, dataLba |-> dataLba,
     dataClusters |-> IF total > dataLba THEN total - dataLba ELSE 0]

(* total_sectors32, or total_sectors16 where that is zero.                   *)
RecordedTotal(b) == IF b.total32 = 0 THEN b.total16 ELSE b.total32

(* Mutant of FromBoot: counts one FAT. *)
FromBootOneFat(b) == Geometry(b.spc, b.fatSize, b.reserved + b.fatSize, RecordedTotal(b))

(* init_from_disk: two FATs where the boot sector does not say.              *)
FromBoot(b) ==
    LET fats == IF b.fats = 0 THEN Fats ELSE b.fats
    IN  Geometry(b.spc, b.fatSize, b.reserved + fats * b.fatSize, RecordedTotal(b))

-----------------------------------------------------------------------------
LayoutInit ==
    /\ size \in Sizes
    /\ answered = FALSE
    /\ record \in {NoRecord} \cup Foreign
    /\ geo = NoGeometry
    /\ fsz = 1 /\ prev = 1 /\ round = 0
    /\ phase = "off"

(* fat32_fs_init with a formatted disk, whose boot sector can be read.       *)
InitFromDisk ==
    /\ phase = "off" /\ record # NoRecord
    /\ geo' = FromBoot(record)
    /\ phase' = "ready"
    /\ UNCHANGED <<size, answered, record, fsz, prev, round>>

(* fat32_fs_init with one that is not formatted, or where reading the boot   *)
(* sector fails in is_formatted or init_from_disk: the disk is formatted.    *)
Format ==
    /\ phase = "off"
    /\ answered' \in BOOLEAN
    /\ fsz' = 1 /\ prev' = 1 /\ round' = 0
    /\ phase' = "layout"
    /\ UNCHANGED <<size, record, geo>>

(* Mutant of LayoutRound: until the fixpoint, however long it takes. *)
LayoutRoundForever ==
    /\ phase = "layout" /\ NextSize(fsz) # fsz
    /\ fsz' = NextSize(fsz) /\ prev' = fsz /\ round' = round + 1
    /\ UNCHANGED <<size, answered, record, geo, phase>>

(* One round of the loop of compute_layout. *)
LayoutRound ==
    /\ phase = "layout" /\ round < Rounds /\ NextSize(fsz) # fsz
    /\ fsz' = NextSize(fsz) /\ prev' = fsz /\ round' = round + 1
    /\ UNCHANGED <<size, answered, record, geo, phase>>

(* The loop is over: the geometry, and the boot sector that records it.      *)
LayoutDone ==
    /\ phase = "layout" /\ (round = Rounds \/ NextSize(fsz) = fsz)
    /\ geo' = Geometry(1, fsz, Reserved + Fats * fsz, Total)
    /\ record' = [spc |-> 1, reserved |-> Reserved, fats |-> Fats, fatSize |-> fsz,
                  total32 |-> Total, total16 |-> 0]
    /\ phase' = "ready"
    /\ UNCHANGED <<size, answered, fsz, prev, round>>

PowerOff ==
    /\ phase = "ready"
    /\ phase' = "off"
    /\ geo' = NoGeometry
    /\ UNCHANGED <<size, answered, record, fsz, prev, round>>

LayoutNext == InitFromDisk \/ Format \/ LayoutRound \/ LayoutDone \/ PowerOff
LayoutSpec == LayoutInit /\ [][LayoutNext]_layoutVars

-----------------------------------------------------------------------------
(* Type correctness. *)
LayoutTypeOK ==
    /\ size \in Sizes
    /\ answered \in BOOLEAN
    /\ record \in BootRecord \cup {NoRecord}
    /\ geo \in [spc : Nat, fatSize : Nat, dataLba : Nat, dataClusters : Nat]
    /\ fsz \in Nat \ {0} /\ prev \in Nat /\ round \in 0..Rounds
    /\ phase \in {"off", "layout", "ready"}

Ready == phase = "ready" /\ record \notin Foreign

(* However the iteration of compute_layout ends, at its fixpoint or after    *)
(* sixteen rounds, the FAT has an entry for every data cluster and for the   *)
(* two reserved ones.                                                        *)
FatCovers == Ready => geo.dataClusters + 2 <= 128 * geo.fatSize

(* The data region ends with the disk, unless the drive has less than 64 MB  *)
(* and did not answer IDENTIFY or has 4096 sectors or less (fat32.c:685-692).*)
DataOnDisk ==
    Ready /\ (size >= DefaultTotal \/ (answered /\ size > SmallDrive)) =>
        geo.dataLba + geo.dataClusters <= size

(* init_from_disk comes to the very geometry format_fs chose: the clusters   *)
(* of a file are where they were before the reboot.                          *)
GeometryKept ==
    [][ phase = "off" /\ phase' = "ready" /\ record \notin Foreign =>
          geo' = Geometry(1, fsz, Reserved + Fats * fsz, Total) ]_layoutVars

(* fat32.c:62 says data_clusters is the "total data clusters on the disk":  *)
(* that many clusters of spc sectors fit between data_lba and the end.       *)
CountsClusters ==
    phase = "ready" => geo.dataLba + geo.dataClusters * geo.spc <= RecordedTotal(record)
=============================================================================
