----------------------------- MODULE Directory -----------------------------
(***************************************************************************)
(* Directories of the FAT32 driver (src/src/fs/fat32.c, lines 202-681): the *)
(* 32-byte slots a directory is made of, the RAM image `dir_t` a directory  *)
(* is loaded into, the scan that decodes long names, the search for a run   *)
(* of free slots, insertion and deletion.                                   *)
(*                                                                         *)
(* A name is a sequence of pieces: one piece for the thirteen characters of *)
(* a VFAT slot.  The 8.3 conversions are tables (make_short_name, the "~N"  *)
(* alternative, short_decode and the checksum), because the properties only *)
(* ask which names collide and which ones decode to themselves.             *)
(***************************************************************************)
EXTENDS Naturals, Sequences, FiniteSets

CONSTANTS
    DataClusters,        \* data_clusters: clusters 2 .. DataClusters + 1
    ENTRIES_PER_SECTOR,  \* slots in a cluster (one sector per cluster)
    MAX_LFN_SETS,        \* LFN slots the scan remembers
    MAX_ALT,             \* last ~N that build_short_name tries (9 in the code)
    Piece,               \* thirteen characters of a name
    Fold,                \* upchar, piecewise: what strcasecmp_os compares
    Name,                \* the names a caller may pass
    ShortName,           \* 11-byte names
    MakeShort,           \* make_short_name, as a table
    Tilde,               \* <<short, n>> -> the short name with "~n" at 6 and 7
    ShortDecode,         \* short_decode, as a table
    Checksum             \* short_name_checksum, as a table

ASSUME SlotAssumption ==
    /\ DataClusters \in Nat \ {0}
    /\ ENTRIES_PER_SECTOR \in Nat \ {0}
    /\ MAX_LFN_SETS \in Nat \ {0}
    /\ MAX_ALT \in Nat \ {0}

ASSUME NameAssumption ==
    /\ Fold \in [Piece -> Piece]
    /\ Name \subseteq Seq(Piece) \ {<<>>}
    /\ MakeShort \in [Name -> ShortName]
    /\ Tilde \in [ShortName \X (1..MAX_ALT) -> ShortName]
    /\ ShortDecode \in [ShortName -> Seq(Piece)]
    /\ Checksum \in [ShortName -> 0..255]

(* A name is a word of a command line of at most 255 characters, so that its *)
(* pieces are no more than the scan remembers (20 times 13 characters).      *)
ASSUME LengthAssumption == \A name \in Name : Len(name) <= MAX_LFN_SETS

LastCluster == DataClusters + 1
Cluster == 2..LastCluster

-----------------------------------------------------------------------------
(* Slots.  A deleted slot keeps only its attribute byte: the deletion loop   *)
(* looks at it, nothing else of it is ever read.                             *)

End == [tag |-> "end"]
Deleted(lfn) == [tag |-> "del", lfn |-> lfn]
Lfn(piece, ord, sum) == [tag |-> "lfn", piece |-> piece, ord |-> ord, sum |-> sum]
Entry(tag, short, cluster, size) ==
    [tag |-> tag, short |-> short, cluster |-> cluster, size |-> size]
Dot(cluster) == [tag |-> "dot", cluster |-> cluster]
DotDot(cluster) == [tag |-> "dotdot", cluster |-> cluster]
Volume == [tag |-> "vol"]

Slot ==
    {End, Volume}
      \cup [tag : {"del"}, lfn : BOOLEAN]
      \cup [tag : {"lfn"}, piece : Piece, ord : Nat, sum : 0..255]
      \cup [tag : {"file", "dir"}, short : ShortName, cluster : Cluster \cup {0}, size : Nat]
      \cup [tag : {"dot", "dotdot"}, cluster : Cluster]

Sector == [1..ENTRIES_PER_SECTOR -> Slot]
ZeroSector == [e \in 1..ENTRIES_PER_SECTOR |-> End]

IsFree(s) == s.tag \in {"end", "del"}
IsVisible(s) == s.tag \in {"file", "dir"}
HasLfnAttr(s) == s.tag = "lfn" \/ (s.tag = "del" /\ s.lfn)

-----------------------------------------------------------------------------
(* The RAM image dir_t: the sectors of a directory, read in chain order.     *)
(* Slots are numbered from 1 across the sectors.                             *)

Position(k, e) == (k - 1) * ENTRIES_PER_SECTOR + e
Capacity(img) == Len(img) * ENTRIES_PER_SECTOR
At(img, i) ==
    img[((i - 1) \div ENTRIES_PER_SECTOR) + 1][((i - 1) % ENTRIES_PER_SECTOR) + 1]

Least(S) == CHOOSE x \in S : \A y \in S : x <= y
Greatest(S) == CHOOSE x \in S : \A y \in S : x >= y

(* d->count: the slots before the first 0x00. *)
Count(img) ==
    Least({n \in 0..Capacity(img) : n = Capacity(img) \/ At(img, n + 1) = End})

(* Applies F to every slot and its number. *)
MapSlots(img, F(_, _)) ==
    [k \in 1..Len(img) |->
        [e \in 1..ENTRIES_PER_SECTOR |-> F(Position(k, e), img[k][e])]]

-----------------------------------------------------------------------------
(* Scanning.                                                                 *)

(* The LFN slots the scan has met when it reaches slot i: those since the    *)
(* last live slot of another kind.  A deleted slot is skipped and does not   *)
(* reset them.                                                               *)
Met(img, i) ==
    {j \in 1..(i - 1) :
        At(img, j).tag = "lfn" /\ \A m \in j..(i - 1) : At(img, m).tag = "lfn" \/ IsFree(At(img, m))}

(* The ones it remembers. *)
Pending(img, i) ==
    {j \in Met(img, i) : Cardinality({m \in Met(img, i) : m <= j}) <= MAX_LFN_SETS}

(* The piece with ordinal o goes to position n - o + 1 of n, a later slot    *)
(* overwriting an earlier one; the name ends before the first hole.          *)
Assemble(img, pend) ==
    LET n == Cardinality(pend)
        at(p) == {j \in pend : At(img, j).ord + p = n + 1}
        filled == Greatest({k \in 0..n : \A p \in 1..k : at(p) # {}})
    IN  [p \in 1..filled |-> At(img, Greatest(at(p))).piece]

(* The decoded name of the regular slot i: the long one if the last pending  *)
(* LFN slot carries the checksum of the short one.                           *)
EntryName(img, i) ==
    LET pend == Pending(img, i)
        short == At(img, i).short
    IN  IF pend # {} /\ At(img, Greatest(pend)).sum = Checksum[short]
        THEN Assemble(img, pend)
        ELSE ShortDecode[short]

(* The slots scan_next returns, in order. *)
Visible(img) == {i \in 1..Count(img) : IsVisible(At(img, i))}

(* strcasecmp_os(a, b) == 0. *)
SameName(a, b) ==
    /\ Len(a) = Len(b)
    /\ \A p \in 1..Len(a) : Fold[a[p]] = Fold[b[p]]

(* Mutant of Find: looks at the short names only. *)
FindByShort(img, name) ==
    LET hits == {i \in Visible(img) : SameName(ShortDecode[At(img, i).short], name)}
    IN  IF hits = {} THEN 0 ELSE Least(hits)

(* dir_find: the first visible slot with that name, 0 if there is none. *)
Find(img, name) ==
    LET hits == {i \in Visible(img) : SameName(EntryName(img, i), name)}
    IN  IF hits = {} THEN 0 ELSE Least(hits)

-----------------------------------------------------------------------------
(* Insertion.                                                                *)

ShortInUse(img, short) ==
    \E i \in Visible(img) : At(img, i).short = short

(* Mutant of BuildShort: no "~n". *)
BuildShortPlain(img, name) == MakeShort[name]

(* The short name, or its first "~n" not in use; after the last one the loop *)
(* gives up and keeps it although it is in use.                              *)
BuildShort(img, name) ==
    LET try(n) == IF n = 0 THEN MakeShort[name] ELSE Tilde[<<MakeShort[name], n>>]
        unused == {n \in 0..MAX_ALT : ~ShortInUse(img, try(n))}
    IN  try(IF unused = {} THEN MAX_ALT ELSE Least(unused))

(* LFN slots are written only when the short name does not spell the name. *)
LfnCount(short, name) == IF ShortDecode[short] = name THEN 0 ELSE Len(name)

(* find_free_run: the first of `need` free slots in a row, 0 if none. *)
FreeRun(img, need) ==
    LET starts == {i \in 1..Capacity(img) :
                      /\ i + need - 1 <= Capacity(img)
                      /\ \A j \in i..(i + need - 1) : IsFree(At(img, j))}
    IN  IF starts = {} THEN 0 ELSE Least(starts)

(* dir_insert once the run is known: the n LFN slots, highest ordinal first, *)
(* then the short entry.                                                     *)
Insert(img, run, name, entry) ==
    LET n == LfnCount(entry.short, name)
        New(i, old) ==
            IF i \in run..(run + n - 1)
            THEN Lfn(name[i - run + 1], n - (i - run), Checksum[entry.short])
            ELSE IF i = run + n THEN entry ELSE old
    IN  MapSlots(img, New)

-----------------------------------------------------------------------------
(* Deletion (the second half of fat32_delete_file): the short entry and every *)
(* slot with the LFN attribute right before it, live or already deleted.     *)

(* Mutant of LfnSetOf: leaves the LFN slots. *)
LfnSetOfNone(img, idx) == {idx}

LfnSetOf(img, idx) ==
    {j \in 1..idx : \A m \in j..(idx - 1) : HasLfnAttr(At(img, m))}

(* Mutant of MarkDeleted: the entry stays. *)
MarkNothing(img, idx) == img

MarkDeleted(img, idx) ==
    LET gone == LfnSetOf(img, idx)
        New(i, old) == IF i \in gone THEN Deleted(HasLfnAttr(old)) ELSE old
    IN  MapSlots(img, New)

(* fat32_dir_parent: the cluster of the first "..", 0 if there is none. *)
Parent(img) ==
    LET ups == {i \in 1..Count(img) : At(img, i).tag = "dotdot"}
    IN  IF ups = {} THEN 0 ELSE At(img, Least(ups)).cluster
=============================================================================
