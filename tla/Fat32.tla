------------------------------- MODULE Fat32 -------------------------------
(***************************************************************************)
(* The FAT32 driver (src/src/fs/fat32.c) on a disk it formatted itself (one *)
(* sector per cluster): the FAT and its mirror, the data region, and every  *)
(* operation of the public API that writes.                                 *)
(*                                                                         *)
(* The driver reads and computes in RAM and writes one sector at a time.    *)
(* `io` holds the sector writes an operation has issued; DiskWrite performs *)
(* the first of them, and the operation goes on when they are all done, at  *)
(* the step `pc` names.  A power cut may happen between any two sector      *)
(* writes: the disk stays as it is, the RAM is lost.                        *)
(***************************************************************************)
EXTENDS Directory

CONSTANTS
    DIR_MAX_CLUSTERS,  \* clusters of a directory that dir_load reads
    Block,             \* sector-sized pieces of file contents
    Contents,          \* what a caller may write: sequences of blocks
    MaxCuts            \* bound: power cuts in a behaviour

ASSUME DiskAssumption ==
    /\ DIR_MAX_CLUSTERS \in Nat \ {0}
    /\ ENTRIES_PER_SECTOR >= 3
    /\ Contents \subseteq Seq(Block)
    /\ MaxCuts \in Nat
    /\ LastCluster < 268435448

Root == 2
EOC == 268435455
InRange(c) == c \in Cluster

VARIABLES
    boot,    \* disk: the boot sector, "blank" or "fat32"
    fat,     \* disk: first FAT copy, the one that is read
    mirror,  \* disk: second FAT copy, only ever written
    data,    \* disk: the cluster contents
    hint,    \* next_free_hint
    cwd,     \* current_dir_cluster of the shell
    pc,      \* where the running operation is
    op,      \* its arguments
    img,     \* its dir_t: the sectors, and
    dirc,    \*   the clusters they were read from
    chain,   \* the clusters it has allocated
    cur,     \* free_cluster_chain: next cluster to free
    io,      \* sector writes issued and not yet done
    cuts,    \* power cuts so far
    torn,    \* history: operations a power cut left half done on the disk
    lost     \* history: clusters a failed create left allocated

disk == <<boot, fat, mirror, data>>
ram == <<hint, pc, op, img, dirc, chain, cur, io>>
vars == <<disk, ram, cwd, cuts, torn, lost>>

-----------------------------------------------------------------------------
(* Sector contents and sector writes.                                        *)

DirSector(s) == [tag |-> "dir", slots |-> s]
DataSector(b) == [tag |-> "data", block |-> b]
Junk == [tag |-> "junk"]        \* whatever the disk held before
SectorData == [tag : {"dir"}, slots : Sector] \cup [tag : {"data"}, block : Block] \cup {Junk}

FatValue == {0, EOC} \cup Cluster
Write ==
    [to : {"boot", "root"}]
      \cup [to : {"zero"}, copy : {0, 1}]
      \cup [to : {"fat"}, copy : {0, 1}, cluster : Cluster, value : FatValue]
      \cup [to : {"data"}, cluster : Cluster, value : SectorData]

(* Mutant of WriteEntry: no mirror. *)
WriteEntryOnce(c, v) == << [to |-> "fat", copy |-> 0, cluster |-> c, value |-> v] >>

(* fat_write_entry: the sector of the first FAT copy, then of the second. *)
WriteEntry(c, v) ==
    << [to |-> "fat", copy |-> 0, cluster |-> c, value |-> v],
       [to |-> "fat", copy |-> 1, cluster |-> c, value |-> v] >>
WriteCluster(c, v) == << [to |-> "data", cluster |-> c, value |-> v] >>

(* format_fs: boot sector first, then both FATs, then the root directory.    *)
(* The backup boot sector and the FSInfo sectors are never read back.        *)
RootSector ==
    [e \in 1..ENTRIES_PER_SECTOR |->
        IF e = 1 THEN Dot(Root) ELSE IF e = 2 THEN DotDot(Root)
        ELSE IF e = 3 THEN Volume ELSE End]
FormatWrites ==
    << [to |-> "boot"], [to |-> "zero", copy |-> 0], [to |-> "zero", copy |-> 1] >>
      \o WriteEntry(Root, EOC) \o WriteCluster(Root, DirSector(RootSector))

(* Mutant of SaveWrites: last sector first. *)
SaveWritesBackwards(image, clusters) ==
    [j \in 1..Len(image) |->
        LET k == Len(image) + 1 - j
        IN  [to |-> "data", cluster |-> clusters[k], value |-> DirSector(image[k])]]

(* dir_save: every sector of the image, in chain order. *)
SaveWrites(image, clusters) ==
    [k \in 1..Len(image) |->
        [to |-> "data", cluster |-> clusters[k], value |-> DirSector(image[k])]]

(* The links of a new file, then its blocks. *)
LinkWrites(c) ==
    [j \in 1..(2 * (Len(c) - 1)) |->
        LET k == (j + 1) \div 2
        IN  [to |-> "fat", copy |-> (j + 1) % 2, cluster |-> c[k], value |-> c[k + 1]]]
BlockWrites(c, blocks) ==
    [k \in 1..Len(c) |-> [to |-> "data", cluster |-> c[k], value |-> DataSector(blocks[k])]]

(* A sector that holds no directory has no entries the model can name. *)
SlotsOf(sector) == IF sector.tag = "dir" THEN sector.slots ELSE ZeroSector

-----------------------------------------------------------------------------
(* Reading the disk.                                                         *)

(* The chain from c in the FAT f, as dir_load and fat32_read_file walk it,   *)
(* at most `max` clusters long.                                              *)
Links(f) == [v \in 0..EOC |-> IF v \in Cluster THEN f[v] ELSE 0]
Walk(c, succ) == LET at[n \in Nat] == IF n = 0 THEN c ELSE succ[at[n - 1]] IN at
Chain(f, c, max) ==
    LET at == Walk(c, Links(f))
        len == Greatest({n \in 0..max : \A k \in 1..n : at[k - 1] \in Cluster})
    IN  [k \in 1..len |-> at[k - 1]]

(* dir_load, from the FAT f and the data d. *)
Image(d, clusters) == [k \in 1..Len(clusters) |-> SlotsOf(d[clusters[k]])]
DirChain(c) == Chain(fat, c, DIR_MAX_CLUSTERS)
Load(c) == Image(data, DirChain(c))

(* fat32_read_file: the contents of the clusters of an entry. *)
ReadFile(f, d, e) ==
    LET c == Chain(f, e.cluster, e.size)
    IN  [k \in 1..Len(c) |-> d[c[k]]]

Free(lo, hi) == {c \in lo..hi : c \in Cluster /\ fat[c] = 0}
From == IF InRange(hint) THEN hint ELSE 2

(* Mutant of FoundFree: does not come back to the start. *)
FoundFreeNoWrap ==
    IF Free(From, LastCluster) # {} THEN Least(Free(From, LastCluster)) ELSE 0

(* alloc_cluster, the search: from the hint to the end, then from the start. *)
FoundFree ==
    IF Free(From, LastCluster) # {} THEN Least(Free(From, LastCluster))
    ELSE IF Free(2, From - 1) # {} THEN Least(Free(2, From - 1))
    ELSE 0

(* Mutant of HintAfter: no wrap. *)
HintAfterNoWrap(c) == c + 1

HintAfter(c) == IF c + 1 > LastCluster THEN 2 ELSE c + 1

-----------------------------------------------------------------------------
(* The operations.  Each starts in "idle", works in the directory `cwd`, and  *)
(* comes back to "idle"; a call that returns 0 before it writes anything     *)
(* changes no state and is a stuttering step.                                *)

NoShort == "none"
NoOp == [kind |-> "none", name |-> <<>>, blocks |-> <<>>, short |-> NoShort, slot |-> 0]
MAX_FILE_CLUSTERS == 512
Needed == IF op.kind = "mkdir" THEN 1 ELSE Len(op.blocks)

Finish ==
    /\ pc' = "idle" /\ op' = NoOp
    /\ img' = <<>> /\ dirc' = <<>> /\ chain' = <<>> /\ cur' = 0 /\ io' = <<>>

Start(kind, name, blocks, slot) ==
    /\ op' = [kind |-> kind, name |-> name, blocks |-> blocks,
              short |-> NoShort, slot |-> slot]
    /\ dirc' = DirChain(cwd)
    /\ img' = Load(cwd)

(* fat32_create_file, up to its first allocation. *)
CreateFile(name, blocks) ==
    /\ pc = "idle"
    /\ Find(Load(cwd), name) = 0
    /\ Len(blocks) <= MAX_FILE_CLUSTERS
    /\ Start("create", name, blocks, 0)
    /\ pc' = IF blocks = <<>> THEN "name" ELSE "alloc"
    /\ UNCHANGED <<disk, hint, chain, cur, io, cwd, cuts, torn, lost>>

(* fat32_create_dir, up to its allocation. *)
CreateDir(name) ==
    /\ pc = "idle"
    /\ Find(Load(cwd), name) = 0
    /\ Start("mkdir", name, <<>>, 0)
    /\ pc' = "alloc"
    /\ UNCHANGED <<disk, hint, chain, cur, io, cwd, cuts, torn, lost>>

(* Mutant of AllocCluster: does not mark the cluster. *)
AllocUnmarked ==
    /\ pc = "alloc" /\ io = <<>> /\ Len(chain) < Needed
    /\ FoundFree # 0
    /\ chain' = Append(chain, FoundFree)
    /\ hint' = HintAfter(FoundFree)
    /\ UNCHANGED <<disk, pc, op, img, dirc, cur, io, cwd, cuts, torn, lost>>

(* alloc_cluster for the file or the directory. *)
AllocCluster ==
    /\ pc = "alloc" /\ io = <<>> /\ Len(chain) < Needed
    /\ FoundFree # 0
    /\ chain' = Append(chain, FoundFree)
    /\ io' = WriteEntry(FoundFree, EOC)
    /\ hint' = HintAfter(FoundFree)
    /\ UNCHANGED <<disk, pc, op, img, dirc, cur, cwd, cuts, torn, lost>>

(* Mutant of AllocFails: the caller does not give up but tries again, from   *)
(* the start of the FAT.                                                     *)
AllocRetries ==
    /\ pc = "alloc" /\ io = <<>> /\ Len(chain) < Needed
    /\ FoundFree = 0
    /\ hint' = 2
    /\ UNCHANGED <<disk, pc, op, img, dirc, chain, cur, io, cwd, cuts, torn, lost>>

(* The disk is full: the clusters allocated so far are not linked yet, so    *)
(* free_cluster_chain(first) gives back the first one only.                  *)
AllocFails ==
    /\ pc = "alloc" /\ io = <<>> /\ Len(chain) < Needed
    /\ FoundFree = 0
    /\ IF chain = <<>>
       THEN Finish /\ UNCHANGED lost
       ELSE /\ pc' = "abort" /\ cur' = chain[1]
            /\ lost' = lost \cup {chain[k] : k \in 2..Len(chain)}
            /\ UNCHANGED <<op, img, dirc, chain, io>>
    /\ UNCHANGED <<disk, hint, cwd, cuts, torn>>

(* The links and blocks of a file, or the first sector of a directory. *)
NewDirSector(c, parent) ==
    [e \in 1..ENTRIES_PER_SECTOR |->
        IF e = 1 THEN Dot(c) ELSE IF e = 2 THEN DotDot(parent) ELSE End]
WriteContents ==
    /\ pc = "alloc" /\ io = <<>> /\ Len(chain) = Needed
    /\ io' = IF op.kind = "mkdir"
             THEN WriteCluster(chain[1], DirSector(NewDirSector(chain[1], cwd)))
             ELSE LinkWrites(chain) \o BlockWrites(chain, op.blocks)
    /\ pc' = "name"
    /\ UNCHANGED <<disk, hint, op, img, dirc, chain, cur, cwd, cuts, torn, lost>>

(* dir_insert: the short name, a run of free slots for the entry and its LFN *)
(* slots, the entry; then dir_save.                                          *)
ChooseShort ==
    /\ pc = "name" /\ io = <<>>
    /\ op' = [op EXCEPT !.short = BuildShort(img, op.name)]
    /\ pc' = "search"
    /\ UNCHANGED <<disk, hint, img, dirc, chain, cur, io, cwd, cuts, torn, lost>>

SearchRun ==
    /\ pc \in {"search", "retry"} /\ io = <<>>
    /\ op' = [op EXCEPT !.slot = FreeRun(img, LfnCount(op.short, op.name) + 1)]
    /\ pc' = IF op'.slot # 0 THEN "place" ELSE IF pc = "search" THEN "extend" ELSE "fail"
    /\ UNCHANGED <<disk, hint, img, dirc, chain, cur, io, cwd, cuts, torn, lost>>

FirstCluster == IF chain = <<>> THEN 0 ELSE chain[1]
NewEntry ==
    Entry(IF op.kind = "mkdir" THEN "dir" ELSE "file", op.short, FirstCluster,
          Len(op.blocks))
PlaceEntry ==
    /\ pc = "place"
    /\ img' = Insert(img, op.slot, op.name, NewEntry)
    /\ io' = SaveWrites(img', dirc)
    /\ op' = [op EXCEPT !.slot = op.slot + LfnCount(op.short, op.name)]
    /\ pc' = "save"
    /\ UNCHANGED <<disk, hint, dirc, chain, cur, cwd, cuts, torn, lost>>

(* Mutants of ExtensionWrites: linked before it is zeroed, and before it is  *)
(* marked.                                                                   *)
ExtensionUnzeroed(c, last) ==
    WriteEntry(c, EOC) \o WriteEntry(last, c) \o WriteCluster(c, DirSector(ZeroSector))
ExtensionUnmarked(c, last) ==
    WriteCluster(c, DirSector(ZeroSector)) \o WriteEntry(last, c) \o WriteEntry(c, EOC)

(* dir_extend: allocate, zero the cluster, link it, terminate it; then the   *)
(* one more search of dir_insert.                                            *)
ExtensionWrites(c, last) ==
    WriteEntry(c, EOC) \o WriteCluster(c, DirSector(ZeroSector))
      \o WriteEntry(last, c) \o WriteEntry(c, EOC)
ExtendDir ==
    /\ pc = "extend"
    /\ Len(dirc) < DIR_MAX_CLUSTERS /\ FoundFree # 0
    /\ io' = ExtensionWrites(FoundFree, dirc[Len(dirc)])
    /\ hint' = HintAfter(FoundFree)
    /\ img' = Append(img, ZeroSector)
    /\ dirc' = Append(dirc, FoundFree)
    /\ pc' = "retry"
    /\ UNCHANGED <<disk, op, chain, cur, cwd, cuts, torn, lost>>

(* No room: the caller of dir_insert gives its clusters back. *)
InsertFails ==
    /\ \/ pc = "fail"
       \/ pc = "extend" /\ ~(Len(dirc) < DIR_MAX_CLUSTERS /\ FoundFree # 0)
    /\ IF chain = <<>>
       THEN Finish
       ELSE /\ pc' = "abort" /\ cur' = chain[1]
            /\ UNCHANGED <<op, img, dirc, chain, io>>
    /\ UNCHANGED <<disk, hint, cwd, cuts, torn, lost>>

(* fat32_delete_file, up to its first FAT write. *)
DeleteFile(name) ==
    /\ pc = "idle"
    /\ LET slot == Find(Load(cwd), name)
       IN  /\ slot # 0
           /\ At(Load(cwd), slot).tag = "file"
           /\ Start("delete", name, <<>>, slot)
           /\ cur' = At(Load(cwd), slot).cluster
    /\ pc' = "free"
    /\ UNCHANGED <<disk, hint, chain, io, cwd, cuts, torn, lost>>

(* Mutant of NextToFree: stops after one cluster. *)
NextToFreeNone == 0

(* One round of free_cluster_chain: read the link, zero the entry, go on.    *)
(* The loop also ends after data_clusters + 2 rounds; the model leaves that  *)
(* guard out, so that a chain has to end by itself.                          *)
NextToFree == IF InRange(fat[cur]) THEN fat[cur] ELSE 0
FreeCluster ==
    /\ pc \in {"free", "abort"} /\ io = <<>>
    /\ cur # 0
    /\ io' = WriteEntry(cur, 0)
    /\ cur' = NextToFree
    /\ UNCHANGED <<disk, hint, pc, op, img, dirc, chain, cwd, cuts, torn, lost>>

(* The chain is free: mark the slots of the entry and dir_save. *)
MarkEntry ==
    /\ pc = "free" /\ io = <<>> /\ cur = 0
    /\ img' = MarkDeleted(img, op.slot)
    /\ io' = SaveWrites(img', dirc)
    /\ pc' = "save"
    /\ UNCHANGED <<disk, hint, op, dirc, chain, cur, cwd, cuts, torn, lost>>

Return ==
    /\ io = <<>>
    /\ pc = "save" \/ (pc = "abort" /\ cur = 0)
    /\ Finish
    /\ UNCHANGED <<disk, hint, cwd, cuts, torn, lost>>

-----------------------------------------------------------------------------
(* The disk, the shell's current directory, power.                           *)

(* A copy of the FAT after the write w. *)
Written(f, copy, w) ==
    IF w.to = "zero" /\ w.copy = copy THEN [c \in Cluster |-> 0]
    ELSE IF w.to = "fat" /\ w.copy = copy THEN [f EXCEPT ![w.cluster] = w.value]
    ELSE f

(* ata_write_sector for the first issued write. *)
DiskWrite ==
    /\ io # <<>>
    /\ io' = Tail(io)
    /\ LET w == Head(io)
       IN  /\ boot' = IF w.to = "boot" THEN "fat32" ELSE boot
           /\ fat' = Written(fat, 0, w)
           /\ mirror' = Written(mirror, 1, w)
           /\ data' = IF w.to = "data" THEN [data EXCEPT ![w.cluster] = w.value] ELSE data
    /\ UNCHANGED <<hint, pc, op, img, dirc, chain, cur, cwd, cuts, torn, lost>>

(* cd into a subdirectory, to the parent, to the root. *)
ChangeDir(d) ==
    /\ pc = "idle"
    /\ \/ \E i \in Visible(Load(cwd)) :
             At(Load(cwd), i).tag = "dir" /\ d = At(Load(cwd), i).cluster
       \/ cwd # Root /\ d = Parent(Load(cwd)) /\ d # 0
       \/ d = Root
    /\ cwd' = d
    /\ UNCHANGED <<disk, ram, cuts, torn, lost>>

(* fat32_fs_init: format_fs on a disk that is not formatted, init_from_disk  *)
(* on one that is.                                                           *)
Boot ==
    /\ pc = "off"
    /\ IF boot = "blank"
       THEN pc' = "format" /\ io' = FormatWrites
       ELSE pc' = "idle" /\ UNCHANGED io
    /\ UNCHANGED <<disk, hint, op, img, dirc, chain, cur, cwd, cuts, torn, lost>>

FormatDone ==
    /\ pc = "format" /\ io = <<>>
    /\ pc' = "idle"
    /\ hint' = 3
    /\ UNCHANGED <<disk, op, img, dirc, chain, cur, io, cwd, cuts, torn, lost>>

(* What the running operation would leave half done if the power failed now: *)
(* a format whose boot sector is written and whose root is not; a deletion   *)
(* that has begun to free the chain of an entry the disk still has; a new    *)
(* entry with an LFN slot on the disk, in an earlier sector, without it.     *)
EntryWritten(slot) == At(Image(data, dirc), slot) = At(img, slot)
FormatHalfDone == pc = "format" /\ boot = "fat32" /\ io # <<>>
DeleteHalfDone ==
    /\ op.kind = "delete"
    /\ \/ pc = "free" /\ cur # At(img, op.slot).cluster
       \/ pc = "save" /\ ~EntryWritten(op.slot)
InsertHalfDone ==
    /\ op.kind \in {"create", "mkdir"} /\ pc = "save"
    /\ ~EntryWritten(op.slot)
    /\ \E i \in LfnSetOf(img, op.slot) : At(img, i).tag = "lfn" /\ EntryWritten(i)
HalfDone ==
    (IF FormatHalfDone THEN {"format"} ELSE {})
      \cup (IF DeleteHalfDone THEN {"delete"} ELSE {})
      \cup (IF InsertHalfDone THEN {"insert"} ELSE {})

PowerCut ==
    /\ pc # "off" /\ cuts < MaxCuts
    /\ cuts' = cuts + 1
    /\ torn' = torn \cup HalfDone
    /\ pc' = "off" /\ op' = NoOp /\ hint' = 3 /\ cwd' = Root
    /\ img' = <<>> /\ dirc' = <<>> /\ chain' = <<>> /\ cur' = 0 /\ io' = <<>>
    /\ UNCHANGED <<disk, lost>>

-----------------------------------------------------------------------------
(* A blank disk, or one that held something else. *)
Init ==
    /\ boot = "blank"
    /\ fat \in {[c \in Cluster |-> 0], [c \in Cluster |-> EOC]}
    /\ mirror = fat
    /\ data = [c \in Cluster |-> Junk]
    /\ hint = 3 /\ cwd = Root /\ pc = "off" /\ op = NoOp
    /\ img = <<>> /\ dirc = <<>> /\ chain = <<>> /\ cur = 0 /\ io = <<>>
    /\ cuts = 0 /\ torn = {} /\ lost = {}

(* What the driver does by itself once it has been called. *)
Work ==
    \/ DiskWrite \/ FormatDone \/ AllocCluster \/ AllocFails \/ WriteContents
    \/ ChooseShort \/ SearchRun \/ PlaceEntry \/ ExtendDir \/ InsertFails
    \/ FreeCluster \/ MarkEntry \/ Return

(* What the shell and the outside world do to it. *)
Call ==
    \/ \E name \in Name, blocks \in Contents : CreateFile(name, blocks)
    \/ \E name \in Name : CreateDir(name)
    \/ \E name \in Name : DeleteFile(name)
    \/ \E d \in Cluster : ChangeDir(d)

Next == Work \/ Call \/ Boot \/ PowerCut

Spec == Init /\ [][Next]_vars
=============================================================================
